--------------------------- MODULE SimulationProofs ---------------------------
(***************************************************************************)
(* Proofs about the event-driven simulation, for every cluster, workload   *)
(* and int64 bound.  The first part is about its state: the types, and     *)
(* that no event is missed, no job is lost, no resource is lost or created *)
(* and the queue is in arrival order.  The second part is about the jobs   *)
(* it starts, its queue policies, its errors and the jobs it leaves over,  *)
(* the third about its result: the timeline, the aggregates, and that the  *)
(* reported lifecycles can be executed.                                    *)
(*                                                                         *)
(* TypeInv is the inductive form of the type invariant: the types depend   *)
(* on the inputs having been validated before the simulation starts, and   *)
(* on the tick being that of an event while one is processed.              *)
(***************************************************************************)
EXTENDS SimulationProperties, PlacementProofs, SequenceTheorems

InputsValidated ==
  pc \notin {"start", "failed"} =>
    /\ policy \in Policies
    /\ ValidateCluster(cluster)
    /\ ValidateTimedJobs(jobs)
    /\ DOMAIN lifecycle = JobIndexes

NothingStarted ==
  pc = "start" =>
    /\ tick = NoTick
    /\ NodeNames = {}
    /\ DOMAIN running = {} /\ DOMAIN lifecycle = {}
    /\ future = {} /\ pending = <<>> /\ retained = <<>> /\ blockingJob = 0
    /\ events = <<>>

TickIsEvent == pc \in {"complete", "arrive", "admit"} => tick \in NonNegInt64

TypeInv ==
  /\ TypeOK
  /\ IsFiniteSet(NodeNames)
  /\ InputsValidated
  /\ NothingStarted
  /\ TickIsEvent

-----------------------------------------------------------------------------
(***************************************************************************)
(* Lemmas about the steps' operators.                                      *)
(***************************************************************************)
\* What a validated job is known to satisfy.
LEMMA ValidJob ==
  ASSUME jobs \in Seq(Job), ValidateTimedJobs(jobs), NEW i \in JobIndexes
  PROVE  /\ jobs[i] \in Job
         /\ jobs[i].replicas \in PosInt64
         /\ jobs[i].resourcesPerReplica \in [Dim -> Nat]
         /\ \E d \in Dim : jobs[i].resourcesPerReplica[d] # 0
         /\ jobs[i].arrivalTick \in NonNegInt64
         /\ jobs[i].durationTicks \in PosInt64
<1>1. /\ jobs[i] \in Job
      /\ jobs[i].replicas \in PosInt64
      /\ jobs[i].resourcesPerReplica \in [Dim -> Nat]
      /\ \E d \in Dim : jobs[i].resourcesPerReplica[d] # 0
  BY ValidStaticJob DEF ValidateTimedJobs, JobIndexes
<1>2. jobs[i].arrivalTick >= 0 /\ jobs[i].durationTicks > 0
  BY DEF ValidateTimedJobs, JobIndexes
<1>3. jobs[i].arrivalTick \in Int64 /\ jobs[i].durationTicks \in Int64
  BY <1>1 DEF Job
<1>4. \A x \in Int64 : (x >= 0 => x \in NonNegInt64) /\ (x > 0 => x \in PosInt64)
  BY MaxInt64Assumption DEF Int64, NonNegInt64, PosInt64
<1> QED BY <1>1, <1>2, <1>3, <1>4

\* The nodes placeJob is called on meet its requirements.
LEMMA PlacementCalled ==
  ASSUME TypeInv, pc \notin {"start", "failed"}, NEW i \in JobIndexes
  PROVE  PlacementInput(nodes, remaining, jobs[i])
<1>1. ValidateTimedJobs(jobs) /\ jobs \in Seq(Job)
  BY DEF TypeInv, InputsValidated, TypeOK
<1> QED BY <1>1, ValidJob DEF PlacementInput, TypeInv, TypeOK, NodeNames

\* An accepted release leaves every node between zero and its capacity.
LEMMA ReleasedType ==
  ASSUME NEW N, NEW info \in [N -> NodeInfo],
         NEW rem \in [N -> [Dim -> NonNegInt64]],
         NEW job, job.resourcesPerReplica \in [Dim -> Nat],
         NEW used, NEW alloc \in [used -> PosInt64],
         ReleaseAccepted(info, rem, job, alloc)
  PROVE  Released(rem, job, alloc) \in [N -> [Dim -> NonNegInt64]]
<1> DEFINE request == job.resourcesPerReplica
<1>1. ASSUME NEW n \in DOMAIN alloc, NEW d \in Dim
      PROVE  /\ n \in N
             /\ rem[n][d] + ResourcesForReplicas(request, alloc[n])[d] \in NonNegInt64
  <2>1. /\ n \in N
        /\ ResourcesForReplicas(request, alloc[n])[d] <= info[n].capacity[d] - rem[n][d]
    BY DEF ReleaseAccepted
  <2>2. info[n].capacity[d] \in NonNegInt64 /\ rem[n][d] \in NonNegInt64
    BY <2>1 DEF NodeInfo
  <2>3. request[d] \in Nat /\ alloc[n] \in Nat
    BY MaxInt64Assumption DEF PosInt64
  <2>4. ResourcesForReplicas(request, alloc[n])[d] = request[d] * alloc[n]
    BY DEF ResourcesForReplicas
  <2> DEFINE use == request[d] * alloc[n]
  <2>5. use \in Nat
    <3> HIDE DEF request
    <3> QED BY <2>3, TimesMonotone
  <2> HIDE DEF use
  <2> QED BY <2>1, <2>2, <2>4, <2>5, MaxInt64Assumption DEF NonNegInt64, use
<1> QED BY <1>1 DEF Released

\* Whether a lifecycle is well-typed depends on the names of the nodes only.
LEMMA LifecyclesTyped ==
  ASSUME nodes' = nodes, \A j \in DOMAIN lifecycle' : LifecycleOK(lifecycle'[j])
  PROVE  \A j \in DOMAIN lifecycle' : LifecycleOK(lifecycle[j])'
BY DEF LifecycleOK, IsAllocation, NodeNames

\* An appended event keeps the types of the timeline and of the aggregates.
StatsType == [startTick : NonNegInt64, endTick : NonNegInt64, makespan : Int64,
              totalDelay : NonNegInt64, maxDelay : NonNegInt64,
              completed : Nat, unscheduled : Nat]

LEMMA AppendEventType ==
  ASSUME NEW s \in StatsType, events \in Seq(Event), tick \in NonNegInt64,
         NEW type \in {EventArrived, EventAdmitted, EventCompleted},
         NEW i \in JobIndexes, AppendEvent(s, type, i)
  PROVE  events' \in Seq(Event) /\ stats' \in StatsType
<1>1. [tick |-> tick, type |-> type, job |-> i] \in Event
  BY DEF Event
<1>2. events' \in Seq(Event)
  BY <1>1 DEF AppendEvent
<1> DEFINE first == IF events = <<>> THEN tick ELSE s.startTick
<1>3. first \in NonNegInt64
  BY DEF StatsType
<1>4. stats' = [s EXCEPT !.startTick = first, !.endTick = tick]
  BY DEF AppendEvent
<1> HIDE DEF first
<1>5. stats' \in StatsType
  BY <1>3, <1>4 DEF StatsType
<1> QED BY <1>2, <1>5

-----------------------------------------------------------------------------
(***************************************************************************)
(* TypeInv holds initially and every step preserves it.                    *)
(***************************************************************************)
LEMMA TypeInvInit == Init => TypeInv
<1> SUFFICES ASSUME Init PROVE TypeInv
  OBVIOUS
<1>1. cluster \in Seq(NodeInput) /\ jobs \in Seq(Job) /\ policy \in STRING
  BY ClustersAssumption, WorkloadsAssumption, PolicyNamesAssumption DEF Init
<1>2. TypeOK
  <2>1. /\ ctxNil \in BOOLEAN /\ ctxDone \in BOOLEAN /\ pc \in Steps \cup Terminal
        /\ err \in {"none"} \cup InputErrors \cup OverflowErrors \cup InternalErrors
        /\ tick \in Ticks
    BY DEF Init, Steps, Ticks
  <2>2. /\ DOMAIN nodes = {} /\ DOMAIN remaining = {} /\ DOMAIN running = {}
        /\ DOMAIN lifecycle = {}
    BY DEF Init
  <2>3. /\ NodeNames \subseteq Nat
        /\ nodes \in [NodeNames -> NodeInfo]
        /\ remaining \in [NodeNames -> [Dim -> NonNegInt64]]
    BY <2>2 DEF Init, NodeNames
  <2>4. /\ future \subseteq JobIndexes
        /\ pending \in Seq(JobIndexes) /\ retained \in Seq(JobIndexes)
        /\ blockingJob \in JobIndexes \cup {0}
        /\ events \in Seq(Event)
    BY DEF Init
  <2>5. stats \in [startTick : NonNegInt64, endTick : NonNegInt64, makespan : Int64,
                   totalDelay : NonNegInt64, maxDelay : NonNegInt64,
                   completed : Nat, unscheduled : Nat]
    BY MaxInt64Assumption DEF Init, NonNegInt64, Int64
  <2> QED BY <1>1, <2>1, <2>2, <2>3, <2>4, <2>5 DEF TypeOK
<1>3. IsFiniteSet(NodeNames)
  <2>1. NodeNames = {}
    BY DEF Init, NodeNames
  <2> QED BY <2>1, FS_EmptySet
<1> QED BY <1>2, <1>3
        DEF Init, TypeInv, InputsValidated, NothingStarted, TickIsEvent, NodeNames

\* A step that fails changes nothing but where the simulator is.
LEMMA FailKeepsTypes ==
  ASSUME TypeInv, NEW error, Fail(error),
         error \in InputErrors \cup OverflowErrors \cup InternalErrors
  PROVE  TypeInv'
<1>1. TypeOK'
  BY DEF Fail, TypeInv, TypeOK, inputVars, nodeVars, queueVars, resultVars, Terminal,
         NodeNames, JobIndexes, RunningOK, LifecycleOK, IsAllocation, Event
<1> QED BY <1>1 DEF Fail, TypeInv, InputsValidated, NothingStarted, TickIsEvent,
                    nodeVars, NodeNames

\* Neither does a step that only moves on, or a change of the context.
LEMMA MoveKeepsTypes ==
  ASSUME TypeInv, pc \notin {"start", "failed"},
         pc' \in (Steps \cup Terminal) \ {"start"}, ctxDone' \in BOOLEAN,
         pc' \in {"complete", "arrive", "admit"} => tick \in NonNegInt64,
         UNCHANGED <<inputVars, err, tick, nodeVars, queueVars, running, resultVars>>
  PROVE  TypeInv'
<1>1. TypeOK'
  BY DEF TypeInv, TypeOK, inputVars, nodeVars, queueVars, resultVars,
         NodeNames, JobIndexes, RunningOK, LifecycleOK, IsAllocation, Event
<1> QED BY <1>1 DEF TypeInv, InputsValidated, NothingStarted, TickIsEvent,
                    inputVars, nodeVars, resultVars, NodeNames, JobIndexes

\* The simulator starts with one idle node state per node of the cluster.
LEMMA NewSimulationStateKeepsTypes ==
  ASSUME TypeInv, NewSimulationState
  PROVE  TypeInv'
<1>1. /\ policy \in Policies /\ ValidateCluster(cluster) /\ ValidateTimedJobs(jobs)
      /\ cluster \in Seq(NodeInput)
  BY DEF NewSimulationState, InputError, NilContext, TypeInv, TypeOK
<1> DEFINE Names == {cluster[k].name : k \in DOMAIN cluster}
<1>2. /\ IsFiniteSet(Names) /\ Names \subseteq Nat
      /\ MakeNodeStates(cluster) \in [Names -> NodeInfo]
      /\ IdleResources(MakeNodeStates(cluster)) \in [Names -> [Dim -> NonNegInt64]]
  BY <1>1, NodeStatesType
<1>4. nodes' \in [Names -> NodeInfo]
  BY <1>2 DEF NewSimulationState
<1>5. NodeNames' = Names /\ Names \subseteq Nat
  BY <1>2, <1>4 DEF NodeNames
<1>6. remaining' \in [Names -> [Dim -> NonNegInt64]]
  BY <1>2 DEF NewSimulationState
<1>7. pc = "start" /\ pc' = "loop" /\ UNCHANGED <<inputVars, ctxDone, err>>
  BY DEF NewSimulationState, Goto
<1>8. /\ future' = JobIndexes
      /\ UNCHANGED <<tick, pending, retained, blockingJob, running, events, stats>>
      /\ lifecycle' = [i \in JobIndexes |->
                         [status |-> StatusNone, startTick |-> NoTick,
                          completionTick |-> NoTick, queueDelay |-> NoTick,
                          domain |-> EmptyName, allocation |-> <<>>,
                          reason |-> NoReason]]
  BY DEF NewSimulationState
<1>9. DOMAIN running' = {} /\ JobIndexes' = JobIndexes
  BY <1>7, <1>8 DEF TypeInv, NothingStarted, inputVars, JobIndexes
<1>10. \A i \in DOMAIN lifecycle' : LifecycleOK(lifecycle[i])'
  <2> SUFFICES ASSUME NEW i \in DOMAIN lifecycle' PROVE LifecycleOK(lifecycle[i])'
    OBVIOUS
  <2>1. lifecycle'[i] = [status |-> StatusNone, startTick |-> NoTick,
                         completionTick |-> NoTick, queueDelay |-> NoTick,
                         domain |-> EmptyName, allocation |-> <<>>,
                         reason |-> NoReason]
    BY <1>8
  <2>2. IsAllocation(<<>>)'
    BY DEF IsAllocation
  <2>3. NoReason.code \in ReasonCodes /\ EmptyName \in Domains /\ NoTick \in Ticks
    BY DEF ReasonCodes, Domains, EmptyName, Ticks
  <2> QED BY <2>1, <2>2, <2>3 DEF LifecycleOK, IsAllocation
<1>11. TypeOK'
  <2>1. /\ pc' \in Steps \cup Terminal /\ future' \subseteq JobIndexes
        /\ DOMAIN lifecycle' \subseteq JobIndexes
        /\ \A i \in DOMAIN running' : RunningOK(running[i])'
    BY <1>7, <1>8, <1>9 DEF Steps
  <2>2. /\ NodeNames' \subseteq Nat
        /\ nodes' \in [NodeNames' -> NodeInfo]
        /\ remaining' \in [NodeNames' -> [Dim -> NonNegInt64]]
    BY <1>4, <1>5, <1>6
  <2>3. events' \in Seq(Event')
    BY <1>7, <1>8 DEF TypeInv, TypeOK, Event, JobIndexes, inputVars
  <2> QED BY <2>1, <2>2, <2>3, <1>7, <1>8, <1>9, <1>10
          DEF TypeInv, TypeOK, inputVars
<1> HIDE DEF Names
<1> QED BY <1>1, <1>2, <1>5, <1>7, <1>8, <1>9, <1>11
        DEF TypeInv, InputsValidated, NothingStarted, TickIsEvent, inputVars

\* The next tick is that of an arrival or of a completion.
LEMMA NextEventTickKeepsTypes ==
  ASSUME TypeInv, NextEventTick
  PROVE  TypeInv'
<1>1. tick' \in NonNegInt64
  <2>1. ASSUME NEW i \in future PROVE jobs[i].arrivalTick \in NonNegInt64
    BY ValidJob DEF TypeInv, TypeOK, InputsValidated, NextEventTick
  <2>2. ASSUME NEW i \in DOMAIN running PROVE running[i].finishTick \in NonNegInt64
    BY DEF TypeInv, TypeOK, RunningOK
  <2> QED BY <2>1, <2>2 DEF NextEventTick, EventTicks
<1>2. /\ pc = "loop" /\ pc' = "complete"
      /\ UNCHANGED <<inputVars, ctxDone, err, nodeVars, queueVars, running, resultVars>>
  BY DEF NextEventTick, Goto
<1>3. TypeOK'
  BY <1>1, <1>2
     DEF TypeInv, TypeOK, Steps, Ticks, inputVars, nodeVars, queueVars, resultVars,
         NodeNames, JobIndexes, RunningOK, LifecycleOK, IsAllocation, Event
<1> QED BY <1>1, <1>2, <1>3
        DEF TypeInv, InputsValidated, NothingStarted, TickIsEvent,
            inputVars, nodeVars, resultVars, NodeNames, JobIndexes

\* A completion credits the nodes and keeps the sums of the delays in range.
LEMMA CompleteJobKeepsTypes ==
  ASSUME TypeInv, CompleteJob, pc' # "failed"
  PROVE  TypeInv'
<1>1. PICK i \in DOMAIN running :
        /\ CompletionError(i) = "none"
        /\ running' = Restrict(running, DOMAIN running \ {i})
        /\ remaining' = Released(remaining, jobs[i], running[i].allocation)
        /\ lifecycle' = [lifecycle EXCEPT ![i] = CompletedLifecycle(@)]
        /\ AppendEvent([stats EXCEPT !.totalDelay = @ + lifecycle[i].queueDelay,
                          !.maxDelay = IF lifecycle[i].queueDelay > @
                                       THEN lifecycle[i].queueDelay ELSE @,
                          !.completed = @ + 1],
                       EventCompleted, i)
        /\ Goto("complete")
        /\ UNCHANGED <<tick, nodes, queueVars>>
  BY DEF CompleteJob, Fail
<1> DEFINE delay == lifecycle[i].queueDelay
           alloc == running[i].allocation
<1>2. /\ TypeOK /\ ValidateTimedJobs(jobs) /\ jobs \in Seq(Job)
      /\ DOMAIN lifecycle = JobIndexes /\ i \in JobIndexes
      /\ pc = "complete" /\ tick \in NonNegInt64
  BY <1>1 DEF TypeInv, TypeOK, InputsValidated, TickIsEvent, CompleteJob
<1>3. LifecycleOK(lifecycle[i]) /\ RunningOK(running[i])
  BY <1>1, <1>2 DEF TypeOK
<1>4. /\ ReleaseAccepted(nodes, remaining, jobs[i], alloc)
      /\ delay # NoTick /\ ~ (stats.totalDelay > MaxInt64 - delay)
  BY <1>1 DEF CompletionError
<1>5. remaining' \in [NodeNames -> [Dim -> NonNegInt64]]
  <2>1. jobs[i].resourcesPerReplica \in [Dim -> Nat]
    BY <1>2, ValidJob
  <2>2. alloc \in [DOMAIN alloc -> PosInt64]
    BY <1>3 DEF RunningOK, IsAllocation
  <2>3. nodes \in [NodeNames -> NodeInfo] /\ remaining \in [NodeNames -> [Dim -> NonNegInt64]]
    BY <1>2 DEF TypeOK
  <2> HIDE DEF alloc
  <2>4. Released(remaining, jobs[i], alloc) \in [NodeNames -> [Dim -> NonNegInt64]]
    BY <1>4, <2>1, <2>2, <2>3, ReleasedType
  <2> QED BY <1>1, <2>4 DEF alloc
<1> DEFINE sums == [stats EXCEPT !.totalDelay = @ + delay,
                      !.maxDelay = IF delay > @ THEN delay ELSE @,
                      !.completed = @ + 1]
<1>6. sums \in StatsType
  <2>1. delay \in NonNegInt64
    BY <1>3, <1>4 DEF LifecycleOK, Ticks
  <2>2. stats \in StatsType
    BY <1>2 DEF TypeOK, StatsType
  <2> HIDE DEF delay
  <2>3. stats.totalDelay + delay \in NonNegInt64
    BY <2>1, <2>2, <1>4, MaxInt64Assumption DEF StatsType, NonNegInt64
  <2> DEFINE most == IF delay > stats.maxDelay THEN delay ELSE stats.maxDelay
             total == stats.totalDelay + delay
             count == stats.completed + 1
  <2>4. most \in NonNegInt64 /\ total \in NonNegInt64 /\ count \in Nat
    BY <2>1, <2>2, <2>3 DEF StatsType
  <2>5. sums = [stats EXCEPT !.totalDelay = total, !.maxDelay = most, !.completed = count]
    OBVIOUS
  <2> HIDE DEF most, total, count, sums
  <2> QED BY <2>2, <2>4, <2>5 DEF StatsType
<1>7. events' \in Seq(Event) /\ stats' \in StatsType
  <2>1. AppendEvent(sums, EventCompleted, i)
    BY <1>1
  <2> HIDE DEF sums
  <2> QED BY <1>2, <1>6, <2>1, AppendEventType DEF TypeOK
<1>8. /\ DOMAIN running' \subseteq JobIndexes
      /\ \A j \in DOMAIN running' : RunningOK(running'[j])
  BY <1>1, <1>2 DEF TypeOK, Restrict
<1>9. /\ DOMAIN lifecycle' = JobIndexes
      /\ \A j \in DOMAIN lifecycle' : LifecycleOK(lifecycle'[j])
  <2>1. /\ DOMAIN lifecycle' = JobIndexes
        /\ lifecycle'[i] = CompletedLifecycle(lifecycle[i])
        /\ \A j \in JobIndexes \ {i} : lifecycle'[j] = lifecycle[j]
    BY <1>1, <1>2
  <2>2. LifecycleOK(CompletedLifecycle(lifecycle[i]))
    BY <1>2, <1>3 DEF CompletedLifecycle, LifecycleOK, Ticks
  <2> QED BY <1>2, <2>1, <2>2 DEF TypeOK
<1>10. /\ UNCHANGED <<inputVars, ctxDone, err, tick, nodes, queueVars>>
       /\ pc' = "complete"
  BY <1>1 DEF Goto
<1> HIDE DEF sums
<1>11. TypeOK'
  <2>1. \A j \in DOMAIN lifecycle' : LifecycleOK(lifecycle[j])'
    BY <1>9, <1>10, LifecyclesTyped
  <2> QED BY <1>2, <1>5, <1>7, <1>8, <1>9, <1>10, <2>1
          DEF TypeOK, Steps, inputVars, queueVars, NodeNames, JobIndexes, RunningOK,
              IsAllocation, Event, StatsType
<1> QED BY <1>2, <1>9, <1>10, <1>11
        DEF TypeInv, InputsValidated, NothingStarted, TickIsEvent, inputVars,
            NodeNames, JobIndexes

\* An arrival joins the queue.
LEMMA ArriveJobKeepsTypes ==
  ASSUME TypeInv, ArriveJob
  PROVE  TypeInv'
<1>1. PICK i \in future : /\ pending' = Append(pending, i)
                          /\ future' = future \ {i}
                          /\ AppendEvent(stats, EventArrived, i)
  BY DEF ArriveJob
<1>2. /\ TypeOK /\ i \in JobIndexes /\ pc = "arrive" /\ tick \in NonNegInt64
      /\ stats \in StatsType
  BY DEF ArriveJob, TypeInv, TypeOK, TickIsEvent, StatsType
<1>3. events' \in Seq(Event) /\ stats' \in StatsType
  BY <1>1, <1>2, AppendEventType DEF TypeOK
<1>4. pending' \in Seq(JobIndexes)
  BY <1>1, <1>2 DEF TypeOK
<1>5. /\ UNCHANGED <<inputVars, ctxDone, err, tick, nodeVars, retained, blockingJob,
                     running, lifecycle>>
      /\ pc' = "arrive"
  BY DEF ArriveJob, Goto
<1>6. TypeOK'
  BY <1>1, <1>2, <1>3, <1>4, <1>5
     DEF TypeOK, Steps, inputVars, nodeVars, NodeNames, JobIndexes, RunningOK,
         LifecycleOK, IsAllocation, Event, StatsType
<1> QED BY <1>2, <1>5, <1>6
        DEF TypeInv, InputsValidated, NothingStarted, TickIsEvent, inputVars, nodeVars,
            NodeNames, JobIndexes

\* So does a change of the queue alone.
LEMMA QueueKeepsTypes ==
  ASSUME TypeInv, pc \in Steps \ {"start"}, pc' \in {"loop", "admit"},
         pc' = "admit" => pc = "admit",
         pending' \in Seq(JobIndexes), retained' \in Seq(JobIndexes),
         UNCHANGED <<inputVars, ctxDone, err, tick, nodeVars, future, blockingJob,
                     running, resultVars>>
  PROVE  TypeInv'
<1>1. TypeOK'
  BY DEF TypeInv, TypeOK, Steps, inputVars, nodeVars, resultVars,
         NodeNames, JobIndexes, RunningOK, LifecycleOK, IsAllocation, Event
<1> QED BY <1>1 DEF TypeInv, InputsValidated, NothingStarted, TickIsEvent, Steps,
                    inputVars, nodeVars, resultVars, NodeNames, JobIndexes

\* A job that is placed starts with a lifecycle and a finish tick in range.
LEMMA AdmitKeepsTypes ==
  ASSUME TypeInv, pc = "admit", pending # <<>>,
         NEW placed \in Place(Head(pending)), placed.kind = "placed",
         AdmissionError(Head(pending), placed) = "none",
         Admit(Head(pending), placed), pending' = Tail(pending), Goto("admit"),
         UNCHANGED <<tick, nodes, future, retained, blockingJob>>
  PROVE  TypeInv'
<1> DEFINE i == Head(pending)
           alloc == placed.allocation
<1>1. /\ TypeOK /\ ValidateTimedJobs(jobs) /\ jobs \in Seq(Job)
      /\ DOMAIN lifecycle = JobIndexes /\ tick \in NonNegInt64
  BY DEF TypeInv, TypeOK, InputsValidated, TickIsEvent
<1>2. i \in JobIndexes /\ pending' \in Seq(JobIndexes)
  BY <1>1 DEF TypeOK
<1> HIDE DEF i
<1>3. /\ jobs[i].arrivalTick \in NonNegInt64 /\ jobs[i].durationTicks \in PosInt64
      /\ jobs[i] \in Job
  BY <1>1, <1>2, ValidJob
<1>4. /\ alloc \in [DOMAIN alloc -> PosInt64]
      /\ DOMAIN alloc \subseteq NodeNames
      /\ \A n \in DOMAIN alloc, d \in Dim :
           ResourcesForReplicas(jobs[i].resourcesPerReplica, alloc[n])[d]
             \in 0 .. remaining[n][d]
      /\ placed.domain \in DOMAIN BuildDomains(nodes, jobs[i].requiredTopology)
  <2>1. PlacementInput(nodes, remaining, jobs[i])
    BY <1>2, PlacementCalled
  <2>2. placed \in PlaceJob(nodes, remaining, jobs[i])
    BY DEF Place, i
  <2> QED BY <2>1, <2>2, PlacedAllocation DEF NodeNames
<1>5. placed.domain \in Domains
  <2>1. jobs[i].requiredTopology \in TopologyKeys \cup {NoTopology}
    BY <1>3 DEF Job
  <2>2. nodes \in [NodeNames -> NodeInfo]
    BY <1>1 DEF TypeOK
  <2> QED BY <1>4, <2>1, <2>2, DomainType
<1>6. /\ remaining' = Consumed(remaining, jobs[i], alloc)
      /\ lifecycle' = [lifecycle EXCEPT ![i] = StartedLifecycle(@, i, placed)]
      /\ running' = [j \in DOMAIN running \cup {i} |->
                       IF j = i THEN [finishTick |-> tick + jobs[i].durationTicks,
                                      allocation |-> alloc]
                       ELSE running[j]]
      /\ AppendEvent(stats, EventAdmitted, i)
  BY DEF Admit, i
<1>7. ~ (tick < jobs[i].arrivalTick) /\ ~ (tick > MaxInt64 - jobs[i].durationTicks)
  BY DEF AdmissionError, FinishTickOverflows, i
<1>8. remaining' \in [NodeNames -> [Dim -> NonNegInt64]]
  <2>1. remaining \in [NodeNames -> [Dim -> NonNegInt64]]
    BY <1>1 DEF TypeOK
  <2> HIDE DEF alloc
  <2> QED BY <1>4, <1>6, <2>1, ConsumedType
<1>9. IsAllocation(alloc)
  BY <1>4 DEF IsAllocation
<1> HIDE DEF alloc
<1>10. /\ DOMAIN running' \subseteq JobIndexes
       /\ \A j \in DOMAIN running' : RunningOK(running'[j])
  <2> DEFINE finish == tick + jobs[i].durationTicks
  <2>1. finish \in NonNegInt64
    BY <1>1, <1>3, <1>7, MaxInt64Assumption DEF NonNegInt64, PosInt64
  <2> HIDE DEF finish
  <2>2. RunningOK([finishTick |-> finish, allocation |-> alloc])
    BY <2>1, <1>9 DEF RunningOK
  <2>3. running' = [j \in DOMAIN running \cup {i} |->
                     IF j = i THEN [finishTick |-> finish, allocation |-> alloc]
                     ELSE running[j]]
    BY <1>6 DEF finish
  <2>4. \A j \in DOMAIN running : RunningOK(running[j])
    BY <1>1 DEF TypeOK
  <2>5. DOMAIN running \subseteq JobIndexes
    BY <1>1 DEF TypeOK
  <2> QED BY <1>2, <2>2, <2>3, <2>4, <2>5
<1>11. /\ DOMAIN lifecycle' = JobIndexes
       /\ \A j \in DOMAIN lifecycle' : LifecycleOK(lifecycle'[j])
  <2>1. /\ DOMAIN lifecycle' = JobIndexes
        /\ lifecycle'[i] = StartedLifecycle(lifecycle[i], i, placed)
        /\ \A j \in JobIndexes \ {i} : lifecycle'[j] = lifecycle[j]
    BY <1>1, <1>2, <1>6
  <2> DEFINE delay == tick - jobs[i].arrivalTick
  <2>2. delay \in Ticks /\ tick \in Ticks
    BY <1>1, <1>3, <1>7, MaxInt64Assumption DEF NonNegInt64, Ticks
  <2>3. StartedLifecycle(lifecycle[i], i, placed)
          = [lifecycle[i] EXCEPT !.startTick = tick, !.queueDelay = delay,
                                 !.domain = placed.domain, !.allocation = alloc]
    BY DEF StartedLifecycle, alloc
  <2> HIDE DEF delay
  <2>4. LifecycleOK(lifecycle[i])
    BY <1>1, <1>2 DEF TypeOK
  <2>5. LifecycleOK(StartedLifecycle(lifecycle[i], i, placed))
    BY <1>5, <1>9, <2>2, <2>3, <2>4 DEF LifecycleOK
  <2> QED BY <1>1, <2>1, <2>5 DEF TypeOK
<1>12. events' \in Seq(Event) /\ stats' \in StatsType
  BY <1>1, <1>2, <1>6, AppendEventType DEF TypeOK, StatsType
<1>13. pc' = "admit" /\ UNCHANGED <<inputVars, ctxDone, err>>
  BY DEF Goto
<1>14. TypeOK'
  <2>1. \A j \in DOMAIN lifecycle' : LifecycleOK(lifecycle[j])'
    BY <1>11, LifecyclesTyped
  <2> QED BY <1>1, <1>2, <1>8, <1>10, <1>11, <1>12, <1>13, <2>1
          DEF TypeOK, Steps, inputVars, NodeNames, JobIndexes, RunningOK,
              IsAllocation, Event, StatsType
<1> QED BY <1>1, <1>11, <1>13, <1>14
        DEF TypeInv, InputsValidated, NothingStarted, TickIsEvent, inputVars,
            NodeNames, JobIndexes

\* A leftover is reported with a reason.
LEMMA MarkUnscheduledKeepsTypes ==
  ASSUME TypeInv, pc = "unschedule", pending # <<>>,
         NEW reason, reason.code \in ReasonCodes,
         MarkUnscheduled(Head(pending), reason),
         blockingJob' \in JobIndexes \cup {0}
  PROVE  TypeInv'
<1> DEFINE i == Head(pending)
<1>1. TypeOK /\ DOMAIN lifecycle = JobIndexes /\ jobs \in Seq(Job)
  BY DEF TypeInv, TypeOK, InputsValidated
<1>2. i \in JobIndexes /\ pending' \in Seq(JobIndexes)
  BY <1>1 DEF TypeOK, MarkUnscheduled
<1> HIDE DEF i
<1>3. /\ lifecycle' = [lifecycle EXCEPT ![i].status = LifecycleUnscheduled,
                                         ![i].reason = reason]
      /\ stats' = [stats EXCEPT !.unscheduled = @ + 1]
      /\ pc' = "unschedule" /\ UNCHANGED <<inputVars, ctxDone, err>>
      /\ UNCHANGED <<tick, nodeVars, future, retained, running, events>>
  BY DEF MarkUnscheduled, Goto, i
<1>4. stats' \in StatsType
  <2>1. stats \in StatsType
    BY <1>1 DEF TypeOK, StatsType
  <2>2. stats.unscheduled + 1 \in Nat
    BY <2>1 DEF StatsType
  <2> QED BY <1>3, <2>1, <2>2 DEF StatsType
<1>5. /\ DOMAIN lifecycle' = JobIndexes
      /\ \A j \in DOMAIN lifecycle' : LifecycleOK(lifecycle'[j])
  <2>1. /\ DOMAIN lifecycle' = JobIndexes
        /\ lifecycle'[i] = [lifecycle[i] EXCEPT !.status = LifecycleUnscheduled,
                                                !.reason = reason]
        /\ \A j \in JobIndexes \ {i} : lifecycle'[j] = lifecycle[j]
    BY <1>1, <1>2, <1>3
  <2>2. LifecycleOK(lifecycle[i])
    BY <1>1, <1>2 DEF TypeOK
  <2>3. LifecycleOK([lifecycle[i] EXCEPT !.status = LifecycleUnscheduled,
                                        !.reason = reason])
    BY <2>2 DEF LifecycleOK
  <2> QED BY <1>1, <2>1, <2>3 DEF TypeOK
<1>6. TypeOK'
  <2>1. \A j \in DOMAIN lifecycle' : LifecycleOK(lifecycle[j])'
    BY <1>3, <1>5, LifecyclesTyped DEF nodeVars
  <2> QED BY <1>1, <1>2, <1>3, <1>4, <1>5, <2>1
          DEF TypeOK, Steps, inputVars, nodeVars, NodeNames, JobIndexes, RunningOK,
              IsAllocation, Event, StatsType
<1> QED BY <1>1, <1>3, <1>5, <1>6
        DEF TypeInv, InputsValidated, NothingStarted, TickIsEvent, inputVars, nodeVars,
            NodeNames, JobIndexes

\* The makespan is the difference of two ticks of the timeline.
LEMMA FinishKeepsTypes ==
  ASSUME TypeInv, Finish, pc' # "failed"
  PROVE  TypeInv'
<1> DEFINE span == IF events # <<>> THEN stats.endTick - stats.startTick
                   ELSE stats.makespan
<1>1. TypeOK /\ pc = "unschedule" /\ stats \in StatsType
  BY DEF TypeInv, TypeOK, Finish, StatsType
<1>2. /\ stats' = [stats EXCEPT !.makespan = span]
      /\ pc' = "done" /\ UNCHANGED <<inputVars, ctxDone, err>>
      /\ UNCHANGED <<tick, nodeVars, queueVars, running, lifecycle, events>>
  BY DEF Finish, Fail, Goto
<1>3. span \in Int64
  <2>1. /\ stats.endTick \in NonNegInt64 /\ stats.startTick \in NonNegInt64
        /\ stats.makespan \in Int64
    BY <1>1 DEF StatsType
  <2> QED BY <2>1, MaxInt64Assumption DEF NonNegInt64, Int64
<1> HIDE DEF span
<1>4. stats' \in StatsType
  BY <1>1, <1>2, <1>3 DEF StatsType
<1>5. TypeOK'
  BY <1>1, <1>2, <1>4
     DEF TypeOK, Terminal, inputVars, nodeVars, queueVars, NodeNames, JobIndexes,
         RunningOK, LifecycleOK, IsAllocation, Event, StatsType
<1> QED BY <1>1, <1>2, <1>5
        DEF TypeInv, InputsValidated, NothingStarted, TickIsEvent, inputVars,
            nodeVars, queueVars, NodeNames, JobIndexes

\* Every step of the simulator, one step of the proof per action.
LEMMA TypeInvStep == TypeInv /\ [Next]_vars => TypeInv'
<1> SUFFICES ASSUME TypeInv, [Next]_vars PROVE TypeInv'
  OBVIOUS
<1> USE DEF Goto
<1>1. TypeOK
  BY DEF TypeInv
<1>2. CASE RejectInput
  BY <1>2, FailKeepsTypes DEF RejectInput, InputError, InputErrors
<1>3. CASE NewSimulationState
  BY <1>3, NewSimulationStateKeepsTypes
<1>4. CASE NextEventTick
  BY <1>4, NextEventTickKeepsTypes
<1>5. CASE CompleteJob
  <2>1. CASE pc' = "failed"
    <3>1. \E error \in OverflowErrors \cup InternalErrors : Fail(error)
      BY <1>5, <2>1 DEF CompleteJob, CompletionError, OverflowErrors, InternalErrors
    <3> QED BY <3>1, FailKeepsTypes
  <2> QED BY <1>5, <2>1, CompleteJobKeepsTypes
<1>6. CASE CompletionsDone
  BY <1>6, MoveKeepsTypes, <1>1
     DEF CompletionsDone, Steps, TypeOK, TypeInv, TickIsEvent
<1>7. CASE ArriveJob
  BY <1>7, ArriveJobKeepsTypes
<1>8. CASE ArrivalsDone
  BY <1>8, MoveKeepsTypes, <1>1
     DEF ArrivalsDone, Steps, TypeOK, TypeInv, TickIsEvent
<1>9. CASE TryAdmit
  <2> DEFINE i == Head(pending)
  <2>1. /\ pc = "admit" /\ pending # <<>> /\ i \in JobIndexes
        /\ pending \in Seq(JobIndexes) /\ retained \in Seq(JobIndexes)
    BY <1>1, <1>9 DEF TryAdmit, TypeOK
  <2>2. PICK placed \in Place(i) :
          \/ /\ AdmissionError(i, placed) # "none"
             /\ Fail(AdmissionError(i, placed))
          \/ /\ AdmissionError(i, placed) = "none" /\ placed.kind = "rejected"
             /\ Retain(i)
             /\ UNCHANGED <<tick, nodeVars, future, blockingJob, running, resultVars>>
          \/ /\ AdmissionError(i, placed) = "none" /\ placed.kind = "placed"
             /\ Admit(i, placed)
             /\ pending' = Tail(pending)
             /\ Goto("admit")
             /\ UNCHANGED <<tick, nodes, future, retained, blockingJob>>
    BY <1>9 DEF TryAdmit
  <2>3. CASE Fail(AdmissionError(i, placed)) /\ AdmissionError(i, placed) # "none"
    <3>1. AdmissionError(i, placed) \in OverflowErrors \cup InternalErrors
      BY <2>3 DEF AdmissionError, OverflowErrors, InternalErrors
    <3> QED BY <2>3, <3>1, FailKeepsTypes
  <2>4. CASE /\ Retain(i)
             /\ UNCHANGED <<tick, nodeVars, future, blockingJob, running, resultVars>>
    <3>1. Tail(pending) \in Seq(JobIndexes)
      BY <2>1
    <3>2. Append(retained, i) \in Seq(JobIndexes)
      <4> HIDE DEF i
      <4> QED BY <2>1
    <3>3. /\ pc' \in {"loop", "admit"}
          /\ pending' \in Seq(JobIndexes) /\ retained' \in Seq(JobIndexes)
          /\ UNCHANGED <<inputVars, ctxDone, err>>
      BY <2>1, <2>4, <3>1, <3>2 DEF Retain
    <3> QED BY <2>1, <2>4, <3>3, QueueKeepsTypes DEF Steps
  <2>5. CASE /\ AdmissionError(i, placed) = "none" /\ placed.kind = "placed"
             /\ Admit(i, placed)
             /\ pending' = Tail(pending)
             /\ Goto("admit")
             /\ UNCHANGED <<tick, nodes, future, retained, blockingJob>>
    BY <2>1, <2>5, AdmitKeepsTypes
  <2> QED BY <2>2, <2>3, <2>4, <2>5
<1>10. CASE AdmissionDone
  BY <1>10, <1>1, QueueKeepsTypes DEF AdmissionDone, TypeOK, Steps
<1>11. CASE LeaveLoop
  BY <1>11, MoveKeepsTypes, <1>1 DEF LeaveLoop, Steps, TypeOK
<1>12. CASE TerminalizePending
  <2>1. CASE TerminalError # "none"
    BY <1>12, <2>1, FailKeepsTypes DEF TerminalizePending, TerminalError, InternalErrors
  <2>2. CASE TerminalError = "none"
    BY <1>12, <2>2, MoveKeepsTypes, <1>1 DEF TerminalizePending, Steps, TypeOK
  <2> QED BY <2>1, <2>2
<1>13. CASE UnscheduleUnplaceable
  <2> DEFINE i == Head(pending)
  <2>1. PICK placed \in Place(i) :
          IF placed.kind # "rejected"
          THEN Fail(IF placed.kind = "error" THEN "placement" ELSE "unexpected fit")
          ELSE MarkUnscheduled(i, placed.reason) /\ blockingJob' = Blocker(i)
    BY <1>13 DEF UnscheduleUnplaceable
  <2>2. CASE placed.kind # "rejected"
    BY <2>1, <2>2, FailKeepsTypes DEF InternalErrors
  <2>3. CASE placed.kind = "rejected"
    <3>1. i \in JobIndexes /\ pc = "unschedule" /\ pending # <<>>
      <4>1. pending \in Seq(JobIndexes)
        BY <1>1 DEF TypeOK
      <4>2. pc = "unschedule" /\ pending # <<>>
        BY <1>13 DEF UnscheduleUnplaceable
      <4> QED BY <4>1, <4>2
    <3>2. blockingJob' \in JobIndexes \cup {0}
      BY <2>1, <2>3, <3>1 DEF Blocker
    <3>3. placed.reason.code \in ReasonCodes
      BY <2>3, RefusalReason DEF Place
    <3> QED BY <2>1, <2>3, <3>1, <3>2, <3>3, MarkUnscheduledKeepsTypes
  <2> QED BY <2>2, <2>3
<1>14. CASE UnscheduleBlocked
  <2>1. HeadOfLineReason(jobs[blockingJob].name).code \in ReasonCodes
    BY DEF HeadOfLineReason, ReasonCodes
  <2> QED BY <1>1, <1>14, <2>1, MarkUnscheduledKeepsTypes
          DEF UnscheduleBlocked, TypeOK
<1>15. CASE Finish
  <2>1. CASE pc' = "failed"
    BY <1>15, <2>1, FailKeepsTypes DEF Finish, InternalErrors
  <2> QED BY <1>15, <2>1, FinishKeepsTypes
<1>16. CASE Canceled
  BY <1>16, FailKeepsTypes DEF Canceled, InputErrors
<1>17. CASE Cancel
  <2>1. /\ UNCHANGED <<inputVars, pc, err, tick, nodeVars, queueVars, running, resultVars>>
        /\ ctxDone' = TRUE
    BY <1>17 DEF Cancel
  <2>2. TypeOK'
    BY <1>1, <2>1 DEF TypeOK, inputVars, nodeVars, queueVars, resultVars,
                      NodeNames, JobIndexes, RunningOK, LifecycleOK, IsAllocation, Event
  <2> QED BY <2>1, <2>2
          DEF TypeInv, InputsValidated, NothingStarted, TickIsEvent, inputVars,
              nodeVars, queueVars, resultVars, NodeNames, JobIndexes
<1>18. CASE UNCHANGED vars
  BY <1>18 DEF vars, TypeInv, TypeOK, InputsValidated, NothingStarted, TickIsEvent,
               inputVars, nodeVars, queueVars, resultVars,
               NodeNames, JobIndexes, RunningOK, LifecycleOK, IsAllocation, Event
<1> QED BY <1>2, <1>3, <1>4, <1>5, <1>6, <1>7, <1>8, <1>9, <1>10, <1>11, <1>12,
           <1>13, <1>14, <1>15, <1>16, <1>17, <1>18 DEF Next, Step, Terminated

(***************************************************************************)
(* Type correctness: in every state of every simulation, whatever the      *)
(* cluster, the workload, the policy name and the bound of int64, what     *)
(* remains of a node stays within int64 and is never negative, the ticks   *)
(* and the delay sums do not overflow, and the queue, the running jobs and *)
(* the result only mention jobs and nodes of the input.                    *)
(***************************************************************************)
THEOREM TypeCorrect == Spec => []TypeOK
<1>1. TypeInv => TypeOK
  BY DEF TypeInv
<1> QED BY <1>1, TypeInvInit, TypeInvStep, PTL DEF Spec

\* TypeInv holds in every state of a simulation, for the proofs below.
LEMMA TypeInvCorrect == Spec => []TypeInv
BY TypeInvInit, TypeInvStep, PTL DEF Spec

-----------------------------------------------------------------------------
(***************************************************************************)
(* No event is missed.                                                     *)
(***************************************************************************)
\* Of the jobs that end at the current tick, the heap has one at its head:
\* if some job is due, one of them is DueJob.
LEMMA SomeJobIsDue ==
  ASSUME TypeOK, \A i \in DOMAIN running : running[i].finishTick >= tick,
         NEW j \in DOMAIN running, running[j].finishTick = tick
  PROVE  \E i \in DOMAIN running : DueJob(i)
<1> DEFINE due == {i \in DOMAIN running : running[i].finishTick = tick}
           first == Min(due)
<1>1. DOMAIN running \subseteq Nat
  BY DEF TypeOK, JobIndexes
<1>2. first \in due /\ \A i \in due : first <= i
  <2>1. due \in SUBSET Nat /\ due # {}
    BY <1>1
  <2> HIDE DEF due
  <2> QED BY <2>1, MinProperty
<1> HIDE DEF first
<1>3. ASSUME NEW i \in DOMAIN running \ {first} PROVE FinishesBefore(first, i)
  <2>1. running[i].finishTick \in Int /\ tick \in Int
    BY MaxInt64Assumption DEF TypeOK, RunningOK, NonNegInt64, Ticks
  <2>2. CASE running[i].finishTick = tick
    <3>1. first <= i /\ first # i
      BY <1>2, <2>2
    <3>2. first \in Nat /\ i \in Nat
      BY <1>1, <1>2
    <3> QED BY <1>2, <2>2, <3>1, <3>2 DEF FinishesBefore
  <2>3. CASE running[i].finishTick # tick
    BY <1>2, <2>1, <2>3 DEF FinishesBefore
  <2> QED BY <2>2, <2>3
<1> QED BY <1>2, <1>3 DEF DueJob, IsHeapHead

\* The same for arrivals.
LEMMA SomeArrivalIsDue ==
  ASSUME TypeOK, ValidateTimedJobs(jobs),
         \A i \in future : jobs[i].arrivalTick >= tick,
         NEW j \in future, jobs[j].arrivalTick = tick
  PROVE  \E i \in future : DueArrival(i)
<1> DEFINE due == {i \in future : jobs[i].arrivalTick = tick}
           first == Min(due)
<1>1. future \subseteq JobIndexes /\ JobIndexes \subseteq Nat /\ jobs \in Seq(Job)
  BY DEF TypeOK, JobIndexes
<1>2. first \in due /\ \A i \in due : first <= i
  <2>1. due \in SUBSET Nat /\ due # {}
    BY <1>1
  <2> HIDE DEF due
  <2> QED BY <2>1, MinProperty
<1> HIDE DEF first
<1>3. ASSUME NEW i \in future \ {first} PROVE ArrivesBefore(first, i)
  <2>1. jobs[i].arrivalTick \in NonNegInt64
    BY <1>1, ValidJob
  <2>2. jobs[i].arrivalTick \in Int /\ tick \in Int
    <3>1. tick \in Ticks
      BY DEF TypeOK
    <3> QED BY <2>1, <3>1, MaxInt64Assumption DEF NonNegInt64, Ticks, NoTick
  <2>3. CASE jobs[i].arrivalTick = tick
    <3>1. first <= i /\ first # i
      BY <1>2, <2>3
    <3>2. first \in Nat /\ i \in Nat
      BY <1>1, <1>2
    <3> QED BY <1>2, <2>3, <3>1, <3>2 DEF ArrivesBefore
  <2>4. CASE jobs[i].arrivalTick # tick
    BY <1>2, <2>2, <2>4 DEF ArrivesBefore
  <2> QED BY <2>3, <2>4
<1> QED BY <1>2, <1>3 DEF DueArrival, IsNextArrival

\* A step that takes work away, or leaves it, misses no event if the simulator
\* only moves where no more is required of the tick.
LEMMA NoEventMissedKept ==
  ASSUME NoEventMissed, UNCHANGED <<tick, jobs>>,
         future' \subseteq future,
         DOMAIN running' \subseteq DOMAIN running,
         \A i \in DOMAIN running' : running'[i] = running[i],
         \/ pc' = pc
         \/ pc' \in {"start", "unschedule", "done", "failed"}
         \/ pc \in {"loop", "admit", "terminalize"} /\ pc' \in {"loop", "admit", "terminalize"}
  PROVE  NoEventMissed'
BY DEF NoEventMissed

LEMMA NoEventMissedStep ==
  TypeInv /\ TypeInv' /\ NoEventMissed /\ [Next]_vars => NoEventMissed'
<1> SUFFICES ASSUME TypeInv, NoEventMissed, [Next]_vars PROVE NoEventMissed'
  OBVIOUS
<1> USE DEF Goto
<1>1. TypeOK
  BY DEF TypeInv
<1>2. ASSUME NEW error, Fail(error) PROVE NoEventMissed'
  BY <1>2 DEF Fail, inputVars, queueVars, NoEventMissed
<1>3. CASE NewSimulationState
  <2>1. /\ pc' = "loop" /\ tick' = NoTick /\ DOMAIN running' = {}
        /\ future' = JobIndexes /\ jobs' = jobs /\ ValidateTimedJobs(jobs)
        /\ jobs \in Seq(Job)
    BY <1>3, <1>1 DEF NewSimulationState, InputError, NilContext, inputVars, TypeInv, NothingStarted, TypeOK
  <2>2. \A i \in JobIndexes : jobs[i].arrivalTick > NoTick
    <3> SUFFICES ASSUME NEW i \in JobIndexes PROVE jobs[i].arrivalTick > NoTick
      OBVIOUS
    <3>1. jobs[i].arrivalTick \in NonNegInt64
      BY <2>1, ValidJob
    <3> QED BY <3>1, MaxInt64Assumption DEF NonNegInt64, NoTick
  <2> QED BY <2>1, <2>2 DEF NoEventMissed
<1>4. CASE NextEventTick
  <2>1. /\ pc' = "complete" /\ UNCHANGED <<jobs, future, running>>
        /\ \A u \in EventTicks : tick' <= u
    BY <1>4 DEF NextEventTick, inputVars, queueVars
  <2>2. tick' \in Int /\ \A u \in EventTicks : u \in Int
    <3>1. ASSUME NEW i \in future PROVE jobs[i].arrivalTick \in Int
      BY <1>1, <1>4, ValidJob, MaxInt64Assumption
         DEF TypeInv, TypeOK, InputsValidated, NextEventTick, NonNegInt64
    <3>2. ASSUME NEW i \in DOMAIN running PROVE running[i].finishTick \in Int
      BY <1>1, MaxInt64Assumption DEF TypeOK, RunningOK, NonNegInt64
    <3>3. tick' \in EventTicks
      BY <1>4 DEF NextEventTick
    <3> QED BY <3>1, <3>2, <3>3 DEF EventTicks
  <2>3. \A i \in future : jobs[i].arrivalTick >= tick'
    BY <2>1, <2>2 DEF EventTicks
  <2>4. \A i \in DOMAIN running : running[i].finishTick >= tick'
    BY <2>1, <2>2 DEF EventTicks
  <2> QED BY <2>1, <2>3, <2>4 DEF NoEventMissed
<1>5. CASE CompleteJob
  <2>1. CASE \E error : Fail(error)
    BY <1>2, <2>1
  <2>2. PICK i \in DOMAIN running :
          /\ running' = Restrict(running, DOMAIN running \ {i})
          /\ Goto("complete")
          /\ UNCHANGED <<tick, nodes, queueVars>>
        \/ Fail(CompletionError(i))
    BY <1>5 DEF CompleteJob
  <2>3. pc = "complete"
    BY <1>5 DEF CompleteJob
  <2> QED BY <2>1, <2>2, <2>3, NoEventMissedKept DEF Restrict, inputVars, queueVars
<1>6. CASE CompletionsDone
  <2>1. /\ pc = "complete" /\ pc' = "arrive" /\ UNCHANGED <<jobs, tick, future, running>>
        /\ ~ \E i \in DOMAIN running : DueJob(i)
    BY <1>6 DEF CompletionsDone, inputVars, queueVars
  <2>2. /\ \A i \in DOMAIN running : running[i].finishTick >= tick
        /\ \A i \in future : jobs[i].arrivalTick >= tick
    BY <2>1 DEF NoEventMissed
  <2>3. \A i \in DOMAIN running : running[i].finishTick # tick
    BY <1>1, <2>1, <2>2, SomeJobIsDue
  <2>4. tick \in Int /\ \A i \in DOMAIN running : running[i].finishTick \in Int
    BY <1>1, MaxInt64Assumption DEF TypeOK, RunningOK, NonNegInt64, Ticks
  <2>5. \A i \in DOMAIN running : running[i].finishTick > tick
    BY <2>2, <2>3, <2>4
  <2> QED BY <2>1, <2>2, <2>5 DEF NoEventMissed
<1>7. CASE ArriveJob
  <2>1. /\ pc' = pc /\ UNCHANGED <<tick, jobs, running>> /\ future' \subseteq future
    BY <1>7 DEF ArriveJob, inputVars
  <2> QED BY <2>1, NoEventMissedKept
<1>8. CASE ArrivalsDone
  <2>1. /\ pc = "arrive" /\ pc' = "admit" /\ UNCHANGED <<jobs, tick, future, running>>
        /\ ~ \E i \in future : DueArrival(i)
    BY <1>8 DEF ArrivalsDone, inputVars, queueVars
  <2>2. /\ \A i \in DOMAIN running : running[i].finishTick > tick
        /\ \A i \in future : jobs[i].arrivalTick >= tick
    BY <2>1 DEF NoEventMissed
  <2>3. ValidateTimedJobs(jobs) /\ jobs \in Seq(Job) /\ future \subseteq JobIndexes
    BY <1>1, <2>1 DEF TypeInv, InputsValidated, TypeOK
  <2>4. \A i \in future : jobs[i].arrivalTick # tick
    BY <1>1, <2>1, <2>2, <2>3, SomeArrivalIsDue
  <2>5. tick \in Int /\ \A i \in future : jobs[i].arrivalTick \in Int
    <3>1. ASSUME NEW i \in future PROVE jobs[i].arrivalTick \in Int
      BY <2>3, ValidJob, MaxInt64Assumption DEF NonNegInt64
    <3>2. tick \in Ticks
      BY <1>1 DEF TypeOK
    <3> QED BY <3>1, <3>2, MaxInt64Assumption DEF NonNegInt64, Ticks
  <2>6. \A i \in future : jobs[i].arrivalTick > tick
    BY <2>2, <2>4, <2>5
  <2> QED BY <2>1, <2>2, <2>6 DEF NoEventMissed
<1>9. CASE TryAdmit
  <2> DEFINE i == Head(pending)
  <2>1. pc = "admit" /\ i \in JobIndexes /\ ValidateTimedJobs(jobs) /\ jobs \in Seq(Job)
    BY <1>1, <1>9 DEF TryAdmit, TypeOK, TypeInv, InputsValidated
  <2> HIDE DEF i
  <2>2. PICK placed \in Place(i) :
          \/ Fail(AdmissionError(i, placed))
          \/ /\ Retain(i)
             /\ UNCHANGED <<tick, nodeVars, future, blockingJob, running, resultVars>>
          \/ /\ Admit(i, placed)
             /\ Goto("admit")
             /\ UNCHANGED <<tick, nodes, future, retained, blockingJob>>
    BY <1>9 DEF TryAdmit, i
  <2>3. CASE /\ Retain(i)
             /\ UNCHANGED <<tick, nodeVars, future, blockingJob, running, resultVars>>
    <3>1. /\ UNCHANGED <<tick, jobs, future, running>>
          /\ pc' \in {"loop", "admit"}
      BY <2>3 DEF Retain, inputVars
    <3> QED BY <2>1, <3>1, NoEventMissedKept
  <2>4. CASE /\ Admit(i, placed)
             /\ Goto("admit")
             /\ UNCHANGED <<tick, nodes, future, retained, blockingJob>>
    <3>1. /\ \A j \in DOMAIN running : running[j].finishTick > tick
          /\ \A j \in future : jobs[j].arrivalTick > tick
      BY <2>1 DEF NoEventMissed
    <3>2. tick + jobs[i].durationTicks > tick
      <4>1. jobs[i].durationTicks \in PosInt64
        BY <2>1, ValidJob
      <4>2. tick \in Ticks
        BY <1>1 DEF TypeOK
      <4> QED BY <4>1, <4>2, MaxInt64Assumption DEF PosInt64, Ticks, NonNegInt64, NoTick
    <3>3. running' = [j \in DOMAIN running \cup {i} |->
                       IF j = i THEN [finishTick |-> tick + jobs[i].durationTicks,
                                      allocation |-> placed.allocation]
                       ELSE running[j]]
      BY <2>4 DEF Admit
    <3>4. \A j \in DOMAIN running' : running'[j].finishTick > tick
      BY <3>1, <3>2, <3>3
    <3>5. pc' = "admit" /\ UNCHANGED <<jobs, tick, future>>
      BY <2>4 DEF inputVars
    <3> QED BY <3>1, <3>4, <3>5 DEF NoEventMissed
  <2> QED BY <1>2, <2>2, <2>3, <2>4
<1>10. CASE AdmissionDone \/ LeaveLoop \/ TerminalizePending
  <2>1. CASE \E error : Fail(error)
    BY <1>2, <2>1
  <2>2. CASE AdmissionDone
    BY <2>2, NoEventMissedKept DEF AdmissionDone, inputVars
  <2>3. CASE LeaveLoop
    BY <2>3, NoEventMissedKept DEF LeaveLoop, inputVars, queueVars
  <2>4. CASE TerminalizePending
    BY <2>1, <2>4, NoEventMissedKept DEF TerminalizePending, inputVars, queueVars
  <2> QED BY <1>10, <2>2, <2>3, <2>4
<1>11. CASE UnscheduleUnplaceable \/ UnscheduleBlocked \/ Finish
  <2>1. CASE \E error : Fail(error)
    BY <1>2, <2>1
  <2>2. CASE \E i, reason : MarkUnscheduled(i, reason)
    <3>1. pc' = "unschedule"
      BY <2>2 DEF MarkUnscheduled
    <3> QED BY <3>1 DEF NoEventMissed
  <2>3. CASE UnscheduleUnplaceable
    BY <2>1, <2>2, <2>3 DEF UnscheduleUnplaceable
  <2>4. CASE UnscheduleBlocked
    BY <2>2, <2>4 DEF UnscheduleBlocked
  <2>5. CASE Finish
    BY <2>1, <2>5 DEF Finish, NoEventMissed
  <2> QED BY <1>11, <2>3, <2>4, <2>5
<1>12. CASE RejectInput \/ Canceled
  BY <1>2, <1>12 DEF RejectInput, Canceled
<1>13. CASE Cancel
  BY <1>13, NoEventMissedKept DEF Cancel, inputVars, queueVars
<1>14. CASE UNCHANGED vars
  BY <1>14, NoEventMissedKept DEF vars, inputVars, queueVars
<1> QED BY <1>3, <1>4, <1>5, <1>6, <1>7, <1>8, <1>9, <1>10, <1>11, <1>12, <1>13, <1>14
        DEF Next, Step, Terminated

(***************************************************************************)
(* The event loop never jumps over an event, in any simulation.            *)
(***************************************************************************)
THEOREM NoEventIsMissed == Spec => []NoEventMissed
<1>1. Init => NoEventMissed
  BY DEF Init, NoEventMissed
<1> QED BY <1>1, TypeInvCorrect, NoEventMissedStep, PTL DEF Spec

-----------------------------------------------------------------------------
(***************************************************************************)
(* No job is lost, and none is in two places.                              *)
(***************************************************************************)
\* The queue as a set of jobs.
Queued == Range(Queue)

\* Putting the head of one part of the queue at the end of the other leaves
\* the queue as it is.
LEMMA RetainKeepsQueue ==
  ASSUME NEW S, NEW r \in Seq(S), NEW p \in Seq(S), p # <<>>
  PROVE  Append(r, Head(p)) \o Tail(p) = r \o p
<1>1. /\ Append(r, Head(p)) \in Seq(S) /\ Tail(p) \in Seq(S) /\ Len(r) \in Nat
      /\ Len(p) \in Nat /\ Len(p) # 0
  OBVIOUS
<1> DEFINE s == Append(r, Head(p)) \o Tail(p)
           t == r \o p
<1>2. s \in Seq(S) /\ t \in Seq(S) /\ Len(s) = Len(t)
  BY <1>1
<1>3. ASSUME NEW k \in 1 .. Len(s) PROVE s[k] = t[k]
  BY <1>1, <1>2
<1> HIDE DEF s, t
<1>4. s = t
  BY <1>2, <1>3, SeqEqual
<1> QED BY <1>4 DEF s, t

\* Without its head, the second part loses exactly that job.
LEMMA TailRemovesHead ==
  ASSUME NEW S, NEW r \in Seq(S), NEW p \in Seq(S), p # <<>>,
         IsInjective(r \o p)
  PROVE  /\ IsInjective(r \o Tail(p))
         /\ Range(r \o Tail(p)) = Range(r \o p) \ {Head(p)}
         /\ Head(p) \in Range(r \o p)
<1> DEFINE s == r \o p
           t == r \o Tail(p)
           at == Len(r) + 1
           From(k) == IF k < at THEN k ELSE k + 1
<1>1. /\ Len(r) \in Nat /\ Len(p) \in Nat /\ Len(p) >= 1 /\ Tail(p) \in Seq(S)
      /\ Len(Tail(p)) = Len(p) - 1
  OBVIOUS
<1>2. /\ DOMAIN s = 1 .. (Len(r) + Len(p)) /\ DOMAIN t = 1 .. (Len(r) + Len(p) - 1)
  BY <1>1
<1>3. \A k \in DOMAIN t : From(k) \in DOMAIN s /\ From(k) # at /\ t[k] = s[From(k)]
  BY <1>1, <1>2
<1>4. at \in DOMAIN s /\ s[at] = Head(p)
  BY <1>1, <1>2
<1>5. \A k \in DOMAIN s : k # at => \E l \in DOMAIN t : From(l) = k
  <2> SUFFICES ASSUME NEW k \in DOMAIN s, k # at PROVE \E l \in DOMAIN t : From(l) = k
    OBVIOUS
  <2>1. CASE k < at
    BY <1>1, <1>2, <2>1
  <2>2. CASE k > at
    <3>1. k - 1 \in DOMAIN t /\ From(k - 1) = k
      BY <1>1, <1>2, <2>2
    <3> QED BY <3>1
  <2> QED BY <1>1, <1>2, <2>1, <2>2
<1>6. \A k, l \in DOMAIN t : From(k) = From(l) => k = l
  BY <1>1, <1>2
<1>7. \A k, l \in DOMAIN s : s[k] = s[l] => k = l
  BY DEF IsInjective
<1> HIDE DEF s, t, From, at
<1>8. \A k, l \in DOMAIN t : t[k] = t[l] => k = l
  BY <1>3, <1>6, <1>7
<1>9. {t[k] : k \in DOMAIN t} = {s[k] : k \in DOMAIN s} \ {Head(p)}
  <2>1. ASSUME NEW k \in DOMAIN t
        PROVE  t[k] \in {s[l] : l \in DOMAIN s} \ {Head(p)}
    BY <1>3, <1>4, <1>7
  <2>2. ASSUME NEW k \in DOMAIN s, s[k] # Head(p)
        PROVE  s[k] \in {t[l] : l \in DOMAIN t}
    BY <1>3, <1>4, <1>5, <2>2
  <2> QED BY <2>1, <2>2
<1> QED BY <1>4, <1>8, <1>9 DEF s, t, IsInjective, Range

\* A job that is not in the queue joins it at the end.
LEMMA AppendAddsLast ==
  ASSUME NEW S, NEW r \in Seq(S), NEW p \in Seq(S), NEW i \in S,
         IsInjective(r \o p), i \notin Range(r \o p)
  PROVE  /\ IsInjective(r \o Append(p, i))
         /\ Range(r \o Append(p, i)) = Range(r \o p) \cup {i}
<1> DEFINE s == r \o p
           t == r \o Append(p, i)
           last == Len(r) + Len(p) + 1
<1>1. /\ Len(r) \in Nat /\ Len(p) \in Nat /\ Append(p, i) \in Seq(S)
      /\ Len(Append(p, i)) = Len(p) + 1
  OBVIOUS
<1>2. /\ DOMAIN s = 1 .. (Len(r) + Len(p)) /\ DOMAIN t = 1 .. last
  BY <1>1
<1>3. \A k \in DOMAIN s : k \in DOMAIN t /\ t[k] = s[k]
  BY <1>1, <1>2
<1>4. last \in DOMAIN t /\ t[last] = i
  BY <1>1, <1>2
<1>5. \A k \in DOMAIN t : k = last \/ k \in DOMAIN s
  BY <1>1, <1>2
<1>6. i \notin {s[k] : k \in DOMAIN s} /\ \A k, l \in DOMAIN s : s[k] = s[l] => k = l
  BY DEF IsInjective, Range
<1> HIDE DEF s, t, last
<1>7. \A k, l \in DOMAIN t : t[k] = t[l] => k = l
  BY <1>3, <1>4, <1>5, <1>6
<1>8. {t[k] : k \in DOMAIN t} = {s[k] : k \in DOMAIN s} \cup {i}
  BY <1>3, <1>4, <1>5
<1> QED BY <1>7, <1>8 DEF s, t, IsInjective, Range

\* Where a job is, location by location; and that it is in one place.
IsAt(i, f, q, r, c, u) ==
  /\ i \in future <=> f
  /\ i \in Queued <=> q
  /\ i \in DOMAIN running <=> r
  /\ lifecycle[i].status = LifecycleCompleted <=> c
  /\ lifecycle[i].status = LifecycleUnscheduled <=> u

InOnePlace(i) ==
  \/ IsAt(i, TRUE, FALSE, FALSE, FALSE, FALSE)
  \/ IsAt(i, FALSE, TRUE, FALSE, FALSE, FALSE)
  \/ IsAt(i, FALSE, FALSE, TRUE, FALSE, FALSE)
  \/ IsAt(i, FALSE, FALSE, FALSE, TRUE, FALSE)
  \/ IsAt(i, FALSE, FALSE, FALSE, FALSE, TRUE)

Partition == IsInjective(Queue) /\ \A i \in DOMAIN lifecycle : InOnePlace(i)

LEMMA PartitionMeaning == JobsPartitioned <=> Partition
<1>1. ASSUME NEW i
      PROVE  (\E here \in Locations :
                \A location \in Locations : InLocation(i, location) <=> location = here)
             <=> InOnePlace(i)
  <2>1. /\ InLocation(i, "future") <=> i \in future
        /\ InLocation(i, "queued") <=> i \in Queued
        /\ InLocation(i, "running") <=> i \in DOMAIN running
        /\ InLocation(i, "completed") <=> lifecycle[i].status = LifecycleCompleted
        /\ InLocation(i, "unscheduled") <=> lifecycle[i].status = LifecycleUnscheduled
    BY DEF InLocation, Queued, Range
  <2> QED BY <2>1 DEF InOnePlace, IsAt, Locations
<1> QED BY <1>1 DEF JobsPartitioned, Partition, IsInjective

\* A step that moves nothing.
LEMMA PartitionKept ==
  ASSUME Partition,
         UNCHANGED <<future, Queue, DOMAIN running, DOMAIN lifecycle>>,
         \A i \in DOMAIN lifecycle : lifecycle'[i].status = lifecycle[i].status
  PROVE  Partition'
BY DEF Partition, InOnePlace, IsAt, Queued

\* A step that moves one job from one location to another.
LEMMA JobMoved ==
  ASSUME Partition, DOMAIN lifecycle' = DOMAIN lifecycle, IsInjective(Queue'),
         NEW i \in DOMAIN lifecycle,
         \A j \in DOMAIN lifecycle \ {i} :
           /\ j \in future' <=> j \in future
           /\ j \in Queued' <=> j \in Queued
           /\ j \in DOMAIN running' <=> j \in DOMAIN running
           /\ lifecycle'[j].status = lifecycle[j].status,
         InOnePlace(i)'
  PROVE  Partition'
<1>1. \A j \in DOMAIN lifecycle \ {i} : InOnePlace(j)'
  BY DEF Partition, InOnePlace, IsAt
<1> QED BY <1>1 DEF Partition

\* The head of the queue is queued and nowhere else, and taking it out moves
\* nothing but it.
LEMMA HeadLeavesQueue ==
  ASSUME Partition, TypeOK, DOMAIN lifecycle = JobIndexes, pending # <<>>,
         retained' = retained, pending' = Tail(pending)
  PROVE  /\ IsAt(Head(pending), FALSE, TRUE, FALSE, FALSE, FALSE)
         /\ IsInjective(Queue')
         /\ Queued' = Queued \ {Head(pending)}
<1>1. pending \in Seq(JobIndexes) /\ retained \in Seq(JobIndexes)
  BY DEF TypeOK
<1>2. /\ IsInjective(retained \o Tail(pending))
      /\ Range(retained \o Tail(pending)) = Range(retained \o pending) \ {Head(pending)}
      /\ Head(pending) \in Range(retained \o pending)
  <2>1. IsInjective(retained \o pending)
    BY DEF Partition, Queue
  <2> QED BY <1>1, <2>1, TailRemovesHead
<1>3. Queue' = retained \o Tail(pending)
  BY DEF Queue
<1>4. IsInjective(Queue') /\ Queued' = Queued \ {Head(pending)} /\ Head(pending) \in Queued
  BY <1>2, <1>3 DEF Queued, Queue
<1>5. InOnePlace(Head(pending))
  BY <1>1 DEF Partition
<1> QED BY <1>4, <1>5 DEF InOnePlace, IsAt

\* The head of the queue does not run.
LEMMA QueuedJobDoesNotRun ==
  ASSUME Partition, DOMAIN lifecycle = JobIndexes, retained \in Seq(JobIndexes),
         pending \in Seq(JobIndexes), pending # <<>>
  PROVE  Head(pending) \notin DOMAIN running
<1>1. Head(pending) \in Range(retained \o pending)
  <2>1. IsInjective(retained \o pending)
    BY DEF Partition, Queue
  <2> QED BY <2>1, TailRemovesHead
<1>2. Head(pending) \in JobIndexes
  OBVIOUS
<1> QED BY <1>1, <1>2 DEF Partition, InOnePlace, IsAt, Queued, Queue

LEMMA PartitionStep ==
  TypeInv /\ TypeInv' /\ Partition /\ [Next]_vars => Partition'
<1> SUFFICES ASSUME TypeInv, TypeInv', Partition, [Next]_vars PROVE Partition'
  OBVIOUS
<1> USE DEF Goto
<1>1. TypeOK
  BY DEF TypeInv
<1>2. ASSUME NEW error, Fail(error) PROVE Partition'
  BY <1>2, PartitionKept DEF Fail, queueVars, resultVars, Queue
<1>3. CASE NewSimulationState
  <2>1. /\ future' = JobIndexes /\ DOMAIN lifecycle' = JobIndexes
        /\ pending' = <<>> /\ retained' = <<>> /\ DOMAIN running' = {}
        /\ \A i \in JobIndexes : lifecycle'[i].status = StatusNone
    BY <1>3 DEF NewSimulationState, TypeInv, NothingStarted
  <2>2. Queue' = <<>>
    BY <2>1 DEF Queue
  <2>3. Queued' = {} /\ IsInjective(Queue')
    BY <2>2 DEF Queued, IsInjective, Range
  <2>4. StatusNone # LifecycleCompleted /\ StatusNone # LifecycleUnscheduled
    BY DEF StatusNone, LifecycleCompleted, LifecycleUnscheduled
  <2> QED BY <2>1, <2>3, <2>4 DEF Partition, InOnePlace, IsAt
<1>4. CASE \/ NextEventTick \/ LeaveLoop \/ CompletionsDone \/ ArrivalsDone
            \/ Cancel \/ UNCHANGED vars
  <2>1. UNCHANGED <<queueVars, running, resultVars>>
    BY <1>4 DEF NextEventTick, LeaveLoop, CompletionsDone, ArrivalsDone, Cancel, vars
  <2> QED BY <2>1, PartitionKept DEF queueVars, resultVars, Queue
<1>5. CASE pc = "start" /\ ~ NewSimulationState /\ Step
  BY <1>2, <1>5 DEF Step, RejectInput, NextEventTick, LeaveLoop, CompleteJob,
     CompletionsDone, ArriveJob, ArrivalsDone, TryAdmit, AdmissionDone,
     TerminalizePending, UnscheduleUnplaceable, UnscheduleBlocked, Finish, Canceled
<1>6. CASE pc \notin {"start", "failed"}
  <2>1. /\ DOMAIN lifecycle = JobIndexes
        /\ \A i \in JobIndexes : InOnePlace(i)
        /\ IsInjective(Queue)
        /\ pending \in Seq(JobIndexes) /\ retained \in Seq(JobIndexes)
    BY <1>1, <1>6 DEF TypeInv, InputsValidated, TypeOK, Partition
  <2>2. CASE CompleteJob
    <3>1. CASE \E error : Fail(error)
      BY <1>2, <3>1
    <3>2. CASE ~ \E error : Fail(error)
      <4>1. PICK i \in DOMAIN running :
              /\ running' = Restrict(running, DOMAIN running \ {i})
              /\ lifecycle' = [lifecycle EXCEPT ![i] = CompletedLifecycle(@)]
              /\ UNCHANGED queueVars
        BY <2>2, <3>2 DEF CompleteJob
      <4>2. i \in JobIndexes
        BY <1>1 DEF TypeOK
      <4>3. /\ UNCHANGED <<future, Queue>>
            /\ DOMAIN running' = DOMAIN running \ {i}
            /\ DOMAIN lifecycle' = DOMAIN lifecycle
            /\ \A j \in DOMAIN lifecycle \ {i} : lifecycle'[j] = lifecycle[j]
            /\ lifecycle'[i].status = LifecycleCompleted
        BY <2>1, <4>1, <4>2 DEF Restrict, queueVars, Queue, CompletedLifecycle
      <4>4. InOnePlace(i)'
        BY <2>1, <4>1, <4>2, <4>3
           DEF InOnePlace, IsAt, Queued, LifecycleCompleted, LifecycleUnscheduled
      <4> QED BY <2>1, <4>2, <4>3, <4>4, JobMoved DEF Queued
    <3> QED BY <3>1, <3>2
  <2>3. CASE ArriveJob
    <3>1. PICK i \in future : pending' = Append(pending, i) /\ future' = future \ {i}
      BY <2>3 DEF ArriveJob
    <3>2. i \in JobIndexes /\ UNCHANGED <<retained, running, lifecycle>>
      BY <1>1, <2>3 DEF ArriveJob, TypeOK
    <3>3. IsAt(i, TRUE, FALSE, FALSE, FALSE, FALSE)
      BY <2>1, <3>1, <3>2 DEF InOnePlace, IsAt
    <3>4. IsInjective(Queue') /\ Queued' = Queued \cup {i}
      <4>1. IsInjective(retained \o pending) /\ i \notin Range(retained \o pending)
        BY <2>1, <3>3 DEF IsAt, Queued, Queue
      <4>2. /\ IsInjective(retained \o Append(pending, i))
            /\ Range(retained \o Append(pending, i)) = Range(retained \o pending) \cup {i}
        BY <2>1, <3>2, <4>1, AppendAddsLast
      <4>3. Queue' = retained \o Append(pending, i)
        BY <3>1, <3>2 DEF Queue
      <4> QED BY <4>2, <4>3 DEF Queued, Queue
    <3>5. InOnePlace(i)'
      BY <3>1, <3>2, <3>3, <3>4 DEF InOnePlace, IsAt
    <3> QED BY <2>1, <3>1, <3>2, <3>4, <3>5, JobMoved
  <2>4. CASE TryAdmit
    <3>0. pending # <<>>
      BY <2>4 DEF TryAdmit
    <3>1. PICK i \in JobIndexes : i = Head(pending)
      BY <2>1, <3>0
    <3>2. PICK placed \in Place(i) :
            \/ Fail(AdmissionError(i, placed))
            \/ Retain(i) /\ UNCHANGED <<future, running, resultVars>>
            \/ /\ Admit(i, placed)
               /\ pending' = Tail(pending)
               /\ UNCHANGED <<future, retained>>
      BY <2>4, <3>1 DEF TryAdmit
    <3>3. CASE Retain(i) /\ UNCHANGED <<future, running, resultVars>>
      <4>1. Append(retained, Head(pending)) \o Tail(pending) = retained \o pending
        BY <2>1, <3>0, RetainKeepsQueue
      <4>2. Queue' = Queue
        BY <3>1, <3>3, <4>1 DEF Retain, Queue
      <4> QED BY <3>3, <4>2, PartitionKept DEF resultVars
    <3>4. CASE /\ Admit(i, placed)
               /\ pending' = Tail(pending)
               /\ UNCHANGED <<future, retained>>
      <4>1. /\ IsAt(i, FALSE, TRUE, FALSE, FALSE, FALSE)
            /\ IsInjective(Queue')
            /\ Queued' = Queued \ {i}
        BY <1>1, <2>1, <3>0, <3>1, <3>4, HeadLeavesQueue
      <4>2. /\ DOMAIN running' = DOMAIN running \cup {i}
            /\ DOMAIN lifecycle' = DOMAIN lifecycle
            /\ \A j \in DOMAIN lifecycle \ {i} : lifecycle'[j] = lifecycle[j]
            /\ lifecycle'[i].status = lifecycle[i].status
        BY <2>1, <3>1, <3>4 DEF Admit, StartedLifecycle
      <4>3. InOnePlace(i)'
        BY <3>4, <4>1, <4>2 DEF InOnePlace, IsAt
      <4> QED BY <2>1, <3>1, <3>4, <4>1, <4>2, <4>3, JobMoved
    <3> QED BY <1>2, <3>2, <3>3, <3>4
  <2>5. CASE AdmissionDone
    <3>1. /\ pending = <<>> /\ pending' = retained /\ retained' = <<>>
          /\ UNCHANGED <<future, running, resultVars>>
      BY <2>5 DEF AdmissionDone
    <3>2. <<>> \o retained = retained \o <<>>
      BY <2>1
    <3>3. Queue' = Queue
      BY <3>1, <3>2 DEF Queue
    <3> QED BY <3>1, <3>3, PartitionKept DEF resultVars
  <2>6. ASSUME NEW reason, pending # <<>>, MarkUnscheduled(Head(pending), reason)
        PROVE  Partition'
    <3>0. PICK i \in JobIndexes : i = Head(pending)
      BY <2>1, <2>6
    <3>1. /\ IsAt(i, FALSE, TRUE, FALSE, FALSE, FALSE)
          /\ IsInjective(Queue')
          /\ Queued' = Queued \ {i}
      <4>1. pending' = Tail(pending) /\ retained' = retained
        BY <2>6 DEF MarkUnscheduled
      <4> QED BY <1>1, <2>1, <2>6, <3>0, <4>1, HeadLeavesQueue
    <3>2. /\ UNCHANGED <<future, running>>
          /\ lifecycle' = [lifecycle EXCEPT ![i].status = LifecycleUnscheduled,
                                            ![i].reason = reason]
      BY <2>6, <3>0 DEF MarkUnscheduled
    <3>3. /\ DOMAIN lifecycle' = DOMAIN lifecycle
          /\ \A j \in DOMAIN lifecycle \ {i} : lifecycle'[j] = lifecycle[j]
          /\ lifecycle'[i].status = LifecycleUnscheduled
      BY <2>1, <3>1, <3>2
    <3>4. InOnePlace(i)'
      BY <3>1, <3>2, <3>3 DEF InOnePlace, IsAt, LifecycleCompleted, LifecycleUnscheduled
    <3> QED BY <2>1, <3>1, <3>2, <3>3, <3>4, JobMoved
  <2>7. CASE UnscheduleUnplaceable \/ UnscheduleBlocked
    BY <1>2, <2>6, <2>7 DEF UnscheduleUnplaceable, UnscheduleBlocked
  <2>8. CASE TerminalizePending \/ Finish
    <3>1. CASE \E error : Fail(error)
      BY <1>2, <3>1
    <3>2. CASE UNCHANGED <<queueVars, running, lifecycle>>
      BY <3>2, PartitionKept DEF queueVars, Queue
    <3> QED BY <2>8, <3>1, <3>2 DEF TerminalizePending, Finish, resultVars
  <2>9. CASE RejectInput \/ Canceled
    BY <1>2, <2>9 DEF RejectInput, Canceled
  <2> QED BY <1>3, <1>4, <2>2, <2>3, <2>4, <2>5, <2>7, <2>8, <2>9
          DEF Next, Step, Terminated
<1>7. CASE pc = "failed" /\ Step
  BY <1>7 DEF Step, RejectInput, NewSimulationState, NextEventTick, LeaveLoop,
     CompleteJob, CompletionsDone, ArriveJob, ArrivalsDone, TryAdmit, AdmissionDone,
     TerminalizePending, UnscheduleUnplaceable, UnscheduleBlocked, Finish, Canceled,
     ContextChecked, Steps
<1> QED BY <1>3, <1>4, <1>5, <1>6, <1>7 DEF Next, Terminated

\* Partition holds in every state of a simulation.
LEMMA PartitionCorrect == Spec => []Partition
<1>1. Init => Partition
  <2> SUFFICES ASSUME Init PROVE Partition
    OBVIOUS
  <2>1. retained = <<>> /\ pending = <<>> /\ DOMAIN lifecycle = {}
    BY DEF Init
  <2>2. Queue = <<>>
    BY <2>1 DEF Queue
  <2> QED BY <2>1, <2>2 DEF Partition, IsInjective
<1> QED BY <1>1, TypeInvCorrect, PartitionStep, PTL DEF Spec

(***************************************************************************)
(* No job is lost and none runs twice: in every state of every simulation, *)
(* each job has not arrived, waits in the queue, runs, has completed or is *)
(* unscheduled, and is in only one of these places.                        *)
(***************************************************************************)
THEOREM NoJobIsLost == Spec => []JobsPartitioned
BY PartitionCorrect, PartitionMeaning, PTL

-----------------------------------------------------------------------------
(***************************************************************************)
(* Resources are conserved.                                                *)
(***************************************************************************)
\* What a running job holds is a natural number.
LEMMA HeldType ==
  ASSUME TypeInv, pc \notin {"start", "failed"},
         NEW i \in JobIndexes, NEW n, NEW d \in Dim
  PROVE  Held(i, n, d) \in Nat
<1>1. CASE i \in DOMAIN running /\ n \in DOMAIN running[i].allocation
  <2>1. jobs[i].resourcesPerReplica \in [Dim -> Nat]
    BY ValidJob DEF TypeInv, TypeOK, InputsValidated
  <2>2. running[i].allocation[n] \in Nat
    BY <1>1, MaxInt64Assumption DEF TypeInv, TypeOK, RunningOK, IsAllocation, PosInt64
  <2> DEFINE request == jobs[i].resourcesPerReplica[d]
             replicas == running[i].allocation[n]
  <2>3. Held(i, n, d) = request * replicas
    BY <1>1 DEF Held, ResourcesForReplicas
  <2>4. request \in Nat /\ replicas \in Nat
    BY <2>1, <2>2
  <2> HIDE DEF request, replicas
  <2> QED BY <2>3, <2>4, TimesMonotone
<1>2. CASE ~ (i \in DOMAIN running /\ n \in DOMAIN running[i].allocation)
  BY <1>2 DEF Held
<1> QED BY <1>1, <1>2

\* When what one job holds changes, the total changes by as much.
LEMMA TotalHeldChange ==
  ASSUME TypeInv, pc \notin {"start", "failed"}, jobs' = jobs,
         NEW n, NEW d \in Dim, NEW i \in JobIndexes, NEW amount \in Int,
         \A j \in JobIndexes : Held(j, n, d)' = IF j = i THEN amount ELSE Held(j, n, d)
  PROVE  /\ TotalHeld(n, d)' = TotalHeld(n, d) - Held(i, n, d) + amount
         /\ TotalHeld(n, d) \in Int
<1> DEFINE before == [j \in JobIndexes |-> Held(j, n, d)]
           after == [j \in JobIndexes |-> IF j = i THEN amount ELSE Held(j, n, d)]
<1>1. IsFiniteSet(JobIndexes)
  <2>1. JobIndexes = 1 .. Len(jobs) /\ Len(jobs) \in Nat
    BY DEF JobIndexes, TypeInv, TypeOK
  <2> QED BY <2>1, FS_Interval
<1>2. \A j \in JobIndexes : Held(j, n, d) \in Int
  BY HeldType
<1>3. /\ \A j \in JobIndexes : before[j] \in Int /\ after[j] \in Int
      /\ \A j \in JobIndexes \ {i} : after[j] = before[j]
      /\ before[i] = Held(i, n, d) /\ after[i] = amount
  BY <1>2
<1>4. /\ TotalHeld(n, d) = SumFunctionOnSet(before, JobIndexes)
      /\ TotalHeld(n, d)' = SumFunctionOnSet(after, JobIndexes)
  BY DEF TotalHeld, JobIndexes
<1> HIDE DEF before, after
<1>5. SumFunctionOnSet(after, JobIndexes)
        = SumFunctionOnSet(before, JobIndexes) - before[i] + after[i]
  BY <1>1, <1>3, SumUpdate
<1>6. SumFunctionOnSet(before, JobIndexes) \in Int
  BY <1>1, <1>3, SumInt
<1> QED BY <1>3, <1>4, <1>5, <1>6

\* A step that neither charges nor credits a node.
LEMMA ConservationKept ==
  ASSUME ResourceConservation, UNCHANGED <<jobs, nodes, remaining, running>>
  PROVE  ResourceConservation'
BY DEF ResourceConservation, TotalHeld, Held, NodeNames, JobIndexes

\* The idle cluster: nothing is held and every node has its capacity.
LEMMA ConservationStarts ==
  ASSUME TypeInv, TypeInv', NewSimulationState
  PROVE  ResourceConservation'
<1> SUFFICES ASSUME NEW n \in NodeNames', NEW d \in Dim
             PROVE  (remaining[n][d] + TotalHeld(n, d) = nodes[n].capacity[d])'
  BY DEF ResourceConservation
<1>1. /\ remaining' = [m \in DOMAIN nodes' |-> nodes'[m].capacity]
      /\ DOMAIN running' = {} /\ jobs' = jobs
  BY DEF NewSimulationState, IdleResources, TypeInv, NothingStarted, Goto, inputVars
<1>2. remaining'[n] = nodes'[n].capacity /\ nodes'[n].capacity[d] \in Int
  BY <1>1, MaxInt64Assumption DEF NodeNames, TypeInv, TypeOK, NodeInfo, NonNegInt64
<1>3. TotalHeld(n, d)' = 0
  <2> DEFINE held == [i \in JobIndexes |-> 0]
  <2>1. TotalHeld(n, d)' = SumFunctionOnSet(held, JobIndexes)
    BY <1>1 DEF TotalHeld, Held, JobIndexes
  <2>2. JobIndexes = 1 .. Len(jobs) /\ Len(jobs) \in Nat
    BY DEF JobIndexes, TypeInv, TypeOK
  <2>3. IsFiniteSet(JobIndexes)
    BY <2>2, FS_Interval
  <2>4. \A i \in JobIndexes : held[i] = 0
    OBVIOUS
  <2> HIDE DEF held
  <2> QED BY <2>1, <2>3, <2>4, SumZero
<1> QED BY <1>2, <1>3

\* A completion: what the job held goes back to the nodes.
LEMMA CompleteJobConserves ==
  ASSUME TypeInv, ResourceConservation, CompleteJob, ~ \E error : Fail(error)
  PROVE  ResourceConservation'
<1>1. PICK i \in DOMAIN running :
        /\ running' = Restrict(running, DOMAIN running \ {i})
        /\ remaining' = Released(remaining, jobs[i], running[i].allocation)
        /\ jobs' = jobs /\ nodes' = nodes
  BY DEF CompleteJob, Goto, inputVars
<1>2. i \in JobIndexes /\ pc = "complete" /\ NodeNames' = NodeNames
  BY <1>1 DEF TypeInv, TypeOK, CompleteJob, NodeNames
<1> SUFFICES ASSUME NEW n \in NodeNames, NEW d \in Dim
             PROVE  (remaining[n][d] + TotalHeld(n, d) = nodes[n].capacity[d])'
  BY <1>2 DEF ResourceConservation
<1>3. \A j \in JobIndexes : Held(j, n, d)' = IF j = i THEN 0 ELSE Held(j, n, d)
  BY <1>1 DEF Held, Restrict
<1>4. /\ TotalHeld(n, d)' = TotalHeld(n, d) - Held(i, n, d)
      /\ TotalHeld(n, d) \in Int /\ Held(i, n, d) \in Int
  <2>1. Held(i, n, d) \in Int
    BY <1>2, HeldType
  <2> QED BY <1>1, <1>2, <1>3, <2>1, TotalHeldChange
<1>5. n \in DOMAIN remaining /\ remaining[n][d] \in Int
  BY MaxInt64Assumption DEF TypeInv, TypeOK, NonNegInt64
<1>6. remaining'[n][d] = remaining[n][d] + Held(i, n, d)
  BY <1>1, <1>5 DEF Released, Held
<1>7. remaining[n][d] + TotalHeld(n, d) = nodes[n].capacity[d]
  BY DEF ResourceConservation
<1> QED BY <1>1, <1>4, <1>5, <1>6, <1>7

\* An admission: what the nodes are charged is what the job holds.
LEMMA AdmitConserves ==
  ASSUME TypeInv, ResourceConservation, pc = "admit",
         NEW i \in JobIndexes, i \notin DOMAIN running,
         NEW placed \in Place(i), placed.kind = "placed", Admit(i, placed),
         jobs' = jobs, nodes' = nodes
  PROVE  ResourceConservation'
<1> DEFINE alloc == placed.allocation
<1>1. \A n \in DOMAIN alloc, d \in Dim :
        ResourcesForReplicas(jobs[i].resourcesPerReplica, alloc[n])[d] \in Int
  <2>1. PlacementInput(nodes, remaining, jobs[i])
    BY PlacementCalled
  <2>2. \A n \in DOMAIN alloc, d \in Dim :
          /\ n \in NodeNames
          /\ ResourcesForReplicas(jobs[i].resourcesPerReplica, alloc[n])[d]
               \in 0 .. remaining[n][d]
    BY <2>1, PlacedAllocation DEF Place, NodeNames
  <2> QED BY <2>2
<1> SUFFICES ASSUME NEW n \in NodeNames, NEW d \in Dim
             PROVE  (remaining[n][d] + TotalHeld(n, d) = nodes[n].capacity[d])'
  BY DEF ResourceConservation, NodeNames
<1> DEFINE amount == IF n \in DOMAIN alloc
                     THEN ResourcesForReplicas(jobs[i].resourcesPerReplica, alloc[n])[d]
                     ELSE 0
<1>2. amount \in Int
  BY <1>1
<1>3. /\ remaining' = Consumed(remaining, jobs[i], alloc)
      /\ running' = [j \in DOMAIN running \cup {i} |->
                       IF j = i THEN [finishTick |-> tick + jobs[i].durationTicks,
                                      allocation |-> alloc]
                       ELSE running[j]]
  BY DEF Admit
<1>4. \A j \in JobIndexes : Held(j, n, d)' = IF j = i THEN amount ELSE Held(j, n, d)
  BY <1>3 DEF Held
<1>5. n \in DOMAIN remaining /\ remaining[n][d] \in Int
  BY MaxInt64Assumption DEF TypeInv, TypeOK, NonNegInt64
<1>6. remaining'[n][d] = remaining[n][d] - amount
  BY <1>3, <1>5 DEF Consumed
<1> HIDE DEF amount
<1>7. /\ TotalHeld(n, d)' = TotalHeld(n, d) - Held(i, n, d) + amount
      /\ TotalHeld(n, d) \in Int
  BY <1>2, <1>4, TotalHeldChange
<1>8. Held(i, n, d) = 0
  BY DEF Held
<1>9. remaining[n][d] + TotalHeld(n, d) = nodes[n].capacity[d]
  BY DEF ResourceConservation
<1> QED BY <1>2, <1>5, <1>6, <1>7, <1>8, <1>9

LEMMA ConservationStep ==
  TypeInv /\ TypeInv' /\ Partition /\ ResourceConservation /\ [Next]_vars
    => ResourceConservation'
<1> SUFFICES ASSUME TypeInv, TypeInv', Partition, ResourceConservation, [Next]_vars
             PROVE  ResourceConservation'
  OBVIOUS
<1>1. CASE UNCHANGED <<jobs, nodes, remaining, running>>
  BY <1>1, ConservationKept
<1>2. CASE \E error : Fail(error)
  BY <1>1, <1>2 DEF Fail, inputVars, nodeVars
<1>3. CASE NewSimulationState
  BY <1>3, ConservationStarts
<1>4. CASE CompleteJob
  BY <1>2, <1>4, CompleteJobConserves
<1>5. CASE TryAdmit
  <2>1. pc = "admit" /\ pending # <<>> /\ pending \in Seq(JobIndexes)
        /\ retained \in Seq(JobIndexes) /\ DOMAIN lifecycle = JobIndexes
    BY <1>5 DEF TryAdmit, TypeInv, TypeOK, InputsValidated
  <2>2. PICK i \in JobIndexes : i = Head(pending)
    BY <2>1
  <2>3. PICK placed \in Place(i) :
          \/ Fail(AdmissionError(i, placed))
          \/ Retain(i) /\ UNCHANGED <<nodeVars, running>>
          \/ placed.kind = "placed" /\ Admit(i, placed) /\ Goto("admit") /\ nodes' = nodes
    BY <1>5, <2>2 DEF TryAdmit
  <2>4. CASE Retain(i) /\ UNCHANGED <<nodeVars, running>>
    BY <1>1, <2>4 DEF Retain, Goto, inputVars, nodeVars
  <2>5. CASE placed.kind = "placed" /\ Admit(i, placed) /\ Goto("admit") /\ nodes' = nodes
    <3>1. i \notin DOMAIN running
      BY <2>1, <2>2, QueuedJobDoesNotRun
    <3>2. jobs' = jobs
      BY <2>5 DEF Goto, inputVars
    <3> QED BY <2>1, <2>5, <3>1, <3>2, AdmitConserves
  <2> QED BY <1>2, <2>3, <2>4, <2>5
<1>6. CASE \/ NextEventTick \/ LeaveLoop \/ CompletionsDone \/ ArriveJob \/ ArrivalsDone
           \/ AdmissionDone \/ UnscheduleBlocked \/ Cancel \/ UNCHANGED vars
  BY <1>1, <1>6
     DEF NextEventTick, LeaveLoop, CompletionsDone, ArriveJob, ArrivalsDone,
         AdmissionDone, UnscheduleBlocked, MarkUnscheduled, Cancel, vars,
         Goto, inputVars, nodeVars
<1>7. CASE RejectInput \/ Canceled
  BY <1>2, <1>7 DEF RejectInput, Canceled
<1>8. CASE UnscheduleUnplaceable \/ TerminalizePending \/ Finish
  BY <1>1, <1>2, <1>8
     DEF UnscheduleUnplaceable, MarkUnscheduled, TerminalizePending, Finish,
         Goto, inputVars, nodeVars
<1> QED BY <1>3, <1>4, <1>5, <1>6, <1>7, <1>8 DEF Next, Step, Terminated

(***************************************************************************)
(* Resources are conserved in every simulation: at every moment, what      *)
(* remains of a node and what the running jobs hold of it make up its      *)
(* capacity, so that an idle cluster is back at its full capacity.         *)
(***************************************************************************)
THEOREM ResourcesAreConserved == Spec => []ResourceConservation
<1>1. Init => ResourceConservation
  BY DEF Init, ResourceConservation, NodeNames
<1> QED BY <1>1, TypeInvCorrect, PartitionCorrect, ConservationStep, PTL DEF Spec

-----------------------------------------------------------------------------
(***************************************************************************)
(* The queue is in arrival order.                                          *)
(*                                                                         *)
(* An arrival is put last, so the order is kept only because every queued  *)
(* job arrives before every job that has not: that is the invariant.       *)
(***************************************************************************)
QueueBeforeFuture ==
  \A k \in DOMAIN Queue, j \in future : ArrivesBefore(Queue[k], j)

QueueOrder == QueueInArrivalOrder /\ QueueBeforeFuture

\* The elements of t are elements of s, in the order of s.
IsSubsequence(t, s) ==
  /\ \A k \in DOMAIN t : \E m \in DOMAIN s : t[k] = s[m]
  /\ \A k, l \in DOMAIN t :
       k < l => \E m, n \in DOMAIN s : m < n /\ t[k] = s[m] /\ t[l] = s[n]

\* Without its head, the second part keeps the order of the rest.
LEMMA TailKeepsOrder ==
  ASSUME NEW S, NEW r \in Seq(S), NEW p \in Seq(S), p # <<>>
  PROVE  IsSubsequence(r \o Tail(p), r \o p)
<1> DEFINE s == r \o p
           t == r \o Tail(p)
           at == Len(r) + 1
           From(k) == IF k < at THEN k ELSE k + 1
<1>1. /\ Len(r) \in Nat /\ Len(p) \in Nat /\ Len(p) >= 1 /\ Tail(p) \in Seq(S)
      /\ Len(Tail(p)) = Len(p) - 1
  OBVIOUS
<1>2. /\ DOMAIN s = 1 .. (Len(r) + Len(p)) /\ DOMAIN t = 1 .. (Len(r) + Len(p) - 1)
  BY <1>1
<1>3. ASSUME NEW k \in DOMAIN t
      PROVE  From(k) \in DOMAIN s /\ t[k] = s[From(k)]
  <2>1. CASE k < at
    BY <1>1, <1>2, <2>1
  <2>2. CASE ~ (k < at)
    <3>1. t[k] = Tail(p)[k - Len(r)] /\ s[k + 1] = p[k + 1 - Len(r)]
      BY <1>1, <1>2, <2>2
    <3>2. k - Len(r) \in 1 .. Len(Tail(p)) /\ k + 1 - Len(r) = k - Len(r) + 1
      BY <1>1, <1>2, <2>2
    <3>3. Tail(p)[k - Len(r)] = p[k - Len(r) + 1]
      BY <1>1, <3>2
    <3>4. From(k) = k + 1 /\ k + 1 \in DOMAIN s
      BY <1>1, <1>2, <2>2
    <3> HIDE DEF s, t, From
    <3> QED BY <3>1, <3>2, <3>3, <3>4
  <2> QED BY <2>1, <2>2
<1>4. \A k, l \in DOMAIN t : k < l => From(k) < From(l)
  BY <1>1, <1>2
<1> HIDE DEF s, t, From, at
<1>5. IsSubsequence(t, s)
  BY <1>3, <1>4 DEF IsSubsequence
<1> QED BY <1>5 DEF s, t

\* Steps that leave the queue, or take out its head, and let nothing arrive.
LEMMA OrderKept ==
  ASSUME QueueOrder, UNCHANGED <<jobs, future, Queue>>
  PROVE  QueueOrder'
BY DEF QueueOrder, QueueInArrivalOrder, QueueBeforeFuture, ArrivesBefore

LEMMA OrderKeptByTail ==
  ASSUME TypeOK, QueueOrder, UNCHANGED <<jobs, future, retained>>,
         pending # <<>>, pending' = Tail(pending)
  PROVE  QueueOrder'
<1>1. pending \in Seq(JobIndexes) /\ retained \in Seq(JobIndexes)
  BY DEF TypeOK
<1>2. Queue = retained \o pending /\ Queue' = retained \o Tail(pending)
  BY DEF Queue
<1>3. IsSubsequence(Queue', Queue)
  BY <1>1, <1>2, TailKeepsOrder
<1>4. QueueInArrivalOrder'
  <2> SUFFICES ASSUME NEW k \in DOMAIN Queue', NEW l \in DOMAIN Queue', k < l
               PROVE  ArrivesBefore(Queue[k], Queue[l])'
    BY DEF QueueInArrivalOrder
  <2>1. PICK m \in DOMAIN Queue, n \in DOMAIN Queue :
          m < n /\ Queue'[k] = Queue[m] /\ Queue'[l] = Queue[n]
    BY <1>3 DEF IsSubsequence
  <2>2. ArrivesBefore(Queue[m], Queue[n])
    BY <2>1 DEF QueueOrder, QueueInArrivalOrder
  <2> QED BY <2>1, <2>2 DEF ArrivesBefore
<1>5. QueueBeforeFuture'
  <2> SUFFICES ASSUME NEW k \in DOMAIN Queue', NEW j \in future
               PROVE  ArrivesBefore(Queue[k], j)'
    BY DEF QueueBeforeFuture
  <2>1. PICK m \in DOMAIN Queue : Queue'[k] = Queue[m]
    BY <1>3 DEF IsSubsequence
  <2>2. ArrivesBefore(Queue[m], j)
    BY DEF QueueOrder, QueueBeforeFuture
  <2> QED BY <2>1, <2>2 DEF ArrivesBefore
<1> QED BY <1>4, <1>5 DEF QueueOrder

\* The next arrival goes to the end: it arrives after the queue and before
\* the rest of the future.
LEMMA OrderKeptByArrival ==
  ASSUME TypeOK, QueueOrder, UNCHANGED <<jobs, retained>>,
         NEW i \in future, IsNextArrival(i),
         pending' = Append(pending, i), future' = future \ {i}
  PROVE  QueueOrder'
<1>1. /\ pending \in Seq(JobIndexes) /\ retained \in Seq(JobIndexes)
      /\ i \in JobIndexes
  BY DEF TypeOK
<1> DEFINE s == retained \o pending
           t == retained \o Append(pending, i)
           last == Len(s) + 1
<1>2. /\ Len(s) \in Nat /\ DOMAIN s = 1 .. Len(s) /\ DOMAIN t = 1 .. last
      /\ \A k \in DOMAIN s : t[k] = s[k]
      /\ t[last] = i
  <2>1. /\ Len(retained) \in Nat /\ Len(pending) \in Nat
        /\ Append(pending, i) \in Seq(JobIndexes)
        /\ Len(Append(pending, i)) = Len(pending) + 1
    BY <1>1
  <2> QED BY <1>1, <2>1
<1>3. Queue = s /\ Queue' = t
  BY DEF Queue
<1> HIDE DEF s, t
<1>4. QueueInArrivalOrder'
  <2> SUFFICES ASSUME NEW k \in DOMAIN t, NEW l \in DOMAIN t, k < l
               PROVE  ArrivesBefore(Queue[k], Queue[l])'
    BY <1>3 DEF QueueInArrivalOrder
  <2>1. k \in DOMAIN s /\ t[k] = s[k]
    BY <1>2
  <2>2. CASE l = last
    <3>1. ArrivesBefore(s[k], i)
      BY <1>3, <2>1 DEF QueueOrder, QueueBeforeFuture
    <3> QED BY <1>2, <1>3, <2>1, <2>2, <3>1 DEF ArrivesBefore
  <2>3. CASE l # last
    <3>1. l \in DOMAIN s /\ t[l] = s[l]
      BY <1>2, <2>3
    <3>2. ArrivesBefore(s[k], s[l])
      BY <1>3, <2>1, <3>1 DEF QueueOrder, QueueInArrivalOrder
    <3> QED BY <1>3, <2>1, <3>1, <3>2 DEF ArrivesBefore
  <2> QED BY <2>2, <2>3
<1>5. QueueBeforeFuture'
  <2> SUFFICES ASSUME NEW k \in DOMAIN t, NEW j \in future \ {i}
               PROVE  ArrivesBefore(Queue[k], j)'
    BY <1>3 DEF QueueBeforeFuture
  <2>1. CASE k = last
    BY <1>2, <1>3, <2>1 DEF IsNextArrival, ArrivesBefore
  <2>2. CASE k # last
    <3>1. k \in DOMAIN s /\ t[k] = s[k]
      BY <1>2, <2>2
    <3>2. ArrivesBefore(s[k], j)
      BY <1>3, <3>1 DEF QueueOrder, QueueBeforeFuture
    <3> QED BY <1>3, <3>1, <3>2 DEF ArrivesBefore
  <2> QED BY <2>1, <2>2
<1> QED BY <1>4, <1>5 DEF QueueOrder

LEMMA QueueOrderStep ==
  TypeInv /\ TypeInv' /\ QueueOrder /\ [Next]_vars => QueueOrder'
<1> SUFFICES ASSUME TypeInv, TypeInv', QueueOrder, [Next]_vars PROVE QueueOrder'
  OBVIOUS
<1> USE DEF Goto
<1>1. TypeOK /\ pending \in Seq(JobIndexes) /\ retained \in Seq(JobIndexes)
  BY DEF TypeInv, TypeOK
<1>2. CASE UNCHANGED <<jobs, future, pending, retained>>
  BY <1>2, OrderKept DEF Queue
<1>3. CASE \E error : Fail(error)
  BY <1>2, <1>3 DEF Fail, inputVars, queueVars
<1>4. CASE NewSimulationState
  <2>1. pending' = <<>> /\ retained' = <<>>
    BY <1>4 DEF NewSimulationState, TypeInv, NothingStarted
  <2>2. Queue' = <<>>
    BY <2>1 DEF Queue
  <2> QED BY <2>2 DEF QueueOrder, QueueInArrivalOrder, QueueBeforeFuture
<1>5. CASE ArriveJob
  BY <1>1, <1>5, OrderKeptByArrival DEF ArriveJob, DueArrival, inputVars
<1>6. CASE TryAdmit
  <2>1. pending # <<>>
    BY <1>6 DEF TryAdmit
  <2>2. PICK i \in JobIndexes : i = Head(pending)
    BY <1>1, <2>1
  <2>3. PICK placed \in Place(i) :
          \/ Fail(AdmissionError(i, placed))
          \/ Retain(i) /\ UNCHANGED future
          \/ pending' = Tail(pending) /\ Goto("admit") /\ UNCHANGED <<future, retained>>
    BY <1>6, <2>2 DEF TryAdmit
  <2>4. CASE Retain(i) /\ UNCHANGED future
    <3>1. Append(retained, Head(pending)) \o Tail(pending) = retained \o pending
      BY <1>1, <2>1, RetainKeepsQueue
    <3>2. Queue' = Queue
      BY <2>2, <2>4, <3>1 DEF Retain, Queue
    <3> QED BY <2>4, <3>2, OrderKept DEF Retain, inputVars
  <2>5. CASE pending' = Tail(pending) /\ Goto("admit") /\ UNCHANGED <<future, retained>>
    BY <1>1, <2>1, <2>5, OrderKeptByTail DEF inputVars
  <2> QED BY <1>3, <2>3, <2>4, <2>5
<1>7. CASE AdmissionDone
  <2>1. /\ pending = <<>> /\ pending' = retained /\ retained' = <<>>
        /\ UNCHANGED <<future, jobs>>
    BY <1>7 DEF AdmissionDone, inputVars
  <2>2. <<>> \o retained = retained \o <<>>
    BY <1>1
  <2>3. Queue' = Queue
    BY <2>1, <2>2 DEF Queue
  <2> QED BY <2>1, <2>3, OrderKept
<1>8. CASE UnscheduleUnplaceable \/ UnscheduleBlocked
  <2>1. CASE \E i, reason : MarkUnscheduled(i, reason) /\ pending # <<>>
    BY <1>1, <2>1, OrderKeptByTail DEF MarkUnscheduled, inputVars
  <2> QED BY <1>3, <1>8, <2>1 DEF UnscheduleUnplaceable, UnscheduleBlocked
<1>9. CASE \/ NextEventTick \/ LeaveLoop \/ CompletionsDone \/ ArrivalsDone
           \/ Cancel \/ UNCHANGED vars
  BY <1>2, <1>9 DEF NextEventTick, LeaveLoop, CompletionsDone, ArrivalsDone, Cancel,
                    vars, inputVars, queueVars
<1>10. CASE CompleteJob \/ TerminalizePending \/ Finish
  BY <1>2, <1>3, <1>10 DEF CompleteJob, TerminalizePending, Finish, inputVars, queueVars
<1>11. CASE RejectInput \/ Canceled
  BY <1>3, <1>11 DEF RejectInput, Canceled
<1> QED BY <1>4, <1>5, <1>6, <1>7, <1>8, <1>9, <1>10, <1>11 DEF Next, Step, Terminated

(***************************************************************************)
(* In every simulation and under both policies the queue is in arrival     *)
(* order, also in the middle of a backfill scan that passes over jobs.     *)
(***************************************************************************)
THEOREM QueueIsInArrivalOrder == Spec => []QueueInArrivalOrder
<1>1. Init => QueueOrder
  <2> SUFFICES ASSUME Init PROVE QueueOrder
    OBVIOUS
  <2>1. retained = <<>> /\ pending = <<>>
    BY DEF Init
  <2>2. Queue = <<>>
    BY <2>1 DEF Queue
  <2> QED BY <2>2 DEF QueueOrder, QueueInArrivalOrder, QueueBeforeFuture
<1>2. QueueOrder => QueueInArrivalOrder
  BY DEF QueueOrder
<1> QED BY <1>1, <1>2, TypeInvCorrect, QueueOrderStep, PTL DEF Spec

-----------------------------------------------------------------------------
(***************************************************************************)
(* The kinds of steps, by what they do to the jobs.                        *)
(***************************************************************************)
Completes(i) ==
  /\ pc = "complete" /\ pc' = "complete"
  /\ i \in DOMAIN running /\ i \in JobIndexes /\ DueJob(i)
  /\ running' = Restrict(running, DOMAIN running \ {i})
  /\ remaining' = Released(remaining, jobs[i], running[i].allocation)
  /\ lifecycle' = [lifecycle EXCEPT ![i] = CompletedLifecycle(@)]
  /\ AppendEvent([stats EXCEPT !.totalDelay = @ + lifecycle[i].queueDelay,
                    !.maxDelay = IF lifecycle[i].queueDelay > @
                                 THEN lifecycle[i].queueDelay ELSE @,
                    !.completed = @ + 1],
                 EventCompleted, i)
  /\ UNCHANGED <<inputVars, tick, nodes, queueVars>>

Arrives(i) ==
  /\ pc = "arrive" /\ pc' = "arrive"
  /\ i \in future /\ i \in JobIndexes /\ DueArrival(i)
  /\ pending' = Append(pending, i) /\ future' = future \ {i}
  /\ AppendEvent(stats, EventArrived, i)
  /\ UNCHANGED <<inputVars, tick, nodeVars, retained, blockingJob, running, lifecycle>>

Admits(i, placed) ==
  /\ pc = "admit" /\ pc' = "admit"
  /\ pending # <<>> /\ i = Head(pending) /\ i \in JobIndexes
  /\ placed \in Place(i) /\ placed.kind = "placed" /\ ~ (tick < jobs[i].arrivalTick)
  /\ Admit(i, placed)
  /\ pending' = Tail(pending)
  /\ UNCHANGED <<inputVars, tick, nodes, future, retained, blockingJob>>

GivesUp(i, reason) ==
  /\ pc = "unschedule" /\ pc' = "unschedule"
  /\ pending # <<>> /\ i = Head(pending) /\ i \in JobIndexes
  /\ lifecycle' = [lifecycle EXCEPT ![i].status = LifecycleUnscheduled,
                                    ![i].reason = reason]
  /\ stats' = [stats EXCEPT !.unscheduled = @ + 1]
  /\ pending' = Tail(pending)
  /\ \/ /\ blockingJob = 0 /\ blockingJob' = Blocker(i)
        /\ \E placed \in Place(i) : placed.kind = "rejected" /\ placed.reason = reason
     \/ /\ blockingJob # 0 /\ blockingJob' = blockingJob
        /\ reason = HeadOfLineReason(jobs[blockingJob].name)
  /\ UNCHANGED <<inputVars, tick, nodeVars, future, retained, running, events>>

Processing == {"complete", "arrive", "admit"}
Ending == {"unschedule", "done", "failed"}

MovesOn == \/ pc' = pc \/ pc' \notin Processing
           \/ <<pc, pc'>> \in {<<"complete", "arrive">>, <<"arrive", "admit">>}

\* Nothing happens to a job; the simulator moves on, perhaps to the next event.
Passes ==
  /\ UNCHANGED <<inputVars, nodeVars, future, blockingJob, running, lifecycle, events>>
  /\ \/ tick' = tick /\ MovesOn
     \/ NextEventTick /\ pc = "loop" /\ tick' \in EventTicks
  /\ \/ pending' = pending
     \/ pc = "admit" /\ pending # <<>> /\ pending' = Tail(pending)
     \/ pc = "admit" /\ pc' = "loop"
  /\ pc \in Ending => pc' \in Ending
  /\ \/ stats' = stats /\ (pc' = "done" => pc = "done")
     \/ /\ pc = "unschedule" /\ pc' = "done" /\ pending = <<>>
        /\ stats' = [stats EXCEPT
             !.makespan = IF events # <<>> THEN stats.endTick - stats.startTick ELSE @]

Begins == NewSimulationState

\* A step from a terminal state, and one that fails, are steps like these.
LEMMA StepKinds ==
  ASSUME TypeInv, [Next]_vars
  PROVE  \/ Begins \/ Passes
         \/ \E i \in JobIndexes : Completes(i)
         \/ \E i \in JobIndexes : Arrives(i)
         \/ \E i \in JobIndexes : \E placed \in Place(i) : Admits(i, placed)
         \/ \E i \in JobIndexes : \E reason : GivesUp(i, reason)
<1> USE DEF Goto, MovesOn, Processing, Ending
<1>1. /\ future \subseteq JobIndexes /\ DOMAIN running \subseteq JobIndexes
      /\ pending \in Seq(JobIndexes)
  BY DEF TypeInv, TypeOK
<1>2. ASSUME NEW error, Fail(error) PROVE Passes
  BY <1>2 DEF Fail, Passes, queueVars, resultVars
<1>3. CASE CompleteJob
  <2>1. PICK i \in DOMAIN running :
          /\ DueJob(i)
          /\ \/ Fail(CompletionError(i))
             \/ /\ running' = Restrict(running, DOMAIN running \ {i})
                /\ remaining' = Released(remaining, jobs[i], running[i].allocation)
                /\ lifecycle' = [lifecycle EXCEPT ![i] = CompletedLifecycle(@)]
                /\ AppendEvent([stats EXCEPT !.totalDelay = @ + lifecycle[i].queueDelay,
                                  !.maxDelay = IF lifecycle[i].queueDelay > @
                                               THEN lifecycle[i].queueDelay ELSE @,
                                  !.completed = @ + 1],
                               EventCompleted, i)
                /\ Goto("complete")
                /\ UNCHANGED <<tick, nodes, queueVars>>
    BY <1>3 DEF CompleteJob
  <2>2. pc = "complete"
    BY <1>3 DEF CompleteJob
  <2>3. CASE Fail(CompletionError(i))
    BY <1>2, <2>3
  <2>4. CASE ~ Fail(CompletionError(i))
    BY <1>1, <2>1, <2>2, <2>4 DEF Completes
  <2> QED BY <2>3, <2>4
<1>4. CASE ArriveJob
  BY <1>1, <1>4 DEF ArriveJob, Arrives
<1>5. CASE TryAdmit
  <2>1. pc = "admit" /\ pending # <<>> /\ Head(pending) \in JobIndexes
    BY <1>1, <1>5 DEF TryAdmit
  <2>2. PICK i \in JobIndexes : i = Head(pending)
    BY <2>1
  <2>3. PICK placed \in Place(i) :
          \/ Fail(AdmissionError(i, placed))
          \/ Retain(i) /\ UNCHANGED <<tick, nodeVars, future, blockingJob, running, resultVars>>
          \/ /\ AdmissionError(i, placed) = "none" /\ placed.kind = "placed"
             /\ Admit(i, placed)
             /\ pending' = Tail(pending)
             /\ Goto("admit")
             /\ UNCHANGED <<tick, nodes, future, retained, blockingJob>>
    BY <1>5, <2>2 DEF TryAdmit
  <2>4. CASE Fail(AdmissionError(i, placed))
    BY <1>2, <2>4
  <2>5. CASE Retain(i) /\ UNCHANGED <<tick, nodeVars, future, blockingJob, running, resultVars>>
    BY <2>1, <2>5 DEF Retain, Passes, resultVars
  <2>6. CASE /\ AdmissionError(i, placed) = "none" /\ placed.kind = "placed"
             /\ Admit(i, placed)
             /\ pending' = Tail(pending)
             /\ Goto("admit")
             /\ UNCHANGED <<tick, nodes, future, retained, blockingJob>>
    <3>1. ~ (tick < jobs[i].arrivalTick)
      BY <2>6 DEF AdmissionError
    <3> QED BY <2>1, <2>2, <2>6, <3>1 DEF Admits
  <2> QED BY <2>3, <2>4, <2>5, <2>6
<1>6. CASE UnscheduleUnplaceable
  <2>1. pc = "unschedule" /\ pending # <<>> /\ blockingJob = 0
    BY <1>6 DEF UnscheduleUnplaceable
  <2>2. PICK i \in JobIndexes : i = Head(pending)
    BY <1>1, <2>1
  <2>3. PICK placed \in Place(i) :
          \/ \E error : Fail(error)
          \/ /\ placed.kind = "rejected"
             /\ MarkUnscheduled(i, placed.reason) /\ blockingJob' = Blocker(i)
    BY <1>6, <2>2 DEF UnscheduleUnplaceable
  <2>4. CASE \E error : Fail(error)
    BY <1>2, <2>4
  <2>5. CASE /\ placed.kind = "rejected"
             /\ MarkUnscheduled(i, placed.reason) /\ blockingJob' = Blocker(i)
    <3>1. GivesUp(i, placed.reason)
      BY <2>1, <2>2, <2>5 DEF MarkUnscheduled, GivesUp
    <3> QED BY <3>1
  <2> QED BY <2>3, <2>4, <2>5
<1>7. CASE UnscheduleBlocked
  <2>1. pc = "unschedule" /\ pending # <<>> /\ Head(pending) \in JobIndexes /\ blockingJob # 0
    BY <1>1, <1>7 DEF UnscheduleBlocked
  <2>2. PICK i \in JobIndexes : i = Head(pending)
    BY <2>1
  <2>3. PICK reason : reason = HeadOfLineReason(jobs[blockingJob].name)
    OBVIOUS
  <2>4. GivesUp(i, reason)
    BY <1>7, <2>1, <2>2, <2>3 DEF UnscheduleBlocked, MarkUnscheduled, GivesUp
  <2> QED BY <2>4
<1>8. CASE NextEventTick
  <2>1. pc = "loop" /\ tick' \in EventTicks
    BY <1>8 DEF NextEventTick
  <2> QED BY <1>8, <2>1 DEF NextEventTick, Passes, queueVars, resultVars
<1>9. CASE Finish
  <2>1. CASE \E error : Fail(error)
    BY <1>2, <2>1
  <2>2. CASE ~ \E error : Fail(error)
    BY <1>9, <2>2 DEF Finish, Passes, queueVars
  <2> QED BY <2>1, <2>2
<1>10. CASE \/ LeaveLoop \/ CompletionsDone \/ ArrivalsDone \/ AdmissionDone
            \/ Cancel \/ UNCHANGED vars
  BY <1>10 DEF LeaveLoop, CompletionsDone, ArrivalsDone, AdmissionDone, Cancel, vars,
               Passes, queueVars, resultVars
<1>11. CASE TerminalizePending
  BY <1>2, <1>11 DEF TerminalizePending, Passes, queueVars, resultVars
<1>12. CASE RejectInput \/ Canceled
  BY <1>2, <1>12 DEF RejectInput, Canceled
<1> QED BY <1>3, <1>4, <1>5, <1>6, <1>7, <1>8, <1>9, <1>10, <1>11, <1>12
        DEF Begins, Next, Step, Terminated

\* The ticks of a job's life and of the simulator are numbers.
LEMMA TicksAreNumbers ==
  ASSUME TypeInv
  PROVE  /\ tick \in Int
         /\ \A i \in DOMAIN lifecycle :
              /\ lifecycle[i].startTick \in Int /\ lifecycle[i].completionTick \in Int
              /\ lifecycle[i].queueDelay \in Int
              /\ jobs[i].arrivalTick \in Int /\ jobs[i].durationTicks \in Int
<1>1. \A t \in Ticks : t \in Int
  BY MaxInt64Assumption DEF Ticks, NonNegInt64, NoTick
<1>2. ASSUME NEW i \in DOMAIN lifecycle
      PROVE  jobs[i].arrivalTick \in Int /\ jobs[i].durationTicks \in Int
  <2>1. jobs[i] \in Job
    BY DEF TypeInv, TypeOK, JobIndexes
  <2>2. jobs[i].arrivalTick \in Int64 /\ jobs[i].durationTicks \in Int64
    BY <2>1 DEF Job
  <2> QED BY <2>2, MaxInt64Assumption DEF Int64
<1> QED BY <1>1, <1>2 DEF TypeInv, TypeOK, LifecycleOK

\* The tick never goes back.
LEMMA PassesForward ==
  ASSUME TypeInv, TypeInv', NoEventMissed, Passes
  PROVE  tick <= tick' /\ (tick' = tick \/ tick < tick')
<1>1. tick \in Int /\ tick' \in Int
  <2>1. tick \in Ticks /\ tick' \in Ticks
    BY DEF TypeInv, TypeOK
  <2> QED BY <2>1, MaxInt64Assumption DEF Ticks, NonNegInt64, NoTick
<1>2. CASE tick' = tick
  BY <1>1, <1>2
<1>3. CASE pc = "loop" /\ tick' \in EventTicks
  BY <1>1, <1>3 DEF NoEventMissed, EventTicks
<1> QED BY <1>1, <1>2, <1>3 DEF Passes

\* Once the inputs are validated no node has more than its capacity.
LEMMA RemainingBelowCapacity ==
  ASSUME TypeInv, ResourceConservation, pc \notin {"start", "failed"}
  PROVE  \A n \in NodeNames, d \in Dim :
           /\ remaining[n][d] \in Nat /\ nodes[n].capacity[d] \in Nat
           /\ TotalHeld(n, d) \in Nat
           /\ remaining[n][d] <= nodes[n].capacity[d]
<1> SUFFICES ASSUME NEW n \in NodeNames, NEW d \in Dim
             PROVE  /\ remaining[n][d] \in Nat /\ nodes[n].capacity[d] \in Nat
                    /\ TotalHeld(n, d) \in Nat
                    /\ remaining[n][d] <= nodes[n].capacity[d]
  OBVIOUS
<1>1. remaining[n][d] \in Nat /\ nodes[n].capacity[d] \in Nat
  <2>1. nodes[n] \in NodeInfo /\ remaining[n] \in [Dim -> NonNegInt64]
    BY DEF TypeInv, TypeOK
  <2>2. nodes[n].capacity \in [Dim -> NonNegInt64]
    BY <2>1 DEF NodeInfo
  <2>3. nodes[n].capacity[d] \in NonNegInt64 /\ remaining[n][d] \in NonNegInt64
    BY <2>1, <2>2
  <2> QED BY <2>3, MaxInt64Assumption DEF NonNegInt64
<1>2. TotalHeld(n, d) \in Nat
  <2> DEFINE held == [i \in JobIndexes |-> Held(i, n, d)]
  <2>1. JobIndexes = 1 .. Len(jobs) /\ Len(jobs) \in Nat
    BY DEF JobIndexes, TypeInv, TypeOK
  <2>2. IsFiniteSet(JobIndexes)
    BY <2>1, FS_Interval
  <2>3. \A i \in JobIndexes : held[i] \in Nat
    BY HeldType
  <2>4. TotalHeld(n, d) = SumFunctionOnSet(held, JobIndexes)
    BY DEF TotalHeld
  <2> HIDE DEF held
  <2> QED BY <2>2, <2>3, <2>4, SumNonNegative
<1>3. remaining[n][d] + TotalHeld(n, d) = nodes[n].capacity[d]
  BY DEF ResourceConservation
<1> QED BY <1>1, <1>2, <1>3

\* What fits now fits the idle cluster.
LEMMA FitsMeansFitsIdle ==
  ASSUME TypeInv, ResourceConservation, pc \notin {"start", "failed"},
         NEW i \in JobIndexes, Fits(i)
  PROVE  FitsIdleCluster(i)
<1>1. PlacementInput(nodes, remaining, jobs[i])
  BY PlacementCalled
<1>2. /\ jobs[i].resourcesPerReplica \in [Dim -> Nat] /\ jobs[i].replicas \in Nat
      /\ remaining \in [DOMAIN nodes -> [Dim -> NonNegInt64]]
  BY <1>1, MaxInt64Assumption DEF PlacementInput, PosInt64
<1>3. IdleCluster \in [DOMAIN nodes -> [Dim -> NonNegInt64]]
  <2>1. \A n \in DOMAIN nodes : nodes[n].capacity \in [Dim -> NonNegInt64]
    BY DEF TypeInv, TypeOK, NodeInfo, NodeNames
  <2> QED BY <2>1 DEF IdleCluster, IdleResources
<1>4. \A n \in DOMAIN nodes, d \in Dim : remaining[n][d] <= IdleCluster[n][d]
  BY RemainingBelowCapacity DEF IdleCluster, IdleResources, NodeNames
<1> QED BY <1>2, <1>3, <1>4, FeasibleMonotone DEF Fits, FitsIdleCluster

-----------------------------------------------------------------------------
(***************************************************************************)
(* The life of a job.                                                      *)
(*                                                                         *)
(* Where a job is, when it started and what it holds are recorded in three *)
(* places, the heap of running jobs, the lifecycle and the nodes; the      *)
(* invariant is how they agree.                                            *)
(***************************************************************************)
GangPlaced(i) ==
  /\ SumFunction(lifecycle[i].allocation) = jobs[i].replicas
  /\ \A n \in DOMAIN lifecycle[i].allocation :
       lifecycle[i].domain = IF jobs[i].requiredTopology = NoTopology
                             THEN GlobalTopologyDomain
                             ELSE Label(nodes[n].topology, jobs[i].requiredTopology)

StartOK(i) ==
  /\ jobs[i].arrivalTick <= lifecycle[i].startTick
  /\ lifecycle[i].startTick <= tick
  /\ lifecycle[i].queueDelay = lifecycle[i].startTick - jobs[i].arrivalTick
  /\ GangPlaced(i) /\ FitsIdleCluster(i)

RunOK(i) ==
  /\ running[i].finishTick = lifecycle[i].startTick + jobs[i].durationTicks
  /\ running[i].allocation = lifecycle[i].allocation

CompletionOK(i) ==
  /\ lifecycle[i].completionTick = lifecycle[i].startTick + jobs[i].durationTicks
  /\ lifecycle[i].completionTick <= tick

LifeOK(i) ==
  /\ Started(i) <=> i \in DOMAIN running \/ lifecycle[i].status = LifecycleCompleted
  /\ Started(i) => StartOK(i)
  /\ i \in DOMAIN running => RunOK(i)
  /\ lifecycle[i].status = LifecycleCompleted => CompletionOK(i)
  /\ i \notin future => jobs[i].arrivalTick <= tick

Lives == \A i \in DOMAIN lifecycle : LifeOK(i)

\* A job the step does not touch goes on as before.
LEMMA LifeKept ==
  ASSUME TypeInv, TypeInv', NEW i \in DOMAIN lifecycle, LifeOK(i),
         UNCHANGED <<jobs, nodes>>, tick <= tick',
         lifecycle'[i] = lifecycle[i],
         i \in DOMAIN running' <=> i \in DOMAIN running,
         i \in DOMAIN running => running'[i] = running[i],
         i \in future => i \in future'
  PROVE  LifeOK(i)'
<1>1. /\ tick \in Int /\ tick' \in Int
      /\ lifecycle[i].startTick \in Int /\ lifecycle[i].completionTick \in Int
      /\ jobs[i].arrivalTick \in Int
  <2>1. tick' \in Int
    <3>1. tick' \in Ticks
      BY DEF TypeInv, TypeOK
    <3> QED BY <3>1, MaxInt64Assumption DEF Ticks, NonNegInt64, NoTick
  <2> QED BY <2>1, TicksAreNumbers
<1>2. Started(i)' <=> Started(i)
  BY DEF Started
<1>3. StartOK(i) => StartOK(i)'
  <2>1. GangPlaced(i) => GangPlaced(i)'
    BY DEF GangPlaced
  <2>2. FitsIdleCluster(i) => FitsIdleCluster(i)'
    BY DEF FitsIdleCluster, IdleCluster
  <2> QED BY <1>1, <2>1, <2>2 DEF StartOK
<1>4. i \in DOMAIN running /\ RunOK(i) => RunOK(i)'
  BY DEF RunOK
<1>5. CompletionOK(i) => CompletionOK(i)'
  BY <1>1 DEF CompletionOK
<1> QED BY <1>1, <1>2, <1>3, <1>4, <1>5 DEF LifeOK

\* An admitted job is placed whole, and starts at this tick.
LEMMA AdmittedLife ==
  ASSUME TypeInv, TypeInv', Partition, ResourceConservation, Lives,
         NEW i \in JobIndexes, NEW placed \in Place(i), Admits(i, placed)
  PROVE  LifeOK(i)'
<1>1. /\ DOMAIN lifecycle = JobIndexes /\ TypeOK /\ UNCHANGED <<tick, jobs, nodes>>
      /\ PlacementInput(nodes, remaining, jobs[i])
  BY PlacementCalled DEF Admits, TypeInv, InputsValidated, inputVars
<1>2. IsAt(i, FALSE, TRUE, FALSE, FALSE, FALSE)
  BY <1>1, HeadLeavesQueue DEF Admits
<1>3. lifecycle'[i] = StartedLifecycle(lifecycle[i], i, placed)
  BY <1>1 DEF Admits, Admit
<1>4. /\ lifecycle'[i].startTick = tick
      /\ lifecycle'[i].queueDelay = tick - jobs[i].arrivalTick
      /\ lifecycle'[i].domain = placed.domain /\ lifecycle'[i].allocation = placed.allocation
      /\ lifecycle'[i].status = lifecycle[i].status
  <2>1. LifecycleOK(lifecycle[i])
    BY <1>1 DEF TypeOK
  <2> QED BY <1>3, <2>1 DEF StartedLifecycle, LifecycleOK
<1>5. /\ i \in DOMAIN running'
      /\ running'[i].finishTick = tick + jobs[i].durationTicks
      /\ running'[i].allocation = placed.allocation
  BY DEF Admits, Admit
<1>6. /\ tick \in Int /\ jobs[i].arrivalTick \in Int /\ jobs[i].arrivalTick <= tick
      /\ tick # NoTick
  BY <1>1, TicksAreNumbers, MaxInt64Assumption
     DEF Admits, TypeInv, TickIsEvent, NonNegInt64, NoTick
<1>7. GangPlaced(i)'
  <2>1. SumFunction(placed.allocation) = jobs[i].replicas
    BY <1>1, PlacedAllocation DEF Place, Admits
  <2>2. \A n \in DOMAIN placed.allocation :
          placed.domain = IF jobs[i].requiredTopology = NoTopology THEN GlobalTopologyDomain
                          ELSE Label(nodes[n].topology, jobs[i].requiredTopology)
    BY <1>1, PlacedInDomain DEF Place, Admits
  <2> QED BY <1>1, <1>4, <2>1, <2>2 DEF GangPlaced
<1>8. FitsIdleCluster(i)'
  <2>1. Fits(i)
    BY <1>1, PlacedExactlyWhenFeasible DEF Place, Admits, Fits
  <2>2. FitsIdleCluster(i)
    BY <2>1, FitsMeansFitsIdle DEF Admits
  <2> QED BY <1>1, <2>2 DEF FitsIdleCluster, IdleCluster
<1>9. Started(i)' /\ StartOK(i)' /\ RunOK(i)'
  BY <1>1, <1>4, <1>5, <1>6, <1>7, <1>8 DEF Started, StartOK, RunOK
<1> QED BY <1>1, <1>2, <1>4, <1>5, <1>6, <1>9 DEF LifeOK, IsAt

LEMMA LivesStep ==
  /\ TypeInv /\ TypeInv' /\ Partition /\ ResourceConservation /\ NoEventMissed
  /\ Lives /\ [Next]_vars
  => Lives'
<1> SUFFICES ASSUME TypeInv, TypeInv', Partition, ResourceConservation, NoEventMissed,
                    Lives, [Next]_vars
             PROVE  Lives'
  OBVIOUS
<1>1. TypeOK /\ TypeOK' /\ tick \in Int
  BY TicksAreNumbers DEF TypeInv
<1>2. CASE Begins
  <2>1. /\ DOMAIN lifecycle' = JobIndexes /\ future' = JobIndexes /\ DOMAIN running' = {}
        /\ \A i \in JobIndexes : /\ lifecycle'[i].startTick = NoTick
                                 /\ lifecycle'[i].status = StatusNone
    BY <1>2 DEF Begins, NewSimulationState, TypeInv, NothingStarted
  <2> QED BY <2>1 DEF Lives, LifeOK, Started, StatusNone, LifecycleCompleted
<1>3. CASE Passes
  <2>1. tick <= tick'
    BY <1>3, PassesForward
  <2>2. UNCHANGED <<jobs, nodes, future, running, lifecycle>>
    BY <1>3 DEF Passes, inputVars, nodeVars
  <2> QED BY <2>1, <2>2, LifeKept DEF Lives
<1>4. CASE \E i \in JobIndexes : Completes(i)
  <2>1. PICK i \in JobIndexes : Completes(i)
    BY <1>4
  <2>2. /\ DOMAIN lifecycle = JobIndexes /\ DOMAIN lifecycle' = DOMAIN lifecycle
        /\ i \in DOMAIN running /\ DOMAIN running' = DOMAIN running \ {i}
        /\ lifecycle'[i] = CompletedLifecycle(lifecycle[i])
        /\ UNCHANGED <<jobs, nodes, tick, future>>
        /\ LifecycleOK(lifecycle[i]) /\ running[i].finishTick = tick
    BY <1>1, <2>1 DEF Completes, TypeInv, InputsValidated, inputVars, queueVars, Restrict,
                      TypeOK, DueJob
  <2>3. ASSUME NEW j \in DOMAIN lifecycle, j # i PROVE LifeOK(j)'
    <3>1. /\ lifecycle'[j] = lifecycle[j]
          /\ j \in DOMAIN running => running'[j] = running[j]
      BY <2>1, <2>3 DEF Completes, Restrict
    <3> QED BY <1>1, <2>2, <2>3, <3>1, LifeKept DEF Lives
  <2>4. LifeOK(i)'
    <3>1. /\ LifeOK(i) /\ Started(i) /\ StartOK(i) /\ RunOK(i)
          /\ i \notin future => jobs[i].arrivalTick <= tick
      BY <2>2 DEF Lives, LifeOK
    <3>2. /\ lifecycle'[i].startTick = lifecycle[i].startTick
          /\ lifecycle'[i].queueDelay = lifecycle[i].queueDelay
          /\ lifecycle'[i].domain = lifecycle[i].domain
          /\ lifecycle'[i].allocation = lifecycle[i].allocation
          /\ lifecycle'[i].status = LifecycleCompleted
          /\ lifecycle'[i].completionTick = tick
      BY <2>2 DEF CompletedLifecycle, LifecycleOK
    <3>3. Started(i)' /\ StartOK(i)'
      <4>1. GangPlaced(i)'
        BY <2>2, <3>1, <3>2 DEF StartOK, GangPlaced
      <4>2. FitsIdleCluster(i)'
        BY <2>2, <3>1 DEF StartOK, FitsIdleCluster, IdleCluster
      <4> QED BY <2>2, <3>1, <3>2, <4>1, <4>2 DEF Started, StartOK
    <3>4. CompletionOK(i)'
      <4>1. tick = lifecycle[i].startTick + jobs[i].durationTicks /\ tick <= tick
        BY <1>1, <2>2, <3>1 DEF RunOK
      <4> QED BY <2>2, <3>2, <4>1 DEF CompletionOK
    <3> QED BY <2>2, <3>1, <3>2, <3>3, <3>4 DEF LifeOK
  <2> QED BY <2>2, <2>3, <2>4 DEF Lives
<1>5. CASE \E i \in JobIndexes : Arrives(i)
  <2>1. PICK i \in JobIndexes : Arrives(i)
    BY <1>5
  <2>2. /\ UNCHANGED <<jobs, nodes, tick, running, lifecycle>>
        /\ future' = future \ {i} /\ jobs[i].arrivalTick = tick
    BY <2>1 DEF Arrives, inputVars, nodeVars, DueArrival
  <2>3. ASSUME NEW j \in DOMAIN lifecycle, j # i PROVE LifeOK(j)'
    BY <1>1, <2>2, <2>3, LifeKept DEF Lives
  <2>4. ASSUME i \in DOMAIN lifecycle PROVE LifeOK(i)'
    <3>1. LifeOK(i)
      BY <2>4 DEF Lives
    <3> QED BY <1>1, <2>2, <3>1
            DEF LifeOK, Started, StartOK, GangPlaced, FitsIdleCluster, IdleCluster,
                RunOK, CompletionOK
  <2> QED BY <2>2, <2>3, <2>4 DEF Lives
<1>6. CASE \E i \in JobIndexes : \E placed \in Place(i) : Admits(i, placed)
  <2>0. PICK i \in JobIndexes : \E placed \in Place(i) : Admits(i, placed)
    BY <1>6
  <2>1. PICK placed \in Place(i) : Admits(i, placed)
    BY <2>0
  <2>2. /\ DOMAIN lifecycle' = DOMAIN lifecycle
        /\ UNCHANGED <<jobs, nodes, tick, future>>
        /\ DOMAIN running' = DOMAIN running \cup {i}
    BY <2>1 DEF Admits, Admit, inputVars
  <2>3. ASSUME NEW j \in DOMAIN lifecycle, j # i PROVE LifeOK(j)'
    <3>1. /\ lifecycle'[j] = lifecycle[j]
          /\ j \in DOMAIN running => running'[j] = running[j]
      BY <2>1, <2>3 DEF Admits, Admit
    <3> QED BY <1>1, <2>2, <2>3, <3>1, LifeKept DEF Lives
  <2>4. LifeOK(i)'
    BY <2>1, AdmittedLife
  <2> QED BY <2>2, <2>3, <2>4 DEF Lives
<1>7. CASE \E i \in JobIndexes : \E reason : GivesUp(i, reason)
  <2>0. PICK i \in JobIndexes : \E reason : GivesUp(i, reason)
    BY <1>7
  <2>1. PICK reason : GivesUp(i, reason)
    BY <2>0
  <2>2. /\ DOMAIN lifecycle = JobIndexes /\ DOMAIN lifecycle' = DOMAIN lifecycle
        /\ UNCHANGED <<jobs, nodes, tick, future, running>>
        /\ lifecycle' = [lifecycle EXCEPT ![i].status = LifecycleUnscheduled,
                                          ![i].reason = reason]
    BY <1>1, <2>1 DEF GivesUp, TypeInv, InputsValidated, inputVars, nodeVars
  <2>3. ASSUME NEW j \in DOMAIN lifecycle, j # i PROVE LifeOK(j)'
    <3>1. lifecycle'[j] = lifecycle[j]
      BY <2>2, <2>3
    <3> QED BY <1>1, <2>2, <2>3, <3>1, LifeKept DEF Lives
  <2>4. LifeOK(i)'
    <3>1. IsAt(i, FALSE, TRUE, FALSE, FALSE, FALSE)
      BY <1>1, <2>1, <2>2, HeadLeavesQueue DEF GivesUp
    <3>2. LifeOK(i) /\ LifecycleOK(lifecycle[i])
      BY <1>1, <2>2 DEF Lives, TypeOK
    <3>3. /\ lifecycle'[i].status = LifecycleUnscheduled
          /\ lifecycle'[i].startTick = lifecycle[i].startTick
      BY <2>2, <3>2 DEF LifecycleOK
    <3>4. ~ Started(i) /\ jobs[i].arrivalTick <= tick
      BY <3>1, <3>2 DEF LifeOK, IsAt
    <3> QED BY <2>2, <3>1, <3>3, <3>4
            DEF LifeOK, Started, IsAt, LifecycleCompleted, LifecycleUnscheduled
  <2> QED BY <2>2, <2>3, <2>4 DEF Lives
<1> QED BY <1>2, <1>3, <1>4, <1>5, <1>6, <1>7, StepKinds

\* The invariants of the simulator's state together.
StateInv == TypeInv /\ Partition /\ ResourceConservation /\ NoEventMissed /\ QueueOrder

LEMMA StateInvCorrect == Spec => []StateInv
<1>1. Init => QueueOrder
  <2> SUFFICES ASSUME Init PROVE QueueOrder
    OBVIOUS
  <2>1. retained = <<>> /\ pending = <<>>
    BY DEF Init
  <2>2. Queue = <<>>
    BY <2>1 DEF Queue
  <2> QED BY <2>2 DEF QueueOrder, QueueInArrivalOrder, QueueBeforeFuture
<1>2. QueueOrder /\ TypeInv /\ TypeInv' /\ [Next]_vars => QueueOrder'
  BY QueueOrderStep
<1>3. TypeInv /\ Partition /\ ResourceConservation /\ NoEventMissed /\ QueueOrder => StateInv
  BY DEF StateInv
<1> QED BY <1>1, <1>2, <1>3, TypeInvCorrect, PartitionCorrect, ResourcesAreConserved,
           NoEventIsMissed, PTL DEF Spec

LEMMA LivesCorrect == Spec => []Lives
<1>1. Init => Lives
  BY DEF Init, Lives
<1>2. StateInv /\ StateInv' /\ Lives /\ [Next]_vars => Lives'
  BY LivesStep DEF StateInv
<1> QED BY <1>1, <1>2, StateInvCorrect, PTL DEF Spec

(***************************************************************************)
(* A job that starts is placed whole, in one domain; what it holds while   *)
(* it runs is what its lifecycle reports.                                  *)
(***************************************************************************)
THEOREM GangsArePlacedWhole == Spec => []GangPlacement
<1>1. StateInv /\ Lives => GangPlacement
  BY DEF StateInv, Lives, LifeOK, StartOK, RunOK, GangPlaced, GangPlacement
<1> QED BY <1>1, StateInvCorrect, LivesCorrect, PTL

-----------------------------------------------------------------------------
(***************************************************************************)
(* The queue between admission cycles.                                     *)
(***************************************************************************)
\* The parts of the queue that are in use, by where the simulator is.
QueueShape ==
  /\ pc \notin {"admit", "failed"} => retained = <<>>
  /\ policy = PolicyStrictFIFO => retained = <<>>
  /\ pc \notin {"unschedule", "done", "failed"} => blockingJob = 0
  /\ policy # PolicyStrictFIFO => blockingJob = 0
  /\ pc = "done" => pending = <<>>
  /\ pc \in {"terminalize", "unschedule", "done"} => future = {} /\ DOMAIN running = {}

LEMMA QueueShapeStep ==
  TypeInv /\ QueueShape /\ [Next]_vars => QueueShape'
<1> SUFFICES ASSUME TypeInv, QueueShape, [Next]_vars PROVE QueueShape'
  OBVIOUS
<1> USE DEF Goto
<1>1. CASE \E error : Fail(error)
  BY <1>1 DEF Fail, inputVars, queueVars, QueueShape
<1>2. CASE NewSimulationState
  BY <1>2 DEF NewSimulationState, inputVars, QueueShape, TypeInv, NothingStarted
<1>3. CASE NextEventTick \/ CompletionsDone \/ ArrivalsDone
  BY <1>3 DEF NextEventTick, CompletionsDone, ArrivalsDone, inputVars, queueVars, QueueShape
<1>4. CASE CompleteJob
  <2>1. CASE ~ \E error : Fail(error)
    <3>1. pc = "complete" /\ pc' = "complete" /\ UNCHANGED <<policy, queueVars>>
      BY <1>4, <2>1 DEF CompleteJob, inputVars
    <3> QED BY <3>1 DEF queueVars, QueueShape
  <2> QED BY <1>1, <2>1
<1>5. CASE ArriveJob
  BY <1>5 DEF ArriveJob, inputVars, QueueShape
<1>6. CASE TryAdmit
  <2>1. pc = "admit"
    BY <1>6 DEF TryAdmit
  <2>2. PICK i, placed :
          \/ Fail(AdmissionError(i, placed))
          \/ Retain(i) /\ UNCHANGED <<future, blockingJob, running>>
          \/ Goto("admit") /\ UNCHANGED <<future, retained, blockingJob>>
    BY <1>6 DEF TryAdmit
  <2>3. CASE Retain(i) /\ UNCHANGED <<future, blockingJob, running>>
    BY <2>1, <2>3 DEF Retain, inputVars, QueueShape, PolicyStrictFIFO, PolicyBackfill
  <2>4. CASE Goto("admit") /\ UNCHANGED <<future, retained, blockingJob>>
    BY <2>1, <2>4 DEF inputVars, QueueShape
  <2> QED BY <1>1, <2>2, <2>3, <2>4
<1>7. CASE AdmissionDone
  BY <1>7 DEF AdmissionDone, inputVars, QueueShape
<1>8. CASE LeaveLoop
  BY <1>8 DEF LeaveLoop, WorkRemains, inputVars, queueVars, QueueShape
<1>9. CASE TerminalizePending
  <2>1. CASE ~ \E error : Fail(error)
    BY <1>9, <2>1 DEF TerminalizePending, inputVars, queueVars, QueueShape
  <2> QED BY <1>1, <2>1
<1>10. CASE UnscheduleUnplaceable
  <2>1. PICK i, reason : \/ \E error : Fail(error)
                         \/ MarkUnscheduled(i, reason) /\ blockingJob' = Blocker(i)
    BY <1>10 DEF UnscheduleUnplaceable
  <2>2. CASE MarkUnscheduled(i, reason) /\ blockingJob' = Blocker(i)
    <3>1. /\ pc = "unschedule" /\ pc' = "unschedule" /\ blockingJob' = Blocker(i)
          /\ UNCHANGED <<policy, future, retained, running>>
      BY <1>10, <2>2 DEF UnscheduleUnplaceable, MarkUnscheduled, inputVars
    <3> QED BY <3>1 DEF Blocker, QueueShape
  <2> QED BY <1>1, <2>1, <2>2
<1>11. CASE UnscheduleBlocked
  BY <1>11 DEF UnscheduleBlocked, MarkUnscheduled, inputVars, QueueShape
<1>12. CASE Finish
  <2>1. CASE ~ \E error : Fail(error)
    BY <1>12, <2>1 DEF Finish, inputVars, queueVars, QueueShape
  <2> QED BY <1>1, <2>1
<1>13. CASE Cancel \/ UNCHANGED vars
  BY <1>13 DEF Cancel, vars, inputVars, queueVars, QueueShape
<1>14. CASE RejectInput \/ Canceled
  BY <1>1, <1>14 DEF RejectInput, Canceled
<1> QED BY <1>2, <1>3, <1>4, <1>5, <1>6, <1>7, <1>8, <1>9, <1>10, <1>11, <1>12, <1>13, <1>14
        DEF Next, Step, Terminated

\* Between admission cycles no job that the policy may admit fits; within one,
\* no job that was passed over does; and while the leftovers are reported, none
\* of them fits unless a blocked head speaks for them.
Quiet ==
  /\ pc \in {"loop", "terminalize", "unschedule"} /\ blockingJob = 0 =>
       \A k \in DOMAIN pending :
         (policy = PolicyStrictFIFO => k = 1) => ~ Fits(pending[k])
  /\ pc = "admit" => \A k \in DOMAIN retained : ~ Fits(retained[k])

\* An admission makes no job fit that did not.
LEMMA AdmissionMakesNoRoom ==
  ASSUME TypeInv, TypeInv', NEW i \in JobIndexes, NEW placed \in Place(i),
         Admits(i, placed), NEW j \in JobIndexes, ~ Fits(j)
  PROVE  ~ Fits(j)'
<1>1. pc \notin {"start", "failed"} /\ UNCHANGED <<jobs, nodes>>
  BY DEF Admits, inputVars
<1>2. PlacementInput(nodes, remaining, jobs[i]) /\ PlacementInput(nodes, remaining, jobs[j])
  BY <1>1, PlacementCalled
<1>3. \A n \in DOMAIN placed.allocation, d \in Dim :
        ResourcesForReplicas(jobs[i].resourcesPerReplica, placed.allocation[n])[d]
          \in 0 .. remaining[n][d]
  BY <1>2, PlacedAllocation DEF Admits, Place
<1>4. /\ remaining \in [DOMAIN nodes -> [Dim -> NonNegInt64]]
      /\ jobs[j].resourcesPerReplica \in [Dim -> Nat] /\ jobs[j].replicas \in Nat
  BY <1>2, MaxInt64Assumption DEF PlacementInput, PosInt64
<1>5. remaining' = Consumed(remaining, jobs[i], placed.allocation)
  BY DEF Admits, Admit
<1>6. /\ remaining' \in [DOMAIN nodes -> [Dim -> NonNegInt64]]
      /\ \A n \in DOMAIN nodes, d \in Dim : remaining'[n][d] <= remaining[n][d]
  BY <1>3, <1>4, <1>5, ConsumedType, ConsumedIsLess
<1>7. ~ Feasible(nodes, remaining', jobs[j])
  BY <1>4, <1>6, FeasibleMonotone DEF Fits
<1> QED BY <1>1, <1>7 DEF Fits

LEMMA QuietStep ==
  TypeInv /\ TypeInv' /\ QueueShape /\ Quiet /\ [Next]_vars => Quiet'
<1> SUFFICES ASSUME TypeInv, TypeInv', QueueShape, Quiet, [Next]_vars PROVE Quiet'
  OBVIOUS
<1> USE DEF Goto
<1>0. pending \in Seq(JobIndexes) /\ retained \in Seq(JobIndexes)
  BY DEF TypeInv, TypeOK
<1>1. CASE pc' \notin {"loop", "terminalize", "unschedule", "admit"}
  BY <1>1 DEF Quiet
<1>2. CASE \E error : Fail(error)
  BY <1>1, <1>2 DEF Fail
<1>3. CASE NewSimulationState
  <2>1. pending' = <<>> /\ pc' = "loop"
    BY <1>3 DEF NewSimulationState, TypeInv, NothingStarted
  <2> QED BY <2>1 DEF Quiet
<1>4. CASE NextEventTick \/ CompletionsDone \/ ArriveJob
  BY <1>1, <1>4 DEF NextEventTick, CompletionsDone, ArriveJob
<1>5. CASE CompleteJob \/ Finish
  BY <1>1, <1>2, <1>5 DEF CompleteJob, Finish
<1>6. CASE ArrivalsDone
  <2>1. retained' = <<>> /\ pc' = "admit"
    BY <1>6 DEF ArrivalsDone, queueVars, QueueShape
  <2> QED BY <2>1 DEF Quiet
<1>7. CASE TryAdmit
  <2>1. pc = "admit" /\ pending # <<>>
    BY <1>7 DEF TryAdmit
  <2>2. PICK i \in JobIndexes : i = Head(pending)
    BY <1>0, <2>1
  <2>3. PICK placed \in Place(i) :
          \/ Fail(AdmissionError(i, placed))
          \/ /\ placed.kind = "rejected" /\ Retain(i)
             /\ UNCHANGED <<nodeVars, blockingJob>>
          \/ /\ AdmissionError(i, placed) = "none" /\ placed.kind = "placed"
             /\ Admit(i, placed)
             /\ pending' = Tail(pending)
             /\ Goto("admit")
             /\ UNCHANGED <<tick, nodes, future, retained, blockingJob>>
    BY <1>7, <2>2 DEF TryAdmit
  <2>4. CASE /\ placed.kind = "rejected" /\ Retain(i)
             /\ UNCHANGED <<nodeVars, blockingJob>>
    <3>1. ~ Fits(i)
      <4>1. PlacementInput(nodes, remaining, jobs[i])
        BY <2>1, PlacementCalled
      <4> QED BY <2>4, <4>1, PlacedExactlyWhenFeasible DEF Place, Fits
    <3>2. UNCHANGED <<jobs, policy, nodes, remaining>>
      BY <2>4 DEF Retain, inputVars, nodeVars
    <3>3. \A j : Fits(j)' <=> Fits(j)
      BY <3>2 DEF Fits
    <3>4. CASE policy = PolicyStrictFIFO /\ pc' = "loop" /\ pending' = pending
      <4>1. pending[1] = i
        BY <1>0, <2>1, <2>2
      <4> QED BY <3>1, <3>2, <3>3, <3>4, <4>1 DEF Quiet
    <3>5. CASE pc' = "admit" /\ retained' = Append(retained, i)
      <4>1. ASSUME NEW k \in DOMAIN retained' PROVE ~ Fits(retained'[k])
        <5>1. CASE k \in DOMAIN retained
          <6>1. retained'[k] = retained[k]
            BY <1>0, <3>5, <5>1
          <6> QED BY <2>1, <5>1, <6>1 DEF Quiet
        <5>2. CASE k \notin DOMAIN retained
          <6>1. retained'[k] = i
            BY <1>0, <3>5, <5>2
          <6> QED BY <3>1, <6>1
        <5> QED BY <5>1, <5>2
      <4> QED BY <3>3, <3>5, <4>1 DEF Quiet
    <3> QED BY <2>4, <3>4, <3>5 DEF Retain
  <2>5. CASE /\ AdmissionError(i, placed) = "none" /\ placed.kind = "placed"
             /\ Admit(i, placed)
             /\ pending' = Tail(pending)
             /\ Goto("admit")
             /\ UNCHANGED <<tick, nodes, future, retained, blockingJob>>
    <3>1. Admits(i, placed)
      BY <2>1, <2>2, <2>5 DEF Admits, AdmissionError
    <3>2. \A k \in DOMAIN retained : retained[k] \in JobIndexes /\ ~ Fits(retained[k])
      BY <1>0, <2>1 DEF Quiet
    <3>3. \A k \in DOMAIN retained : ~ Fits(retained[k])'
      BY <2>5, <3>1, <3>2, AdmissionMakesNoRoom
    <3> QED BY <2>5, <3>3 DEF Quiet
  <2> QED BY <1>2, <2>3, <2>4, <2>5
<1>8. CASE AdmissionDone
  <2>1. /\ pc = "admit" /\ pc' = "loop" /\ pending' = retained
        /\ UNCHANGED <<jobs, policy, nodes, remaining>>
    BY <1>8 DEF AdmissionDone, inputVars, nodeVars
  <2>2. \A j : Fits(j)' <=> Fits(j)
    BY <2>1 DEF Fits
  <2> QED BY <2>1, <2>2 DEF Quiet
<1>9. CASE LeaveLoop \/ Cancel \/ UNCHANGED vars
  <2>1. /\ pc' = pc \/ (pc = "loop" /\ pc' = "terminalize")
        /\ UNCHANGED <<jobs, policy, nodes, remaining, pending, retained, blockingJob>>
    BY <1>9 DEF LeaveLoop, Cancel, vars, inputVars, nodeVars, queueVars
  <2>2. \A j : Fits(j)' <=> Fits(j)
    BY <2>1 DEF Fits
  <2> QED BY <2>1, <2>2 DEF Quiet
<1>10. CASE TerminalizePending
  <2>1. CASE ~ \E error : Fail(error)
    <3>1. /\ pc = "terminalize" /\ pc' = "unschedule"
          /\ UNCHANGED <<jobs, policy, nodes, remaining, pending, blockingJob>>
      BY <1>10, <2>1 DEF TerminalizePending, inputVars, nodeVars, queueVars
    <3>2. \A j : Fits(j)' <=> Fits(j)
      BY <3>1 DEF Fits
    <3> QED BY <3>1, <3>2 DEF Quiet
  <2> QED BY <1>2, <2>1
<1>11. CASE UnscheduleUnplaceable
  <2>1. pc = "unschedule" /\ blockingJob = 0 /\ pending # <<>>
    BY <1>11 DEF UnscheduleUnplaceable
  <2>2. PICK i \in JobIndexes : i = Head(pending)
    BY <1>0, <2>1
  <2>3. PICK reason : \/ \E error : Fail(error)
                      \/ MarkUnscheduled(i, reason) /\ blockingJob' = Blocker(i)
    BY <1>11, <2>2 DEF UnscheduleUnplaceable
  <2>4. CASE MarkUnscheduled(i, reason) /\ blockingJob' = Blocker(i)
    <3>1. /\ pc' = "unschedule" /\ pending' = Tail(pending)
          /\ UNCHANGED <<jobs, policy, nodes, remaining>>
      BY <2>4 DEF MarkUnscheduled, inputVars, nodeVars
    <3>2. \A j : Fits(j)' <=> Fits(j)
      BY <3>1 DEF Fits
    <3>3. CASE policy = PolicyStrictFIFO
      <4>1. i # 0
        <5>1. jobs \in Seq(Job)
          BY DEF TypeInv, TypeOK
        <5> QED BY <5>1 DEF JobIndexes
      <4>2. blockingJob' # 0
        BY <2>4, <3>3, <4>1 DEF Blocker
      <4> QED BY <3>1, <4>2 DEF Quiet
    <3>4. CASE policy # PolicyStrictFIFO
      <4>1. \A k \in DOMAIN pending' : k + 1 \in DOMAIN pending /\ pending'[k] = pending[k + 1]
        BY <1>0, <2>1, <3>1
      <4>2. \A k \in DOMAIN pending : ~ Fits(pending[k])
        BY <2>1, <3>4 DEF Quiet
      <4> QED BY <3>1, <3>2, <4>1, <4>2 DEF Quiet
    <3> QED BY <3>3, <3>4
  <2> QED BY <1>2, <2>3, <2>4
<1>12. CASE UnscheduleBlocked
  <2>1. blockingJob' # 0 /\ pc' = "unschedule"
    BY <1>12 DEF UnscheduleBlocked, MarkUnscheduled
  <2> QED BY <2>1 DEF Quiet
<1>13. CASE RejectInput \/ Canceled
  BY <1>2, <1>13 DEF RejectInput, Canceled
<1> QED BY <1>3, <1>4, <1>5, <1>6, <1>7, <1>8, <1>9, <1>10, <1>11, <1>12, <1>13
        DEF Next, Step, Terminated

LEMMA QueueShapeCorrect == Spec => []QueueShape
<1>1. Init => QueueShape
  BY DEF Init, QueueShape
<1> QED BY <1>1, TypeInvCorrect, QueueShapeStep, PTL DEF Spec

LEMMA QuietCorrect == Spec => []Quiet
<1>1. Init => Quiet
  BY DEF Init, Quiet
<1> QED BY <1>1, TypeInvCorrect, QueueShapeCorrect, QuietStep, PTL DEF Spec

(***************************************************************************)
(* One scan of the queue is enough: when an admission cycle ends, no job   *)
(* the policy may admit fits, whatever was admitted after it was tried.    *)
(***************************************************************************)
THEOREM QueueBecomesQuiescent == Spec => []QueueQuiescent
<1>1. QueueShape /\ Quiet => QueueQuiescent
  BY DEF QueueShape, Quiet, QueueQuiescent
<1> QED BY <1>1, QueueShapeCorrect, QuietCorrect, PTL

-----------------------------------------------------------------------------
(***************************************************************************)
(* Which errors a simulation can end with.                                 *)
(***************************************************************************)
\* The counters are those of the lifecycles.
Counts ==
  /\ stats.completed = Cardinality(WithStatus(LifecycleCompleted))
  /\ stats.unscheduled = Cardinality(WithStatus(LifecycleUnscheduled))

\* What an event changes of the aggregates.
LEMMA AppendEventKeeps ==
  ASSUME NEW s \in StatsType, NEW type, NEW i, AppendEvent(s, type, i)
  PROVE  /\ stats'.totalDelay = s.totalDelay /\ stats'.maxDelay = s.maxDelay
         /\ stats'.completed = s.completed /\ stats'.unscheduled = s.unscheduled
         /\ stats'.startTick = (IF events = <<>> THEN tick ELSE s.startTick)
         /\ stats'.endTick = tick
BY DEF AppendEvent, StatsType

\* What a completion adds up.
LEMMA CompletionStats ==
  ASSUME TypeInv, NEW i \in JobIndexes, Completes(i)
  PROVE  LET delay == lifecycle[i].queueDelay
         IN  /\ stats'.totalDelay = stats.totalDelay + delay
             /\ stats'.maxDelay = (IF delay > stats.maxDelay THEN delay ELSE stats.maxDelay)
             /\ stats'.completed = stats.completed + 1
             /\ stats'.unscheduled = stats.unscheduled
             /\ stats'.startTick = (IF events = <<>> THEN tick ELSE stats.startTick)
             /\ stats'.endTick = tick
BY DEF Completes, AppendEvent, TypeInv, TypeOK

LEMMA StatusesFinite ==
  ASSUME TypeInv, NEW status
  PROVE  IsFiniteSet(WithStatus(status)) /\ IsFiniteSet(JobIndexes)
<1>1. /\ JobIndexes = 1 .. Len(jobs) /\ Len(jobs) \in Nat
      /\ DOMAIN lifecycle \subseteq JobIndexes
  BY DEF TypeInv, TypeOK, JobIndexes
<1>2. IsFiniteSet(JobIndexes)
  BY <1>1, FS_Interval
<1> QED BY <1>1, <1>2, FS_Subset DEF WithStatus

\* Whose status a step changes.
LEMMA StatusChange ==
  ASSUME TypeInv, Partition, [Next]_vars
  PROVE  \/ /\ \A status : status # StatusNone => WithStatus(status) = {}
            /\ \A status : status # StatusNone => WithStatus(status)' = {}
            /\ UNCHANGED stats /\ Begins
         \/ /\ \A status : WithStatus(status)' = WithStatus(status)
            /\ \/ Passes \/ \E i \in JobIndexes : Arrives(i)
               \/ \E i \in JobIndexes : \E placed \in Place(i) : Admits(i, placed)
         \/ \E i \in JobIndexes :
              /\ Completes(i)
              /\ i \notin WithStatus(LifecycleCompleted)
              /\ WithStatus(LifecycleCompleted)' = WithStatus(LifecycleCompleted) \cup {i}
              /\ WithStatus(LifecycleUnscheduled)' = WithStatus(LifecycleUnscheduled)
         \/ \E i \in JobIndexes : \E reason :
              /\ GivesUp(i, reason)
              /\ i \notin WithStatus(LifecycleUnscheduled)
              /\ WithStatus(LifecycleUnscheduled)' = WithStatus(LifecycleUnscheduled) \cup {i}
              /\ WithStatus(LifecycleCompleted)' = WithStatus(LifecycleCompleted)
<1>1. TypeOK /\ \A i \in DOMAIN lifecycle : LifecycleOK(lifecycle[i]) /\ InOnePlace(i)
  BY DEF TypeInv, TypeOK, Partition
<1>2. pc \notin {"start", "failed"} => DOMAIN lifecycle = JobIndexes
  BY DEF TypeInv, InputsValidated
<1>3. CASE Begins
  <2>1. /\ \A i \in DOMAIN lifecycle' : lifecycle'[i].status = StatusNone
        /\ UNCHANGED stats /\ pc = "start"
    BY <1>3 DEF Begins, NewSimulationState
  <2>2. \A i \in DOMAIN lifecycle : lifecycle[i].status = StatusNone
    BY <2>1 DEF TypeInv, NothingStarted
  <2> QED BY <1>3, <2>1, <2>2 DEF WithStatus
<1>4. CASE Passes \/ \E i \in JobIndexes : Arrives(i)
  BY <1>4 DEF Passes, Arrives, WithStatus
<1>5. CASE \E i \in JobIndexes : \E placed \in Place(i) : Admits(i, placed)
  <2>1. PICK i \in JobIndexes : \E placed \in Place(i) : Admits(i, placed)
    BY <1>5
  <2>2. PICK placed \in Place(i) : Admits(i, placed)
    BY <2>1
  <2>3. /\ DOMAIN lifecycle' = DOMAIN lifecycle
        /\ \A j \in DOMAIN lifecycle : lifecycle'[j].status = lifecycle[j].status
    BY <1>1, <2>2 DEF Admits, Admit, StartedLifecycle, LifecycleOK
  <2> QED BY <1>5, <2>3 DEF WithStatus
<1>6. CASE \E i \in JobIndexes : Completes(i)
  <2>1. PICK i \in JobIndexes : Completes(i)
    BY <1>6
  <2>2. i \in DOMAIN lifecycle /\ i \in DOMAIN running
    BY <1>2, <2>1 DEF Completes
  <2>3. lifecycle[i].status # LifecycleCompleted /\ lifecycle[i].status # LifecycleUnscheduled
    BY <1>1, <2>2 DEF InOnePlace, IsAt
  <2>4. /\ DOMAIN lifecycle' = DOMAIN lifecycle
        /\ \A j \in DOMAIN lifecycle :
             lifecycle'[j].status = IF j = i THEN LifecycleCompleted ELSE lifecycle[j].status
    BY <1>1, <2>1, <2>2 DEF Completes, CompletedLifecycle, LifecycleOK
  <2>5. WithStatus(LifecycleCompleted)' = WithStatus(LifecycleCompleted) \cup {i}
    BY <2>2, <2>4 DEF WithStatus
  <2>6. WithStatus(LifecycleUnscheduled)' = WithStatus(LifecycleUnscheduled)
    BY <2>2, <2>3, <2>4 DEF WithStatus, LifecycleCompleted, LifecycleUnscheduled
  <2> QED BY <2>1, <2>3, <2>5, <2>6 DEF WithStatus
<1>7. CASE \E i \in JobIndexes : \E reason : GivesUp(i, reason)
  <2>1. PICK i \in JobIndexes : \E reason : GivesUp(i, reason)
    BY <1>7
  <2>2. PICK reason : GivesUp(i, reason)
    BY <2>1
  <2>3. i \in DOMAIN lifecycle
    BY <1>2, <2>2 DEF GivesUp
  <2>4. IsAt(i, FALSE, TRUE, FALSE, FALSE, FALSE)
    BY <1>1, <1>2, <2>2, HeadLeavesQueue DEF GivesUp
  <2>5. /\ DOMAIN lifecycle' = DOMAIN lifecycle
        /\ \A j \in DOMAIN lifecycle :
             lifecycle'[j].status = IF j = i THEN LifecycleUnscheduled ELSE lifecycle[j].status
    BY <1>1, <2>2, <2>3 DEF GivesUp, LifecycleOK
  <2>6. WithStatus(LifecycleUnscheduled)' = WithStatus(LifecycleUnscheduled) \cup {i}
    BY <2>3, <2>5 DEF WithStatus
  <2>7. WithStatus(LifecycleCompleted)' = WithStatus(LifecycleCompleted)
    BY <2>3, <2>4, <2>5 DEF WithStatus, IsAt, LifecycleCompleted, LifecycleUnscheduled
  <2> QED BY <2>2, <2>4, <2>6, <2>7 DEF WithStatus, IsAt
<1> QED BY <1>3, <1>4, <1>5, <1>6, <1>7, StepKinds

LEMMA CountsStep == TypeInv /\ Partition /\ Counts /\ [Next]_vars => Counts'
<1> SUFFICES ASSUME TypeInv, Partition, Counts, [Next]_vars PROVE Counts'
  OBVIOUS
<1>1. stats \in StatsType
  BY DEF TypeInv, TypeOK, StatsType
<1>2. \A status : IsFiniteSet(WithStatus(status))
  BY StatusesFinite
<1>3. CASE /\ \A status : status # StatusNone => WithStatus(status) = {}
           /\ \A status : status # StatusNone => WithStatus(status)' = {}
           /\ UNCHANGED stats
  <2>1. LifecycleCompleted # StatusNone /\ LifecycleUnscheduled # StatusNone
    BY DEF StatusNone, LifecycleCompleted, LifecycleUnscheduled
  <2>2. /\ WithStatus(LifecycleCompleted)' = WithStatus(LifecycleCompleted)
        /\ WithStatus(LifecycleUnscheduled)' = WithStatus(LifecycleUnscheduled)
    BY <1>3, <2>1
  <2> QED BY <1>3, <2>2 DEF Counts
<1>4. CASE /\ \A status : WithStatus(status)' = WithStatus(status)
           /\ \/ Passes \/ \E i \in JobIndexes : Arrives(i)
              \/ \E i \in JobIndexes : \E placed \in Place(i) : Admits(i, placed)
  <2>1. CASE Passes
    <3>1. /\ stats'.completed = stats.completed
          /\ stats'.unscheduled = stats.unscheduled
      BY <1>1, <2>1 DEF Passes, StatsType
    <3> QED BY <1>4, <3>1 DEF Counts
  <2>2. CASE \E i \in JobIndexes : Arrives(i)
    <3>1. \E i : AppendEvent(stats, EventArrived, i)
      BY <2>2 DEF Arrives
    <3> QED BY <1>1, <1>4, <3>1, AppendEventKeeps DEF Counts
  <2>3. CASE \E i \in JobIndexes : \E placed \in Place(i) : Admits(i, placed)
    <3>1. \E i : AppendEvent(stats, EventAdmitted, i)
      BY <2>3 DEF Admits, Admit
    <3> QED BY <1>1, <1>4, <3>1, AppendEventKeeps DEF Counts
  <2> QED BY <1>4, <2>1, <2>2, <2>3
<1>5. ASSUME NEW i \in JobIndexes, Completes(i),
             i \notin WithStatus(LifecycleCompleted),
             WithStatus(LifecycleCompleted)' = WithStatus(LifecycleCompleted) \cup {i},
             WithStatus(LifecycleUnscheduled)' = WithStatus(LifecycleUnscheduled)
      PROVE  Counts'
  <2>1. Cardinality(WithStatus(LifecycleCompleted) \cup {i})
          = Cardinality(WithStatus(LifecycleCompleted)) + 1
    BY <1>2, <1>5, FS_AddElement
  <2> QED BY <1>5, <2>1, CompletionStats DEF Counts
<1>6. ASSUME NEW i \in JobIndexes, NEW reason, GivesUp(i, reason),
             i \notin WithStatus(LifecycleUnscheduled),
             WithStatus(LifecycleUnscheduled)' = WithStatus(LifecycleUnscheduled) \cup {i},
             WithStatus(LifecycleCompleted)' = WithStatus(LifecycleCompleted)
      PROVE  Counts'
  <2>1. Cardinality(WithStatus(LifecycleUnscheduled) \cup {i})
          = Cardinality(WithStatus(LifecycleUnscheduled)) + 1
    BY <1>2, <1>6, FS_AddElement
  <2>2. /\ stats'.completed = stats.completed
        /\ stats'.unscheduled = stats.unscheduled + 1
    BY <1>1, <1>6 DEF GivesUp, StatsType
  <2> QED BY <1>6, <2>1, <2>2 DEF Counts
<1> QED BY <1>3, <1>4, <1>5, <1>6, StatusChange

LEMMA CountsCorrect == Spec => []Counts
<1>1. Init => Counts
  <2> SUFFICES ASSUME Init PROVE Counts
    OBVIOUS
  <2>1. /\ stats.completed = 0 /\ stats.unscheduled = 0
        /\ \A status : WithStatus(status) = {}
    BY DEF Init, WithStatus
  <2> QED BY <2>1, FS_EmptySet DEF Counts
<1> QED BY <1>1, TypeInvCorrect, PartitionCorrect, CountsStep, PTL DEF Spec

\* An error a caller can explain: not an internal one, and an overflow only
\* where there is one.
Justified(error) ==
  /\ error \notin InternalErrors
  /\ error = "finish tick overflow" =>
       LET i == Head(pending)
       IN  Fits(i) /\ tick + jobs[i].durationTicks > MaxInt64
  /\ error = "total delay overflow" =>
       \E i \in DOMAIN running :
         /\ running[i].finishTick = tick
         /\ stats.totalDelay + lifecycle[i].queueDelay > MaxInt64

ErrorsJustified == Justified(err) /\ (pc # "failed" => err = "none")

LEMMA InputErrorsJustified ==
  \A error \in InputErrors \cup {"none"} : Justified(error)
BY DEF InputErrors, NilContext, InternalErrors, Justified

LEMMA FailJustified ==
  ASSUME NEW error, Fail(error), Justified(error)
  PROVE  ErrorsJustified'
<1>1. /\ pc' = "failed" /\ err' = error
      /\ UNCHANGED <<jobs, tick, nodes, remaining, pending, running, lifecycle, stats>>
  BY DEF Fail, inputVars, nodeVars, queueVars, resultVars
<1>2. \A i : Fits(i)' <=> Fits(i)
  BY <1>1 DEF Fits
<1> QED BY <1>1, <1>2 DEF Justified, ErrorsJustified

LEMMA ContinuesJustified ==
  ASSUME err = "none", err' = err
  PROVE  ErrorsJustified'
BY DEF InternalErrors, Justified, ErrorsJustified

\* What a running job holds can be given back.
LEMMA CompletionReleases ==
  ASSUME StateInv, Lives, pc = "complete", NEW i \in DOMAIN running
  PROVE  ReleaseAccepted(nodes, remaining, jobs[i], running[i].allocation)
<1> PICK alloc : alloc = running[i].allocation
  OBVIOUS
<1>1. /\ TypeInv /\ TypeOK /\ ResourceConservation /\ i \in JobIndexes
      /\ DOMAIN lifecycle = JobIndexes /\ ValidateTimedJobs(jobs)
  BY DEF StateInv, TypeInv, TypeOK, InputsValidated
<1>2. /\ jobs[i].resourcesPerReplica \in [Dim -> Nat] /\ jobs[i].replicas \in PosInt64
      /\ \E d \in Dim : jobs[i].resourcesPerReplica[d] # 0
  BY <1>1, ValidJob DEF TypeOK
<1>3. /\ nodes \in [NodeNames -> NodeInfo]
      /\ remaining \in [NodeNames -> [Dim -> NonNegInt64]]
      /\ DOMAIN alloc \subseteq NodeNames /\ alloc \in [DOMAIN alloc -> PosInt64]
  BY <1>1 DEF TypeOK, RunningOK, IsAllocation
<1>4. \A n \in NodeNames, d \in Dim : remaining[n][d] <= nodes[n].capacity[d]
  BY <1>1, RemainingBelowCapacity
<1>5. SumFunction(alloc) = jobs[i].replicas
  BY <1>1 DEF Lives, LifeOK, StartOK, GangPlaced, RunOK
<1>6. ASSUME NEW n \in DOMAIN alloc, NEW d \in Dim
      PROVE  ResourcesForReplicas(jobs[i].resourcesPerReplica, alloc[n])[d]
               <= nodes[n].capacity[d] - remaining[n][d]
  <2> DEFINE held == [j \in JobIndexes |-> Held(j, n, d)]
  <2>1. IsFiniteSet(JobIndexes) /\ \A j \in JobIndexes : held[j] \in Nat
    BY <1>1, HeldType, StatusesFinite
  <2>2. SumFunctionOnSet(held, JobIndexes) >= held[i]
    <3> HIDE DEF held
    <3> QED BY <1>1, <2>1, SumAtLeast
  <2>3. Held(i, n, d) = ResourcesForReplicas(jobs[i].resourcesPerReplica, alloc[n])[d]
    BY DEF Held
  <2>4. TotalHeld(n, d) >= Held(i, n, d) /\ Held(i, n, d) \in Nat
    BY <1>1, <2>1, <2>2 DEF TotalHeld
  <2>5. /\ remaining[n][d] + TotalHeld(n, d) = nodes[n].capacity[d]
        /\ remaining[n][d] \in Nat /\ nodes[n].capacity[d] \in Nat /\ TotalHeld(n, d) \in Nat
    BY <1>1, <1>3, RemainingBelowCapacity DEF ResourceConservation
  <2> QED BY <2>3, <2>4, <2>5
<1> QED BY <1>2, <1>3, <1>4, <1>5, <1>6, ReleaseIsAccepted

LEMMA CompletionJustified ==
  ASSUME StateInv, Lives, pc = "complete", NEW i \in DOMAIN running, DueJob(i)
  PROVE  Justified(CompletionError(i))
<1>1. /\ TypeInv /\ TypeOK /\ i \in DOMAIN lifecycle
  BY DEF StateInv, TypeInv, TypeOK, InputsValidated
<1>2. Started(i) /\ StartOK(i)
  BY <1>1 DEF Lives, LifeOK
<1>3. lifecycle[i].startTick # NoTick
  BY <1>2 DEF Started
<1> PICK delay : delay = lifecycle[i].queueDelay
  OBVIOUS
<1>4. delay \in Int /\ delay >= 0 /\ delay # NoTick
  <2>1. /\ delay \in Int /\ lifecycle[i].startTick \in Int /\ jobs[i].arrivalTick \in Int
    BY <1>1, TicksAreNumbers
  <2>2. /\ jobs[i].arrivalTick <= lifecycle[i].startTick
        /\ delay = lifecycle[i].startTick - jobs[i].arrivalTick
    BY <1>2 DEF StartOK
  <2> QED BY <2>1, <2>2 DEF NoTick
<1>5. stats.totalDelay \in Int
  BY <1>1, MaxInt64Assumption DEF TypeOK, NonNegInt64
<1>6. ReleaseAccepted(nodes, remaining, jobs[i], running[i].allocation) /\ ~ (delay < 0)
  BY <1>4, CompletionReleases
<1>7. CompletionError(i) = IF stats.totalDelay > MaxInt64 - delay
                           THEN "total delay overflow" ELSE "none"
  BY <1>3, <1>4, <1>6 DEF CompletionError
<1>8. CASE stats.totalDelay > MaxInt64 - delay
  <2>1. stats.totalDelay + delay > MaxInt64 /\ running[i].finishTick = tick
    BY <1>4, <1>5, <1>8, MaxInt64Assumption DEF DueJob
  <2> QED BY <1>7, <1>8, <2>1 DEF Justified, InternalErrors
<1>9. CASE ~ (stats.totalDelay > MaxInt64 - delay)
  BY <1>7, <1>9, InputErrorsJustified
<1> QED BY <1>8, <1>9

\* A placement that is tried is not too early, does not fail, and can be undone.
LEMMA AdmissionJustified ==
  ASSUME StateInv, Lives, pc = "admit", pending # <<>>, NEW placed \in Place(Head(pending))
  PROVE  Justified(AdmissionError(Head(pending), placed))
<1> PICK i : i = Head(pending)
  OBVIOUS
<1>1. /\ TypeInv /\ TypeOK /\ Partition /\ ResourceConservation
      /\ pending \in Seq(JobIndexes) /\ DOMAIN lifecycle = JobIndexes
  BY DEF StateInv, TypeInv, TypeOK, InputsValidated
<1>2. i \in JobIndexes
  BY <1>1
<1>3. PlacementInput(nodes, remaining, jobs[i])
  BY <1>1, <1>2, PlacementCalled
<1>4. ~ (tick < jobs[i].arrivalTick)
  <2>1. i \in Queued
    <3>1. /\ retained \in Seq(JobIndexes) /\ Len(retained) + 1 \in DOMAIN Queue
          /\ Queue[Len(retained) + 1] = i
      BY <1>1 DEF Queue, TypeOK
    <3> QED BY <3>1 DEF Queued, Range
  <2>2. i \notin future
    BY <1>1, <1>2, <2>1 DEF Partition, InOnePlace, IsAt
  <2>3. jobs[i].arrivalTick <= tick
    BY <1>1, <1>2, <2>2 DEF Lives, LifeOK
  <2> QED BY <1>1, <1>2, <2>3, TicksAreNumbers
<1>5. placed.kind = IF Fits(i) THEN "placed" ELSE "rejected"
  BY <1>3, PlacedExactlyWhenFeasible DEF Fits, Place
<1>6. placed.kind = "placed" =>
        ReleaseAccepted(nodes, Consumed(remaining, jobs[i], placed.allocation),
                        jobs[i], placed.allocation)
  <2>1. \A n \in DOMAIN nodes, d \in Dim : remaining[n][d] <= nodes[n].capacity[d]
    BY <1>1, RemainingBelowCapacity DEF NodeNames
  <2>2. nodes \in [DOMAIN nodes -> NodeInfo]
    BY <1>1 DEF TypeOK, NodeNames
  <2> QED BY <1>3, <2>1, <2>2, RollbackAccepted DEF Place
<1>7. AdmissionError(i, placed) =
        IF placed.kind = "placed" /\ FinishTickOverflows(i)
        THEN "finish tick overflow" ELSE "none"
  BY <1>4, <1>5, <1>6 DEF AdmissionError
<1>8. CASE placed.kind = "placed" /\ FinishTickOverflows(i)
  <2>1. /\ tick \in Int /\ jobs[i].durationTicks \in Int
        /\ tick > MaxInt64 - jobs[i].durationTicks
    BY <1>1, <1>2, <1>8, TicksAreNumbers DEF FinishTickOverflows
  <2>2. Fits(i) /\ tick + jobs[i].durationTicks > MaxInt64
    BY <1>5, <1>8, <2>1, MaxInt64Assumption
  <2> QED BY <1>7, <1>8, <2>2 DEF Justified, InternalErrors
<1>9. CASE ~ (placed.kind = "placed" /\ FinishTickOverflows(i))
  BY <1>7, <1>9, InputErrorsJustified
<1> QED BY <1>8, <1>9

\* When nothing runs, nothing is held, and the cluster is idle.
LEMMA IdleWhenNothingRuns ==
  ASSUME StateInv, pc \notin {"start", "failed"}, DOMAIN running = {}
  PROVE  /\ \A n \in NodeNames :
              /\ remaining[n] = nodes[n].capacity
              /\ ValidateNodeResourceState(nodes[n].capacity, remaining[n])
         /\ remaining = IdleCluster
<1>1. TypeInv /\ TypeOK /\ ResourceConservation
  BY DEF StateInv, TypeInv
<1>2. ASSUME NEW n \in NodeNames, NEW d \in Dim
      PROVE  remaining[n][d] = nodes[n].capacity[d] /\ remaining[n][d] \in Nat
  <2> DEFINE held == [j \in JobIndexes |-> Held(j, n, d)]
  <2>1. IsFiniteSet(JobIndexes) /\ \A j \in JobIndexes : held[j] = 0
    BY <1>1, StatusesFinite DEF Held
  <2>2. SumFunctionOnSet(held, JobIndexes) = 0
    <3> HIDE DEF held
    <3> QED BY <2>1, SumZero
  <2>3. TotalHeld(n, d) = 0
    BY <2>2 DEF TotalHeld
  <2>4. /\ remaining[n][d] + TotalHeld(n, d) = nodes[n].capacity[d]
        /\ remaining[n][d] \in Nat
    BY <1>1, RemainingBelowCapacity DEF ResourceConservation
  <2> QED BY <2>3, <2>4
<1>3. /\ remaining \in [NodeNames -> [Dim -> NonNegInt64]]
      /\ \A n \in NodeNames : nodes[n].capacity \in [Dim -> NonNegInt64]
  BY <1>1 DEF TypeOK, NodeInfo
<1>4. \A n \in NodeNames : remaining[n] = nodes[n].capacity
  BY <1>2, <1>3
<1>5. \A n \in NodeNames : ValidateNodeResourceState(nodes[n].capacity, remaining[n])
  BY <1>2 DEF ValidateNodeResourceState
<1>6. remaining = IdleCluster
  BY <1>3, <1>4 DEF IdleCluster, IdleResources, NodeNames
<1> QED BY <1>4, <1>5, <1>6

LEMMA DisjointCardinality ==
  ASSUME NEW A, IsFiniteSet(A), NEW B, IsFiniteSet(B), A \cap B = {}
  PROVE  Cardinality(A \cup B) = Cardinality(A) + Cardinality(B)
<1>1. Cardinality(A) \in Nat /\ Cardinality(B) \in Nat
  BY FS_CardinalityType
<1>2. Cardinality(A \cup B) = Cardinality(A) + Cardinality(B) - Cardinality(A \cap B)
  BY FS_Union
<1>3. Cardinality(A \cap B) = 0
  BY FS_EmptySet
<1> QED BY <1>1, <1>2, <1>3

\* At the end every job has completed or is unscheduled.
LEMMA IntervalSize == \A n \in Nat : Cardinality(1 .. n) = n
BY FS_Interval

LEMMA EveryJobCounted ==
  ASSUME StateInv, QueueShape, Counts, pc = "unschedule", pending = <<>>
  PROVE  /\ WithStatus(LifecycleCompleted) \cup WithStatus(LifecycleUnscheduled) = JobIndexes
         /\ stats.completed + stats.unscheduled = Len(jobs)
<1>1. /\ TypeInv /\ Partition /\ DOMAIN lifecycle = JobIndexes
      /\ JobIndexes = 1 .. Len(jobs) /\ Len(jobs) \in Nat
  BY DEF StateInv, TypeInv, TypeOK, InputsValidated, JobIndexes
<1>2. future = {} /\ DOMAIN running = {} /\ retained = <<>>
  BY DEF QueueShape
<1>3. Queued = {}
  <2>1. Queue = <<>>
    BY <1>2 DEF Queue
  <2> QED BY <2>1 DEF Queued, Range
<1>4. \A i \in JobIndexes : \/ lifecycle[i].status = LifecycleCompleted
                            \/ lifecycle[i].status = LifecycleUnscheduled
  BY <1>1, <1>2, <1>3 DEF Partition, InOnePlace, IsAt
<1>5. WithStatus(LifecycleCompleted) \cup WithStatus(LifecycleUnscheduled) = JobIndexes
  BY <1>1, <1>4 DEF WithStatus
<1>6. WithStatus(LifecycleCompleted) \cap WithStatus(LifecycleUnscheduled) = {}
  BY DEF WithStatus, LifecycleCompleted, LifecycleUnscheduled
<1>7. /\ IsFiniteSet(WithStatus(LifecycleCompleted))
      /\ IsFiniteSet(WithStatus(LifecycleUnscheduled))
  BY <1>1, StatusesFinite
<1>8. Cardinality(JobIndexes) = Len(jobs)
  BY <1>1, IntervalSize
<1>9. Cardinality(JobIndexes) = Cardinality(WithStatus(LifecycleCompleted))
                                  + Cardinality(WithStatus(LifecycleUnscheduled))
  BY <1>5, <1>6, <1>7, DisjointCardinality
<1> QED BY <1>5, <1>8, <1>9 DEF Counts

\* Each failing step has a justified error.
LEMMA ErrorsStep ==
  /\ StateInv /\ Lives /\ QueueShape /\ Quiet /\ Counts
  /\ ErrorsJustified /\ [Next]_vars
  => ErrorsJustified'
<1> SUFFICES ASSUME StateInv, Lives, QueueShape, Quiet, Counts, ErrorsJustified, [Next]_vars
             PROVE  ErrorsJustified'
  OBVIOUS
<1> USE DEF Goto
<1>0. TypeInv /\ TypeOK /\ pending \in Seq(JobIndexes)
  BY DEF StateInv, TypeInv, TypeOK
<1>1. pc # "failed" => err = "none"
  BY DEF ErrorsJustified
<1>2. ASSUME \E error \in InputErrors : Fail(error) PROVE ErrorsJustified'
  BY <1>2, FailJustified, InputErrorsJustified
<1>3. CASE RejectInput
  BY <1>2, <1>3 DEF RejectInput, InputError, InputErrors
<1>4. CASE Canceled
  BY <1>2, <1>4 DEF Canceled, InputErrors
<1>5. CASE UNCHANGED vars
  <2>1. \A i : Fits(i)' <=> Fits(i)
    BY <1>5 DEF vars, inputVars, nodeVars, Fits
  <2> QED BY <1>5, <2>1
          DEF vars, inputVars, nodeVars, queueVars, resultVars, ErrorsJustified, Justified
<1>6. CASE \/ NewSimulationState \/ NextEventTick \/ CompletionsDone \/ ArriveJob
           \/ ArrivalsDone \/ AdmissionDone \/ LeaveLoop \/ UnscheduleBlocked \/ Cancel
  <2>1. pc # "failed" /\ err' = err
    BY <1>6 DEF NewSimulationState, NextEventTick, CompletionsDone, ArriveJob, ArrivalsDone,
                AdmissionDone, LeaveLoop, UnscheduleBlocked, MarkUnscheduled, Cancel, Terminal
  <2> QED BY <1>1, <2>1, ContinuesJustified
<1>7. CASE CompleteJob
  <2>1. PICK i \in DOMAIN running :
          DueJob(i) /\ (Fail(CompletionError(i)) \/ UNCHANGED err)
    BY <1>7 DEF CompleteJob
  <2>2. pc = "complete"
    BY <1>7 DEF CompleteJob
  <2>3. Justified(CompletionError(i))
    BY <2>1, <2>2, CompletionJustified
  <2> QED BY <1>1, <2>1, <2>2, <2>3, FailJustified, ContinuesJustified
<1>8. CASE TryAdmit
  <2>1. pc = "admit" /\ pending # <<>>
    BY <1>8 DEF TryAdmit
  <2>2. PICK placed \in Place(Head(pending)) :
          Fail(AdmissionError(Head(pending), placed)) \/ UNCHANGED err
    BY <1>8 DEF TryAdmit, Retain
  <2>3. Justified(AdmissionError(Head(pending), placed))
    BY <2>1, AdmissionJustified
  <2> QED BY <1>1, <2>1, <2>2, <2>3, FailJustified, ContinuesJustified
<1>9. CASE TerminalizePending
  <2>1. pc = "terminalize"
    BY <1>9 DEF TerminalizePending
  <2>2. future = {} /\ DOMAIN running = {}
    BY <2>1 DEF QueueShape
  <2>3. TerminalError = "none"
    BY <2>1, <2>2, IdleWhenNothingRuns DEF TerminalError, WorkRemains
  <2>4. UNCHANGED err
    BY <1>9, <2>3 DEF TerminalizePending
  <2> QED BY <1>1, <2>1, <2>4, ContinuesJustified
<1>10. CASE UnscheduleUnplaceable
  <2>1. pc = "unschedule" /\ pending # <<>> /\ blockingJob = 0
    BY <1>10 DEF UnscheduleUnplaceable
  <2>2. PICK i \in JobIndexes : i = Head(pending) /\ i = pending[1] /\ 1 \in DOMAIN pending
    BY <1>0, <2>1
  <2>3. PICK placed \in Place(i) :
          placed.kind = "rejected" => MarkUnscheduled(i, placed.reason)
    BY <1>10, <2>2 DEF UnscheduleUnplaceable
  <2>4. ~ Fits(i)
    BY <2>1, <2>2 DEF Quiet
  <2>5. placed.kind = "rejected"
    <3>1. PlacementInput(nodes, remaining, jobs[i])
      BY <1>0, <2>1, PlacementCalled
    <3> QED BY <2>4, <3>1, PlacedExactlyWhenFeasible DEF Fits, Place
  <2>6. UNCHANGED err
    BY <2>3, <2>5 DEF MarkUnscheduled
  <2> QED BY <1>1, <2>1, <2>6, ContinuesJustified
<1>11. CASE Finish
  <2>1. pc = "unschedule" /\ pending = <<>>
    BY <1>11 DEF Finish
  <2>2. stats.completed + stats.unscheduled = Len(jobs)
    BY <2>1, EveryJobCounted
  <2>3. UNCHANGED err
    BY <1>11, <2>2 DEF Finish
  <2> QED BY <1>1, <2>1, <2>3, ContinuesJustified
<1> QED BY <1>3, <1>4, <1>5, <1>6, <1>7, <1>8, <1>9, <1>10, <1>11
        DEF Next, Step, Terminated

LEMMA ErrorsCorrect == Spec => []ErrorsJustified
<1>1. Init => ErrorsJustified
  <2>1. Init => err = "none" /\ pc = "start"
    BY DEF Init
  <2> QED BY <2>1, InputErrorsJustified DEF ErrorsJustified
<1> QED BY <1>1, StateInvCorrect, LivesCorrect, QueueShapeCorrect, QuietCorrect,
           CountsCorrect, ErrorsStep, PTL DEF Spec

(***************************************************************************)
(* No internal error of the simulator can be reached: what runs can be     *)
(* released, what fits is placed and can be rolled back, the cluster is    *)
(* idle when the queue is terminalized, no leftover fits, and the final    *)
(* count adds up.                                                          *)
(***************************************************************************)
THEOREM NoInternalErrorOccurs == Spec => []NoInternalError
<1>1. ErrorsJustified => NoInternalError
  BY DEF ErrorsJustified, Justified, NoInternalError
<1> QED BY <1>1, ErrorsCorrect, PTL

(***************************************************************************)
(* An overflow that is reported is one: a job that fits but could not end  *)
(* by MaxInt64, or completed delays beyond it.                             *)
(***************************************************************************)
THEOREM OverflowsAreReal == Spec => []OverflowIsReal
<1>1. ErrorsJustified => OverflowIsReal
  BY DEF ErrorsJustified, Justified, OverflowIsReal
<1> QED BY <1>1, ErrorsCorrect, PTL

-----------------------------------------------------------------------------
(***************************************************************************)
(* What a step may not change of a job's life.                             *)
(***************************************************************************)
DecisionKept(i) ==
  LET old == lifecycle[i]
      new == lifecycle'[i]
  IN  /\ old.startTick # NoTick =>
           /\ new.startTick = old.startTick /\ new.queueDelay = old.queueDelay
           /\ new.domain = old.domain /\ new.allocation = old.allocation
      /\ old.status # StatusNone => new = old

LEMMA DecisionsKept ==
  ASSUME StateInv, Lives, [Next]_vars
  PROVE  \A i \in DOMAIN lifecycle : DecisionKept(i)
<1>1. /\ TypeInv /\ TypeOK
      /\ \A i \in DOMAIN lifecycle : InOnePlace(i) /\ LifecycleOK(lifecycle[i]) /\ LifeOK(i)
  BY DEF StateInv, TypeInv, TypeOK, Partition, Lives
<1>2. pc \notin {"start", "failed"} => DOMAIN lifecycle = JobIndexes
  BY <1>1 DEF TypeInv, InputsValidated
<1>3. CASE Begins
  BY <1>1, <1>3 DEF Begins, NewSimulationState, TypeInv, NothingStarted
<1>4. CASE Passes \/ \E i \in JobIndexes : Arrives(i)
  BY <1>4 DEF Passes, Arrives, DecisionKept
<1>5. CASE \E i \in JobIndexes : Completes(i)
  <2>1. PICK i \in JobIndexes : Completes(i)
    BY <1>5
  <2>2. i \in DOMAIN lifecycle /\ lifecycle[i].status = StatusNone
    BY <1>1, <1>2, <2>1 DEF Completes, InOnePlace, IsAt, LifecycleOK
  <2>3. DecisionKept(i)
    BY <1>1, <2>1, <2>2 DEF Completes, CompletedLifecycle, LifecycleOK, DecisionKept
  <2>4. \A j \in DOMAIN lifecycle \ {i} : lifecycle'[j] = lifecycle[j]
    BY <2>1 DEF Completes
  <2> QED BY <2>3, <2>4 DEF DecisionKept
<1>6. CASE \E i \in JobIndexes : \E placed \in Place(i) : Admits(i, placed)
  <2>1. PICK i \in JobIndexes : \E placed \in Place(i) : Admits(i, placed)
    BY <1>6
  <2>2. PICK placed \in Place(i) : Admits(i, placed)
    BY <2>1
  <2>3. IsAt(i, FALSE, TRUE, FALSE, FALSE, FALSE) /\ i \in DOMAIN lifecycle
    BY <1>1, <1>2, <2>2, HeadLeavesQueue DEF Admits, StateInv
  <2>4. lifecycle[i].status = StatusNone /\ lifecycle[i].startTick = NoTick
    BY <1>1, <2>3 DEF IsAt, LifecycleOK, LifeOK, Started
  <2>5. \A j \in DOMAIN lifecycle \ {i} : lifecycle'[j] = lifecycle[j]
    BY <2>2 DEF Admits, Admit
  <2> QED BY <2>4, <2>5 DEF DecisionKept
<1>7. CASE \E i \in JobIndexes : \E reason : GivesUp(i, reason)
  <2>1. PICK i \in JobIndexes : \E reason : GivesUp(i, reason)
    BY <1>7
  <2>2. PICK reason : GivesUp(i, reason)
    BY <2>1
  <2>3. IsAt(i, FALSE, TRUE, FALSE, FALSE, FALSE) /\ i \in DOMAIN lifecycle
    BY <1>1, <1>2, <2>2, HeadLeavesQueue DEF GivesUp, StateInv
  <2>4. lifecycle[i].status = StatusNone
    BY <1>1, <2>3 DEF IsAt, LifecycleOK
  <2>5. DecisionKept(i)
    BY <1>1, <2>2, <2>3, <2>4 DEF GivesUp, LifecycleOK, DecisionKept
  <2>6. \A j \in DOMAIN lifecycle \ {i} : lifecycle'[j] = lifecycle[j]
    BY <2>2 DEF GivesUp
  <2> QED BY <2>5, <2>6 DEF DecisionKept
<1> QED BY <1>1, <1>3, <1>4, <1>5, <1>6, <1>7, StepKinds

(***************************************************************************)
(* A job's admission is decided once, and a terminal status is final.      *)
(***************************************************************************)
THEOREM LifecyclesAreFrozen == Spec => LifecycleFrozen
<1>1. StateInv /\ Lives /\ [Next]_vars =>
        [\A i \in DOMAIN lifecycle :
           LET old == lifecycle[i]
               new == lifecycle'[i]
           IN  /\ old.startTick # NoTick =>
                    /\ new.startTick = old.startTick /\ new.queueDelay = old.queueDelay
                    /\ new.domain = old.domain /\ new.allocation = old.allocation
               /\ old.status # StatusNone => new = old]_vars
  BY DecisionsKept DEF DecisionKept
<1> QED BY <1>1, StateInvCorrect, LivesCorrect, PTL DEF Spec, LifecycleFrozen

-----------------------------------------------------------------------------
(***************************************************************************)
(* Who is left over, and why.                                              *)
(***************************************************************************)
Left == WithStatus(LifecycleUnscheduled)

\* No job is left over before the end; a job that is left over does not fit the
\* idle cluster, or is behind strict FIFO's blocking job.
LeftOver ==
  /\ pc \notin Ending => Left = {}
  /\ \A i \in Left :
       \/ /\ blockingJob = 0 \/ i = blockingJob
          /\ ~ FitsIdleCluster(i) /\ lifecycle[i].reason.code # "head_of_line_blocked"
       \/ /\ blockingJob # 0 /\ i # blockingJob /\ ArrivesBefore(blockingJob, i)
          /\ lifecycle[i].reason = HeadOfLineReason(jobs[blockingJob].name)
  /\ policy = PolicyStrictFIFO /\ Left # {} => blockingJob # 0
  /\ blockingJob # 0 => /\ blockingJob \in Left
                        /\ \A k \in DOMAIN pending : ArrivesBefore(blockingJob, pending[k])

\* The leftovers stay what they are when neither they nor the queue change.
LEMMA LeftOverKept ==
  ASSUME TypeInv, LeftOver, UNCHANGED <<jobs, policy, nodes, lifecycle, pending, blockingJob>>,
         pc \in Ending => pc' \in Ending
  PROVE  LeftOver'
<1>1. Left' = Left
  BY DEF Left, WithStatus
<1>2. /\ \A i : FitsIdleCluster(i)' <=> FitsIdleCluster(i)
      /\ \A i, j : ArrivesBefore(i, j)' <=> ArrivesBefore(i, j)
  BY DEF FitsIdleCluster, IdleCluster, ArrivesBefore
<1> QED BY <1>1, <1>2 DEF LeftOver

\* When the queue is terminalized, its head is behind no other job.
LEMMA PendingSorted ==
  ASSUME StateInv, pending # <<>>, retained = <<>>
  PROVE  /\ Head(pending) = pending[1] /\ 1 \in DOMAIN pending
         /\ \A k \in DOMAIN Tail(pending) :
              /\ Tail(pending)[k] = pending[k + 1] /\ k + 1 \in DOMAIN pending
              /\ ArrivesBefore(Head(pending), Tail(pending)[k])
<1>1. pending \in Seq(JobIndexes) /\ QueueInArrivalOrder /\ Queue = pending
  BY DEF StateInv, TypeInv, TypeOK, QueueOrder, Queue
<1>2. /\ Head(pending) = pending[1] /\ 1 \in DOMAIN pending
      /\ \A k \in DOMAIN Tail(pending) :
           /\ Tail(pending)[k] = pending[k + 1] /\ k + 1 \in DOMAIN pending /\ 1 < k + 1
  BY <1>1
<1> QED BY <1>1, <1>2 DEF QueueInArrivalOrder

LEMMA LeftOverStep ==
  StateInv /\ StateInv' /\ QueueShape /\ QueueShape' /\ LeftOver /\ [Next]_vars => LeftOver'
<1> SUFFICES ASSUME StateInv, StateInv', QueueShape, QueueShape', LeftOver, [Next]_vars
             PROVE  LeftOver'
  OBVIOUS
<1> USE DEF Left
<1>1. TypeInv /\ TypeInv' /\ Partition /\ TypeOK
  BY DEF StateInv, TypeInv
<1>2. pc \notin {"start", "failed"} => DOMAIN lifecycle = JobIndexes
  BY <1>1 DEF TypeInv, InputsValidated
<1>3. pc \notin Ending => Left = {} /\ blockingJob = 0
  BY DEF LeftOver, QueueShape, Ending
<1>4. ASSUME Left' = {}, blockingJob' = 0 PROVE LeftOver'
  BY <1>4 DEF LeftOver
<1>5. CASE Begins
  BY <1>4, <1>5 DEF Begins, NewSimulationState, Goto, WithStatus, StatusNone,
                    LifecycleUnscheduled, QueueShape
<1>6. CASE Passes
  <2>1. UNCHANGED <<jobs, policy, nodes, lifecycle, blockingJob>>
    BY <1>6 DEF Passes, inputVars, nodeVars
  <2>2. CASE pc \in Ending
    <3>1. pc' \in Ending /\ pending' = pending
      BY <1>6, <2>2 DEF Passes, Ending
    <3> QED BY <1>1, <2>1, <3>1, LeftOverKept
  <2>3. CASE pc \notin Ending
    BY <1>3, <1>4, <2>1, <2>3 DEF WithStatus
  <2> QED BY <2>2, <2>3
<1>7. CASE \/ \E i \in JobIndexes : Completes(i)
           \/ \E i \in JobIndexes : Arrives(i)
           \/ \E i \in JobIndexes : \E placed \in Place(i) : Admits(i, placed)
  <2>1. pc \notin Ending /\ blockingJob' = blockingJob /\ pc # "start"
    BY <1>7 DEF Completes, Arrives, Admits, queueVars, Ending
  <2>2. WithStatus(LifecycleUnscheduled)' = WithStatus(LifecycleUnscheduled)
    <3>1. pc' # "unschedule"
      BY <1>7 DEF Completes, Arrives, Admits
    <3> QED BY <1>1, <2>1, <3>1, StatusChange DEF Begins, NewSimulationState, GivesUp, Ending
  <2> QED BY <1>3, <1>4, <2>1, <2>2
<1>8. CASE \E i \in JobIndexes : \E reason : GivesUp(i, reason)
  <2>1. PICK i \in JobIndexes : \E reason : GivesUp(i, reason)
    BY <1>8
  <2>2. PICK reason : GivesUp(i, reason)
    BY <2>1
  <2>3. /\ pc = "unschedule" /\ pc' \in Ending /\ pending # <<>> /\ i = Head(pending)
        /\ UNCHANGED <<jobs, policy, nodes>> /\ pending' = Tail(pending)
        /\ retained = <<>> /\ i \in DOMAIN lifecycle /\ DOMAIN running = {}
    BY <1>2, <2>2 DEF GivesUp, inputVars, nodeVars, QueueShape, Ending
  <2>4. /\ DOMAIN lifecycle' = DOMAIN lifecycle
        /\ lifecycle'[i].status = LifecycleUnscheduled /\ lifecycle'[i].reason = reason
        /\ \A j \in DOMAIN lifecycle \ {i} : lifecycle'[j] = lifecycle[j]
    BY <1>1, <2>2, <2>3 DEF GivesUp, TypeOK, LifecycleOK
  <2>5. IsAt(i, FALSE, TRUE, FALSE, FALSE, FALSE)
    BY <1>1, <1>2, <2>2, <2>3, HeadLeavesQueue DEF GivesUp
  <2>6. Left' = Left \cup {i} /\ i \notin Left
    BY <2>3, <2>4, <2>5 DEF WithStatus, IsAt
  <2>7. /\ \A j : FitsIdleCluster(j)' <=> FitsIdleCluster(j)
        /\ \A j, k : ArrivesBefore(j, k)' <=> ArrivesBefore(j, k)
    BY <2>3 DEF FitsIdleCluster, IdleCluster, ArrivesBefore
  <2>8. /\ \A k \in DOMAIN pending' : ArrivesBefore(i, pending'[k])
        /\ \A k \in DOMAIN pending' : \E l \in DOMAIN pending : pending'[k] = pending[l]
        /\ \E l \in DOMAIN pending : i = pending[l]
    BY <2>3, PendingSorted
  <2>9. i # 0
    BY <1>1 DEF TypeOK, JobIndexes
  <2>10. CASE /\ blockingJob = 0 /\ blockingJob' = Blocker(i)
              /\ \E placed \in Place(i) : placed.kind = "rejected" /\ placed.reason = reason
    <3>1. PICK placed \in Place(i) : placed.kind = "rejected" /\ placed.reason = reason
      BY <2>10
    <3>2. PlacementInput(nodes, remaining, jobs[i])
      BY <1>1, <2>3, PlacementCalled
    <3>3. reason.code # "head_of_line_blocked"
      BY <3>1, <3>2, RefusalReason DEF Place
    <3>4. ~ FitsIdleCluster(i)
      <4>1. ~ Feasible(nodes, remaining, jobs[i])
        BY <3>1, <3>2, PlacedExactlyWhenFeasible DEF Place
      <4>2. remaining = IdleCluster
        BY <2>3, IdleWhenNothingRuns
      <4> QED BY <4>1, <4>2 DEF FitsIdleCluster
    <3>5. CASE policy = PolicyStrictFIFO
      <4>1. Left = {} /\ blockingJob' = i
        BY <2>10, <3>5 DEF LeftOver, Blocker
      <4> QED BY <2>3, <2>4, <2>6, <2>7, <2>8, <2>9, <3>3, <3>4, <4>1 DEF LeftOver
    <3>6. CASE policy # PolicyStrictFIFO
      <4>1. blockingJob' = 0
        BY <2>10, <3>6 DEF Blocker
      <4>2. ASSUME NEW j \in Left
            PROVE  ~ FitsIdleCluster(j) /\ lifecycle'[j].reason.code # "head_of_line_blocked"
        BY <2>4, <2>6, <2>10, <4>2 DEF LeftOver, WithStatus
      <4> QED BY <2>3, <2>4, <2>6, <2>7, <3>3, <3>4, <3>6, <4>1, <4>2 DEF LeftOver
    <3> QED BY <3>5, <3>6
  <2>11. CASE /\ blockingJob # 0 /\ blockingJob' = blockingJob
              /\ reason = HeadOfLineReason(jobs[blockingJob].name)
    <3>1. blockingJob \in Left /\ blockingJob # i /\ ArrivesBefore(blockingJob, i)
      BY <2>6, <2>8, <2>11 DEF LeftOver
    <3>2. \A k \in DOMAIN pending' : ArrivesBefore(blockingJob, pending'[k])
      BY <2>8, <2>11 DEF LeftOver
    <3>3. ASSUME NEW j \in Left
          PROVE  \/ /\ j = blockingJob /\ ~ FitsIdleCluster(j)
                    /\ lifecycle'[j].reason.code # "head_of_line_blocked"
                 \/ /\ j # blockingJob /\ ArrivesBefore(blockingJob, j)
                    /\ lifecycle'[j].reason = HeadOfLineReason(jobs[blockingJob].name)
      <4>1. j # i /\ j \in DOMAIN lifecycle
        BY <2>6 DEF WithStatus
      <4>2. lifecycle'[j] = lifecycle[j]
        BY <2>4, <4>1
      <4> QED BY <2>11, <4>2 DEF LeftOver
    <3> QED BY <2>3, <2>4, <2>6, <2>7, <2>11, <3>1, <3>2, <3>3 DEF LeftOver
  <2> QED BY <2>2, <2>10, <2>11 DEF GivesUp
<1> QED BY <1>1, <1>5, <1>6, <1>7, <1>8, StepKinds

LEMMA LeftOverCorrect == Spec => []LeftOver
<1>1. Init => LeftOver
  BY DEF Init, LeftOver, Left, WithStatus
<1> QED BY <1>1, StateInvCorrect, QueueShapeCorrect, LeftOverStep, PTL DEF Spec

\* The order of arrival is total.
LEMMA ArrivalOrder ==
  ASSUME TypeInv, NEW i \in DOMAIN lifecycle, NEW j \in DOMAIN lifecycle
  PROVE  /\ ~ (ArrivesBefore(i, j) /\ ArrivesBefore(j, i))
         /\ i = j \/ ArrivesBefore(i, j) \/ ArrivesBefore(j, i)
         /\ ~ ArrivesBefore(i, i)
<1>1. i \in Int /\ j \in Int
  BY DEF TypeInv, TypeOK, JobIndexes
<1>2. jobs[i].arrivalTick \in Int /\ jobs[j].arrivalTick \in Int
  BY TicksAreNumbers
<1> QED BY <1>1, <1>2 DEF ArrivesBefore

\* Under strict FIFO, when the head of the queue is admitted every job that
\* arrived before it has started, and at no later tick.
LEMMA HeadIsNext ==
  ASSUME StateInv, QueueShape, Lives, LeftOver, policy = PolicyStrictFIFO,
         pc = "admit", pending # <<>>,
         NEW j \in DOMAIN lifecycle, ArrivesBefore(j, Head(pending))
  PROVE  Started(j) /\ lifecycle[j].startTick <= tick
<1>1. /\ TypeInv /\ Partition /\ QueueInArrivalOrder /\ QueueBeforeFuture
      /\ DOMAIN lifecycle = JobIndexes /\ pending \in Seq(JobIndexes)
  BY DEF StateInv, QueueOrder, TypeInv, InputsValidated, TypeOK
<1>2. retained = <<>> /\ Queue = pending
  BY <1>1 DEF QueueShape, Queue
<1>3. Head(pending) = Queue[1] /\ 1 \in DOMAIN Queue /\ Queue[1] \in DOMAIN lifecycle
  BY <1>1, <1>2
<1>4. j \notin future
  BY <1>1, <1>3, ArrivalOrder DEF QueueBeforeFuture
<1>5. j \notin Queued
  <2>1. SUFFICES ASSUME NEW k \in DOMAIN Queue, Queue[k] = j PROVE FALSE
    BY DEF Queued, Range
  <2>2. k = 1 \/ 1 < k
    BY <1>1, <1>2
  <2> QED BY <1>1, <1>3, <2>1, <2>2, ArrivalOrder DEF QueueInArrivalOrder
<1>6. j \notin Left
  BY DEF LeftOver, Ending
<1>7. j \in DOMAIN running \/ lifecycle[j].status = LifecycleCompleted
  BY <1>1, <1>4, <1>5, <1>6 DEF Partition, InOnePlace, IsAt, Left, WithStatus
<1> QED BY <1>7 DEF Lives, LifeOK, StartOK

LEMMA StrictOrderStep ==
  /\ StateInv /\ QueueShape /\ Lives /\ LeftOver
  /\ StrictAdmitsInArrivalOrder /\ [Next]_vars
  => StrictAdmitsInArrivalOrder'
<1> SUFFICES ASSUME StateInv, QueueShape, Lives, LeftOver,
                    StrictAdmitsInArrivalOrder, [Next]_vars
             PROVE  StrictAdmitsInArrivalOrder'
  OBVIOUS
<1>1. /\ TypeInv /\ TypeOK /\ Partition
      /\ \A i \in DOMAIN lifecycle : InOnePlace(i) /\ LifecycleOK(lifecycle[i]) /\ LifeOK(i)
  BY DEF StateInv, TypeInv, TypeOK, Partition, Lives
<1>2. pc \notin {"start", "failed"} => DOMAIN lifecycle = JobIndexes
  BY <1>1 DEF TypeInv, InputsValidated
<1>3. ASSUME UNCHANGED <<jobs, policy>>, DOMAIN lifecycle' = DOMAIN lifecycle,
             \A i \in DOMAIN lifecycle : lifecycle'[i].startTick = lifecycle[i].startTick
      PROVE  StrictAdmitsInArrivalOrder'
  BY <1>3 DEF StrictAdmitsInArrivalOrder, Started, ArrivesBefore
<1>4. CASE Begins
  <2>1. \A i \in DOMAIN lifecycle' : lifecycle'[i].startTick = NoTick
    BY <1>4 DEF Begins, NewSimulationState
  <2> QED BY <2>1 DEF StrictAdmitsInArrivalOrder, Started
<1>5. CASE Passes \/ \E i \in JobIndexes : Arrives(i)
  BY <1>3, <1>5 DEF Passes, Arrives, inputVars
<1>6. CASE \/ \E i \in JobIndexes : Completes(i)
           \/ \E i \in JobIndexes : \E reason : GivesUp(i, reason)
  <2>1. UNCHANGED <<jobs, policy>> /\ DOMAIN lifecycle' = DOMAIN lifecycle
    BY <1>6 DEF Completes, GivesUp, inputVars
  <2>2. \A i \in DOMAIN lifecycle : lifecycle'[i].startTick = lifecycle[i].startTick
    <3>1. CASE \E i \in JobIndexes : Completes(i)
      BY <1>1, <3>1 DEF Completes, CompletedLifecycle, LifecycleOK
    <3>2. CASE \E i \in JobIndexes : \E reason : GivesUp(i, reason)
      <4>1. PICK i \in JobIndexes : \E reason : GivesUp(i, reason)
        BY <3>2
      <4>2. PICK reason : GivesUp(i, reason)
        BY <4>1
      <4> QED BY <1>1, <4>2 DEF GivesUp, LifecycleOK
    <3> QED BY <1>6, <3>1, <3>2
  <2> QED BY <1>3, <2>1, <2>2
<1>7. CASE \E i \in JobIndexes : \E placed \in Place(i) : Admits(i, placed)
  <2>1. PICK i \in JobIndexes : \E placed \in Place(i) : Admits(i, placed)
    BY <1>7
  <2>2. PICK placed \in Place(i) : Admits(i, placed)
    BY <2>1
  <2>3. /\ DOMAIN lifecycle' = DOMAIN lifecycle /\ i \in DOMAIN lifecycle
        /\ pc = "admit" /\ pending # <<>> /\ i = Head(pending)
        /\ UNCHANGED <<jobs, policy>>
    BY <1>2, <2>2 DEF Admits, Admit, inputVars
  <2>4. ~ Started(i)
    <3>1. IsAt(i, FALSE, TRUE, FALSE, FALSE, FALSE)
      BY <1>1, <1>2, <2>2, <2>3, HeadLeavesQueue DEF Admits
    <3> QED BY <1>1, <2>3, <3>1 DEF IsAt, LifeOK
  <2>5. /\ lifecycle'[i].startTick = tick
        /\ \A j \in DOMAIN lifecycle \ {i} : lifecycle'[j] = lifecycle[j]
    BY <1>1, <2>2, <2>3 DEF Admits, Admit, StartedLifecycle, LifecycleOK
  <2>6. tick # NoTick /\ tick \in Int
    <3>1. tick \in NonNegInt64
      BY <1>1, <2>3 DEF TypeInv, TickIsEvent
    <3> QED BY <3>1, MaxInt64Assumption DEF NonNegInt64, NoTick
  <2>7. SUFFICES ASSUME policy = PolicyStrictFIFO,
                        NEW j \in DOMAIN lifecycle, NEW k \in DOMAIN lifecycle,
                        ArrivesBefore(j, k), Started(k)'
                 PROVE  Started(j)' /\ lifecycle'[j].startTick <= lifecycle'[k].startTick
    BY <2>3 DEF StrictAdmitsInArrivalOrder, ArrivesBefore
  <2>8. CASE k = i
    <3>1. Started(j) /\ lifecycle[j].startTick <= tick /\ j # i
      BY <2>3, <2>4, <2>7, <2>8, HeadIsNext
    <3> QED BY <2>5, <2>8, <3>1 DEF Started
  <2>9. CASE k # i
    <3>1. Started(k)
      BY <2>5, <2>7, <2>9 DEF Started
    <3>2. Started(j) /\ lifecycle[j].startTick <= lifecycle[k].startTick
      BY <2>7, <3>1 DEF StrictAdmitsInArrivalOrder
    <3> QED BY <2>4, <2>5, <2>9, <3>2 DEF Started
  <2> QED BY <2>8, <2>9
<1> QED BY <1>1, <1>4, <1>5, <1>6, <1>7, StepKinds

(***************************************************************************)
(* Strict FIFO admits in arrival order: a job never starts before one that *)
(* arrived earlier.                                                        *)
(***************************************************************************)
THEOREM StrictFIFOIsInOrder == Spec => []StrictAdmitsInArrivalOrder
<1>1. Init => StrictAdmitsInArrivalOrder
  BY DEF Init, StrictAdmitsInArrivalOrder
<1> QED BY <1>1, StateInvCorrect, QueueShapeCorrect, LivesCorrect, LeftOverCorrect,
           StrictOrderStep, PTL DEF Spec

\* When the simulation ends, who is left over follows from the leftovers.
LEMMA EndAccounted ==
  ASSUME StateInv, QueueShape, pc = "done"
  PROVE  /\ Left \cup WithStatus(LifecycleCompleted) = JobIndexes
         /\ DOMAIN lifecycle = JobIndexes /\ policy \in Policies
<1>1. /\ TypeInv /\ Partition /\ DOMAIN lifecycle = JobIndexes /\ policy \in Policies
  BY DEF StateInv, TypeInv, InputsValidated
<1>2. future = {} /\ DOMAIN running = {} /\ retained = <<>> /\ pending = <<>>
  BY DEF QueueShape
<1>3. Queued = {}
  <2>1. Queue = <<>>
    BY <1>2 DEF Queue
  <2> QED BY <2>1 DEF Queued, Range
<1>4. \A i \in JobIndexes : \/ lifecycle[i].status = LifecycleCompleted
                            \/ lifecycle[i].status = LifecycleUnscheduled
  BY <1>1, <1>2, <1>3 DEF Partition, InOnePlace, IsAt
<1> QED BY <1>1, <1>4 DEF Left, WithStatus

LEMMA LeftoversFollow ==
  ASSUME StateInv, QueueShape, Lives, LeftOver, StrictAdmitsInArrivalOrder
  PROVE  LeftoversExplained
<1> USE DEF Left
<1> SUFFICES ASSUME pc = "done" PROVE LeftoversExplained
  BY DEF LeftoversExplained
<1>1. /\ TypeInv /\ DOMAIN lifecycle = JobIndexes /\ policy \in Policies
      /\ Left \cup WithStatus(LifecycleCompleted) = JobIndexes
      /\ Left \subseteq JobIndexes
  BY EndAccounted DEF StateInv, WithStatus
<1>2. ASSUME NEW i \in JobIndexes, i \notin Left PROVE Started(i) /\ FitsIdleCluster(i)
  <2>1. lifecycle[i].status = LifecycleCompleted
    BY <1>1, <1>2 DEF WithStatus
  <2> QED BY <1>1, <2>1 DEF Lives, LifeOK, StartOK
<1>3. CASE policy = PolicyBackfill
  <2>1. blockingJob = 0
    BY <1>3 DEF QueueShape, PolicyBackfill, PolicyStrictFIFO
  <2>2. \A i \in Left : ~ FitsIdleCluster(i)
                        /\ lifecycle[i].reason.code # "head_of_line_blocked"
    BY <2>1 DEF LeftOver
  <2>3. Left = {i \in JobIndexes : ~ FitsIdleCluster(i)}
    BY <1>1, <1>2, <2>2
  <2> QED BY <1>3, <2>2, <2>3 DEF LeftoversExplained
<1>4. CASE policy = PolicyStrictFIFO
  <2>1. ASSUME NEW i \in Left
        PROVE  \E j \in JobIndexes : ~ FitsIdleCluster(j) /\ (j = i \/ ArrivesBefore(j, i))
    <3>1. blockingJob # 0 /\ blockingJob \in Left
      BY <1>4, <2>1 DEF LeftOver
    <3>2. ~ FitsIdleCluster(blockingJob)
      BY <3>1 DEF LeftOver
    <3>3. blockingJob = i \/ ArrivesBefore(blockingJob, i)
      BY <2>1, <3>1 DEF LeftOver
    <3> QED BY <1>1, <3>1, <3>2, <3>3
  <2>2. ASSUME NEW i \in JobIndexes, NEW j \in JobIndexes,
               ~ FitsIdleCluster(j), j = i \/ ArrivesBefore(j, i)
        PROVE  i \in Left
    <3>1. j \in Left
      BY <1>2, <2>2
    <3>2. ~ Started(j)
      <4>1. lifecycle[j].status # LifecycleCompleted /\ j \notin DOMAIN running
        BY <3>1 DEF WithStatus, LifecycleCompleted, LifecycleUnscheduled, QueueShape
      <4> QED BY <1>1, <4>1 DEF Lives, LifeOK
    <3> QED BY <1>1, <1>2, <1>4, <2>2, <3>1, <3>2 DEF StrictAdmitsInArrivalOrder
  <2>3. Left = {i \in JobIndexes : \E j \in JobIndexes :
                  ~ FitsIdleCluster(j) /\ (j = i \/ ArrivesBefore(j, i))}
    BY <1>1, <2>1, <2>2
  <2>4. Left # {} =>
          \E head \in Left : \A i \in Left :
            /\ i # head => /\ ArrivesBefore(head, i)
                           /\ lifecycle[i].reason = HeadOfLineReason(jobs[head].name)
            /\ i = head => lifecycle[i].reason.code # "head_of_line_blocked"
    BY <1>4 DEF LeftOver
  <2> QED BY <1>4, <2>3, <2>4 DEF LeftoversExplained
<1> QED BY <1>1, <1>3, <1>4 DEF Policies

(***************************************************************************)
(* Backfill leaves exactly the jobs that do not fit the idle cluster;      *)
(* strict FIFO the first such job and all behind it, which name it.        *)
(***************************************************************************)
THEOREM LeftoversAreExplained == Spec => []LeftoversExplained
BY StateInvCorrect, QueueShapeCorrect, LivesCorrect, LeftOverCorrect,
   StrictFIFOIsInOrder, LeftoversFollow, PTL

-----------------------------------------------------------------------------
(***************************************************************************)
(* The event timeline.                                                     *)
(***************************************************************************)
Last == events[Len(events)]

Follows(a, b) ==
  \/ a.tick < b.tick
  \/ a.tick = b.tick /\ EventRank(a.type) < EventRank(b.type)
  \/ /\ a.tick = b.tick /\ a.type = b.type
     /\ IF a.type = EventAdmitted THEN ArrivesBefore(a.job, b.job)
        ELSE a.job < b.job

\* The last event of the tick being processed comes before all it may yet append.
Timely ==
  events # <<>> =>
    /\ Last.tick <= tick
    /\ pc \in Processing /\ Last.tick = tick =>
         /\ pc = "complete" => Last.type = EventCompleted
         /\ pc = "arrive" => Last.type # EventAdmitted
         /\ Last.type = EventCompleted =>
              \A i \in DOMAIN running : running[i].finishTick = tick => Last.job < i
         /\ Last.type = EventArrived =>
              /\ jobs[Last.job].arrivalTick = tick
              /\ \A i \in future : ArrivesBefore(Last.job, i)
         /\ Last.type = EventAdmitted =>
              \A k \in DOMAIN pending : ArrivesBefore(Last.job, pending[k])

\* An event that follows the last one keeps the timeline ordered.
LEMMA AppendOrdered ==
  ASSUME TypeInv, TimelineOrdered, jobs' = jobs, NEW event,
         events' = Append(events, event), events # <<>> => Follows(Last, event)
  PROVE  TimelineOrdered' /\ events' # <<>> /\ Last' = event
<1>1. /\ events \in Seq(Event) /\ Len(events) \in Nat /\ DOMAIN events = 1 .. Len(events)
      /\ DOMAIN events' = 1 .. Len(events) + 1 /\ Len(events') = Len(events) + 1
      /\ events'[Len(events) + 1] = event
      /\ \A k \in DOMAIN events : events'[k] = events[k]
  <2>1. events \in Seq(Event)
    BY DEF TypeInv, TypeOK
  <2> QED BY <2>1
<1>2. Last' = event /\ events' # <<>>
  BY <1>1 DEF Last
<1>3. ASSUME NEW k \in DOMAIN events' \ {1} PROVE Follows(events'[k - 1], events'[k])
  <2>1. CASE k \in DOMAIN events
    <3>1. k - 1 \in DOMAIN events
      BY <1>1, <1>3, <2>1
    <3> QED BY <1>1, <1>3, <2>1, <3>1 DEF TimelineOrdered, Follows
  <2>2. CASE k \notin DOMAIN events
    <3>1. k = Len(events) + 1 /\ Len(events) \in DOMAIN events /\ events # <<>>
          /\ k - 1 = Len(events)
      BY <1>1, <1>3, <2>2
    <3> QED BY <1>1, <3>1 DEF Last
  <2> QED BY <2>1, <2>2
<1>4. \A a, b : Follows(a, b)' <=> Follows(a, b)
  BY DEF Follows, ArrivesBefore
<1> QED BY <1>2, <1>3 DEF TimelineOrdered, Follows, ArrivesBefore

\* What the simulator appends follows the last event.
LEMMA EventFollows ==
  ASSUME TypeInv, Timely, pc \in Processing, events # <<>>, NEW event,
         event.tick = tick,
         \/ event.type = EventCompleted /\ pc = "complete" /\ event.job \in DOMAIN running
            /\ running[event.job].finishTick = tick
         \/ event.type = EventArrived /\ pc = "arrive" /\ event.job \in future
            /\ jobs[event.job].arrivalTick = tick
         \/ event.type = EventAdmitted /\ \E k \in DOMAIN pending : event.job = pending[k]
  PROVE  Follows(Last, event)
<1> USE DEF EventCompleted, EventArrived, EventAdmitted
<1>1. Last \in Event /\ tick \in Int
  <2>1. events \in Seq(Event) /\ Len(events) \in DOMAIN events
    BY DEF TypeInv, TypeOK
  <2> QED BY <2>1, TicksAreNumbers DEF Last
<1>2. /\ Last.tick \in Int /\ Last.job \in Int
      /\ Last.type \in {EventCompleted, EventArrived, EventAdmitted}
  BY <1>1, MaxInt64Assumption DEF Event, NonNegInt64, JobIndexes, TypeInv, TypeOK
<1>3. Last.tick < tick \/ Last.tick = tick
  BY <1>1, <1>2 DEF Timely
<1>4. CASE Last.tick < tick
  BY <1>4 DEF Follows
<1>5. CASE Last.tick = tick
  <2>1. CASE event.type = EventCompleted
    BY <1>5, <2>1 DEF Timely, Follows
  <2>2. CASE event.type = EventArrived
    <3>1. CASE Last.type = EventCompleted
      BY <1>5, <2>2, <3>1 DEF Follows, EventRank
    <3>2. CASE Last.type # EventCompleted
      <4>1. Last.type = EventArrived
        BY <1>2, <1>5, <2>2, <3>2 DEF Timely
      <4>2. ArrivesBefore(Last.job, event.job) /\ jobs[Last.job].arrivalTick = tick
        BY <1>5, <2>2, <4>1 DEF Timely
      <4>3. Last.job < event.job
        BY <1>1, <2>2, <4>2 DEF ArrivesBefore
      <4> QED BY <1>5, <2>2, <4>1, <4>3 DEF Follows
    <3> QED BY <3>1, <3>2
  <2>3. CASE event.type = EventAdmitted
    <3>1. CASE Last.type # EventAdmitted
      BY <1>2, <1>5, <2>3, <3>1 DEF Follows, EventRank
    <3>2. CASE Last.type = EventAdmitted
      BY <1>5, <2>3, <3>2 DEF Timely, Follows
    <3> QED BY <3>1, <3>2
  <2> QED BY <2>1, <2>2, <2>3
<1> QED BY <1>3, <1>4, <1>5

LEMMA TimelineStep ==
  StateInv /\ StateInv' /\ Timely /\ TimelineOrdered /\ [Next]_vars
  => Timely' /\ TimelineOrdered'
<1> SUFFICES ASSUME StateInv, StateInv', Timely, TimelineOrdered, [Next]_vars
             PROVE  Timely' /\ TimelineOrdered'
  OBVIOUS
<1>1. /\ TypeInv /\ TypeInv' /\ TypeOK /\ NoEventMissed /\ QueueInArrivalOrder
      /\ tick \in Int /\ tick <= tick
      /\ pending \in Seq(JobIndexes) /\ retained \in Seq(JobIndexes)
  <2>1. TypeInv /\ TypeInv' /\ TypeOK /\ NoEventMissed /\ QueueInArrivalOrder
    BY DEF StateInv, TypeInv, QueueOrder
  <2>2. tick \in Int
    BY <2>1, TicksAreNumbers
  <2> QED BY <2>1, <2>2 DEF TypeOK
<1>2. CASE Begins
  <2>1. events = <<>> /\ events' = <<>>
    BY <1>1, <1>2 DEF Begins, NewSimulationState, TypeInv, NothingStarted
  <2> QED BY <2>1 DEF Timely, TimelineOrdered
<1>3. CASE Passes
  <2>1. UNCHANGED <<jobs, events, running, future>> /\ Last' = Last
    BY <1>3 DEF Passes, inputVars, Last
  <2>2. TimelineOrdered'
    BY <2>1 DEF TimelineOrdered, ArrivesBefore
  <2>3. Timely'
    <3> SUFFICES ASSUME events # <<>> PROVE Timely'
      BY <2>1 DEF Timely
    <3>1. Last.tick <= tick /\ Last.tick \in Int /\ tick' \in Int
      <4>1. Last \in Event
        BY <1>1 DEF Last, TypeOK
      <4>2. tick' \in Int
        <5>1. tick' \in Ticks
          BY <1>1 DEF TypeInv, TypeOK
        <5> QED BY <5>1, MaxInt64Assumption DEF Ticks, NonNegInt64, NoTick
      <4> QED BY <4>1, <4>2, MaxInt64Assumption DEF Timely, Event, NonNegInt64
    <3>2. CASE tick < tick'
      BY <1>1, <2>1, <3>1, <3>2 DEF Timely
    <3>3. CASE tick' = tick /\ pc' \in Processing
      <4>1. pc \in Processing /\ (pc' = pc \/ <<pc, pc'>> \in {<<"complete", "arrive">>, <<"arrive", "admit">>})
        <5>1. ~ NextEventTick
          <6>1. NextEventTick => tick < tick'
            BY <1>1, <3>1 DEF NextEventTick, NoEventMissed, EventTicks
          <6> QED BY <1>1, <3>3, <6>1
        <5> QED BY <1>3, <3>3, <5>1 DEF Passes, MovesOn, Processing
      <4>2. \A k \in DOMAIN pending' : \E l \in DOMAIN pending : pending'[k] = pending[l]
        <5>1. pc' # "loop"
          BY <3>3 DEF Processing
        <5>2. CASE pending' = pending
          BY <5>2
        <5>3. CASE pending # <<>> /\ pending' = Tail(pending)
          <6>1. \A k \in DOMAIN Tail(pending) :
                  k + 1 \in DOMAIN pending /\ Tail(pending)[k] = pending[k + 1]
            BY <1>1, <5>3
          <6> QED BY <5>3, <6>1
        <5> QED BY <1>3, <5>1, <5>2, <5>3 DEF Passes
      <4>3. \A i, j : ArrivesBefore(i, j)' <=> ArrivesBefore(i, j)
        BY <2>1 DEF ArrivesBefore
      <4>4. Last.tick = tick =>
              /\ pc' = "complete" => Last.type = EventCompleted
              /\ pc' = "arrive" => Last.type # EventAdmitted
        BY <4>1 DEF Timely, EventCompleted, EventAdmitted
      <4> QED BY <2>1, <3>1, <3>3, <4>1, <4>2, <4>3, <4>4 DEF Timely
    <3>4. CASE tick' = tick /\ pc' \notin Processing
      BY <2>1, <3>1, <3>4 DEF Timely
    <3> QED BY <1>1, <1>3, <3>2, <3>3, <3>4, PassesForward
  <2> QED BY <2>2, <2>3
<1>4. CASE \E i \in JobIndexes : Completes(i)
  <2>1. PICK i \in JobIndexes : Completes(i)
    BY <1>4
  <2> PICK event : event = [tick |-> tick, type |-> EventCompleted, job |-> i]
    OBVIOUS
  <2>2. /\ pc = "complete" /\ UNCHANGED <<jobs, tick, future, pending>>
        /\ events' = Append(events, event) /\ i \in DOMAIN running
        /\ running[i].finishTick = tick /\ IsHeapHead(i) /\ pc' = "complete"
        /\ running' = Restrict(running, DOMAIN running \ {i})
    BY <2>1 DEF Completes, inputVars, queueVars, AppendEvent, DueJob
  <2>3. events # <<>> => Follows(Last, event)
    BY <1>1, <2>2, EventFollows DEF Processing
  <2>4. TimelineOrdered' /\ events' # <<>> /\ Last' = event
    BY <1>1, <2>2, <2>3, AppendOrdered
  <2>5. \A j \in DOMAIN running' : running'[j].finishTick = tick => i < j
    BY <1>1, <2>2 DEF IsHeapHead, FinishesBefore, Restrict
  <2> QED BY <1>1, <2>2, <2>4, <2>5
          DEF Timely, EventCompleted, EventArrived, EventAdmitted
<1>5. CASE \E i \in JobIndexes : Arrives(i)
  <2>1. PICK i \in JobIndexes : Arrives(i)
    BY <1>5
  <2> PICK event : event = [tick |-> tick, type |-> EventArrived, job |-> i]
    OBVIOUS
  <2>2. /\ pc = "arrive" /\ UNCHANGED <<jobs, tick, running>> /\ pc' = "arrive"
        /\ events' = Append(events, event) /\ i \in future
        /\ jobs[i].arrivalTick = tick /\ IsNextArrival(i) /\ future' = future \ {i}
    BY <2>1 DEF Arrives, inputVars, AppendEvent, DueArrival
  <2>3. events # <<>> => Follows(Last, event)
    BY <1>1, <2>2, EventFollows DEF Processing
  <2>4. TimelineOrdered' /\ events' # <<>> /\ Last' = event
    BY <1>1, <2>2, <2>3, AppendOrdered
  <2>5. \A j \in future' : ArrivesBefore(i, j)'
    BY <2>2 DEF IsNextArrival, ArrivesBefore
  <2> QED BY <1>1, <2>2, <2>4, <2>5
          DEF Timely, EventCompleted, EventArrived, EventAdmitted
<1>6. CASE \E i \in JobIndexes : \E placed \in Place(i) : Admits(i, placed)
  <2>1. PICK i \in JobIndexes : \E placed \in Place(i) : Admits(i, placed)
    BY <1>6
  <2>2. PICK placed \in Place(i) : Admits(i, placed)
    BY <2>1
  <2> PICK event : event = [tick |-> tick, type |-> EventAdmitted, job |-> i]
    OBVIOUS
  <2>3. /\ pc = "admit" /\ UNCHANGED <<jobs, tick, future, retained>> /\ pc' = "admit"
        /\ events' = Append(events, event)
        /\ pending # <<>> /\ i = Head(pending) /\ pending' = Tail(pending)
    BY <2>2 DEF Admits, Admit, inputVars, AppendEvent
  <2>4. i = pending[1] /\ 1 \in DOMAIN pending
    BY <1>1, <2>3
  <2>5. events # <<>> => Follows(Last, event)
    BY <1>1, <2>3, <2>4, EventFollows DEF Processing
  <2>6. TimelineOrdered' /\ events' # <<>> /\ Last' = event
    BY <1>1, <2>3, <2>5, AppendOrdered
  <2>7. ASSUME NEW k \in DOMAIN pending' PROVE ArrivesBefore(i, pending'[k])
    <3>1. /\ Len(retained) + 1 \in DOMAIN Queue /\ Queue[Len(retained) + 1] = i
          /\ Len(retained) + 1 + k \in DOMAIN Queue
          /\ Queue[Len(retained) + 1 + k] = pending'[k]
          /\ Len(retained) + 1 < Len(retained) + 1 + k
      BY <1>1, <2>3, <2>7 DEF Queue
    <3> QED BY <1>1, <3>1 DEF QueueInArrivalOrder
  <2>8. \A k \in DOMAIN pending' : ArrivesBefore(i, pending[k])'
    BY <2>3, <2>7 DEF ArrivesBefore
  <2> QED BY <1>1, <2>3, <2>6, <2>8
          DEF Timely, EventCompleted, EventArrived, EventAdmitted
<1>7. CASE \E i \in JobIndexes : \E reason : GivesUp(i, reason)
  <2>1. UNCHANGED <<jobs, events, tick>> /\ pc' = "unschedule"
    BY <1>7 DEF GivesUp, inputVars
  <2> QED BY <2>1 DEF Timely, Last, Processing, TimelineOrdered, ArrivesBefore
<1> QED BY <1>1, <1>2, <1>3, <1>4, <1>5, <1>6, <1>7, StepKinds

(***************************************************************************)
(* The reported timeline: ticks never go back, and within a tick           *)
(* completions come before arrivals, arrivals before admissions, each in   *)
(* its own order.                                                          *)
(***************************************************************************)
THEOREM TimelineIsOrdered == Spec => []TimelineOrdered
<1>1. Init => Timely /\ TimelineOrdered
  BY DEF Init, Timely, TimelineOrdered
<1> QED BY <1>1, StateInvCorrect, TimelineStep, PTL DEF Spec

-----------------------------------------------------------------------------
(***************************************************************************)
(* The arithmetic the code does not check.                                 *)
(***************************************************************************)
NodesOfCluster == pc \notin {"start", "failed"} => nodes = MakeNodeStates(cluster)

LEMMA NodesOfClusterCorrect == Spec => []NodesOfCluster
<1>1. Init => NodesOfCluster
  BY DEF Init, NodesOfCluster
<1>2. TypeInv /\ NodesOfCluster /\ [Next]_vars => NodesOfCluster'
  <2> SUFFICES ASSUME TypeInv, NodesOfCluster, [Next]_vars PROVE NodesOfCluster'
    OBVIOUS
  <2>1. CASE Begins
    BY <2>1 DEF Begins, NewSimulationState, Goto, inputVars, NodesOfCluster
  <2>2. CASE UNCHANGED <<cluster, nodes>> /\ pc \notin {"start", "failed"}
    BY <2>2 DEF NodesOfCluster
  <2>3. CASE pc' \in {"start", "failed"}
    BY <2>3 DEF NodesOfCluster
  <2>4. CASE ~ Begins /\ pc \in {"start", "failed"} /\ pc' \notin {"start", "failed"}
    BY <2>4 DEF Begins, Next, Step, Terminated, RejectInput, Fail, NextEventTick, CompleteJob,
                CompletionsDone, ArriveJob, ArrivalsDone, TryAdmit, AdmissionDone, LeaveLoop,
                TerminalizePending, UnscheduleUnplaceable, UnscheduleBlocked, Finish,
                Canceled, Cancel, vars
  <2>5. CASE ~ Begins
    <3>1. UNCHANGED <<cluster, nodes>>
      BY <2>5, StepKinds
         DEF Passes, Completes, Arrives, Admits, GivesUp, inputVars, nodeVars
    <3> QED BY <2>2, <2>3, <2>4, <2>5, <3>1
  <2> QED BY <2>1, <2>5
<1> QED BY <1>1, <1>2, TypeInvCorrect, PTL DEF Spec

\* A replica slot takes at least one unit of a dimension the job asks for.
LEMMA SlotsInRange ==
  ASSUME StateInv, NodesOfCluster, pc \notin {"start", "failed"}, NEW i \in JobIndexes
  PROVE  SumFunction(NodeSlots(remaining, jobs[i])) <= MaxInt64
<1>1. /\ TypeInv /\ TypeOK /\ ResourceConservation /\ cluster \in Seq(NodeInput)
      /\ ValidateCluster(cluster) /\ IsFiniteSet(NodeNames) /\ nodes = MakeNodeStates(cluster)
  BY DEF StateInv, TypeInv, TypeOK, InputsValidated, NodesOfCluster
<1>2. PlacementInput(nodes, remaining, jobs[i])
  BY <1>1, PlacementCalled
<1> PICK request : request = jobs[i].resourcesPerReplica
  OBVIOUS
<1>3. PICK d \in Dim : request[d] # 0
  BY <1>2 DEF PlacementInput
<1>4. request \in [Dim -> Nat]
  BY <1>2 DEF PlacementInput
<1> PICK slots : slots = NodeSlots(remaining, jobs[i])
  OBVIOUS
<1> PICK capacity : capacity = [n \in NodeNames |-> nodes[n].capacity[d]]
  OBVIOUS
<1>5. ASSUME NEW n \in NodeNames
      PROVE  slots[n] \in Int /\ capacity[n] \in Int /\ slots[n] <= capacity[n]
  <2>1. /\ remaining[n][d] \in Nat /\ nodes[n].capacity[d] \in Nat
        /\ remaining[n][d] <= nodes[n].capacity[d]
    BY <1>1, RemainingBelowCapacity
  <2>2. slots[n] \in Nat /\ slots[n] * request[d] <= remaining[n][d]
    <3>1. slots[n] \in Nat /\ slots[n] <= slots[n]
      BY <1>2, SlotsExact DEF NodeNames
    <3> QED BY <1>2, <3>1, SlotsExact DEF NodeNames
  <2>3. slots[n] * 1 <= slots[n] * request[d] /\ slots[n] * request[d] \in Nat
    <3>1. request[d] \in Nat /\ 1 <= request[d]
      BY <1>3, <1>4
    <3> QED BY <2>2, <3>1, TimesMonotone
  <2> QED BY <2>1, <2>2, <2>3
<1>6. SumFunctionOnSet(slots, NodeNames) <= SumFunctionOnSet(capacity, NodeNames)
  BY <1>1, <1>5, SumMonotone
<1>7. DOMAIN slots = NodeNames /\ DOMAIN capacity = NodeNames
  BY <1>2, SlotsExact DEF NodeNames
<1>8. SumFunctionOnSet(capacity, NodeNames) \in NonNegInt64
  <2>1. SumFunction(capacity) \in NonNegInt64
    BY <1>1, IdleTotal DEF NodeNames
  <2> QED BY <1>7, <2>1 DEF SumFunction
<1>9. SumFunctionOnSet(slots, NodeNames) \in Int
  BY <1>1, <1>5, SumInt
<1>10. SumFunctionOnSet(slots, NodeNames) <= MaxInt64
  BY <1>6, <1>8, <1>9, MaxInt64Assumption DEF NonNegInt64
<1> QED BY <1>7, <1>10 DEF SumFunction

(***************************************************************************)
(* The arithmetic the scheduler does not check stays within int64: a job's *)
(* requested total, and the replica slots of the whole cluster.            *)
(***************************************************************************)
THEOREM ArithmeticStaysInRange == Spec => []ArithmeticInRange
<1>1. StateInv /\ NodesOfCluster => ArithmeticInRange
  <2> SUFFICES ASSUME StateInv, NodesOfCluster, pc \notin {"start", "failed"},
                      NEW i \in JobIndexes
               PROVE  /\ \A d \in Dim :
                           jobs[i].replicas * jobs[i].resourcesPerReplica[d] <= MaxInt64
                      /\ SumFunction(NodeSlots(remaining, jobs[i])) <= MaxInt64
    BY DEF ArithmeticInRange
  <2>1. jobs \in Seq(Job) /\ ValidateTimedJobs(jobs)
    BY DEF StateInv, TypeInv, TypeOK, InputsValidated
  <2>2. ASSUME NEW d \in Dim
        PROVE  jobs[i].replicas * jobs[i].resourcesPerReplica[d] <= MaxInt64
    <3>1. jobs[i].resourcesPerReplica[d] * jobs[i].replicas \in NonNegInt64
      BY <2>1, RequestInRange DEF ValidateTimedJobs, JobIndexes
    <3>2. jobs[i].resourcesPerReplica[d] \in Int /\ jobs[i].replicas \in Int
      BY <2>1, ValidJob, MaxInt64Assumption DEF PosInt64
    <3>3. jobs[i].replicas * jobs[i].resourcesPerReplica[d]
            = jobs[i].resourcesPerReplica[d] * jobs[i].replicas
      BY <3>2
    <3> QED BY <3>1, <3>3, MaxInt64Assumption DEF NonNegInt64
  <2> QED BY <2>2, SlotsInRange
<1> QED BY <1>1, StateInvCorrect, NodesOfClusterCorrect, PTL

-----------------------------------------------------------------------------
(***************************************************************************)
(* The reported aggregates.                                                *)
(***************************************************************************)
Completed == WithStatus(LifecycleCompleted)

LEMMA SumExtend ==
  ASSUME NEW S, IsFiniteSet(S), NEW x, x \notin S,
         NEW f, \A y \in S \cup {x} : f[y] \in Int,
         NEW e, \A y \in S : e[y] = f[y]
  PROVE  SumFunctionOnSet(f, S \cup {x}) = SumFunctionOnSet(e, S) + f[x]
<1>1. IsFiniteSet(S \cup {x}) /\ (S \cup {x}) \ {x} = S /\ x \in S \cup {x}
  BY FS_AddElement
<1>2. SumFunctionOnSet(f, S \cup {x}) = f[x] + SumFunctionOnSet(f, (S \cup {x}) \ {x})
  BY <1>1, SumRemove
<1>3. SumFunctionOnSet(f, S) = SumFunctionOnSet(e, S)
  BY SumSame
<1>4. SumFunctionOnSet(f, S) \in Int /\ f[x] \in Int
  BY SumInt
<1>5. SumFunctionOnSet(f, S \cup {x}) = f[x] + SumFunctionOnSet(f, S)
  <2>1. (S \cup {x}) \ {x} = S
    BY <1>1
  <2> QED BY <1>2, <2>1, Zenon
<1> QED BY <1>3, <1>4, <1>5

\* The largest and the smallest of a set of numbers are unique.
LEMMA MaxIs ==
  ASSUME NEW S, \A y \in S : y \in Int, NEW m \in S, \A y \in S : y <= m
  PROVE  Max(S) = m
<1>1. m \in S /\ \A y \in S : m >= y
  OBVIOUS
<1>2. Max(S) \in S /\ \A y \in S : Max(S) >= y
  BY <1>1 DEF Max
<1> QED BY <1>2

LEMMA MinIs ==
  ASSUME NEW S, \A y \in S : y \in Int, NEW m \in S, \A y \in S : m <= y
  PROVE  Min(S) = m
<1>1. Min(S) \in S /\ \A y \in S : Min(S) <= y
  BY DEF Min
<1> QED BY <1>1

\* The delays of the completed jobs add up to the counters.
DelaysAddUp ==
  /\ stats.totalDelay = SumFunction(Delays)
  /\ stats.maxDelay = 0 \/ \E i \in Completed : stats.maxDelay = Delays[i]
  /\ \A i \in Completed : Delays[i] <= stats.maxDelay

\* A completed job has the delay with which it started.
LEMMA CompletedDelay ==
  ASSUME StateInv, Lives, NEW i \in DOMAIN lifecycle,
         i \in Completed \/ i \in DOMAIN running
  PROVE  lifecycle[i].queueDelay \in Nat
<1>1. StartOK(i)
  BY DEF Completed, WithStatus, Lives, LifeOK
<1>2. /\ jobs[i].arrivalTick \in Int /\ lifecycle[i].startTick \in Int
      /\ jobs[i].arrivalTick <= lifecycle[i].startTick
  BY <1>1, TicksAreNumbers DEF StartOK, StateInv
<1> QED BY <1>1, <1>2 DEF StartOK

LEMMA DelaysStep ==
  StateInv /\ StateInv' /\ Lives /\ DelaysAddUp /\ [Next]_vars => DelaysAddUp'
<1> SUFFICES ASSUME StateInv, StateInv', Lives, DelaysAddUp, [Next]_vars
             PROVE  DelaysAddUp'
  OBVIOUS
<1>1. /\ TypeInv /\ Partition /\ stats \in StatsType /\ IsFiniteSet(Completed)
      /\ Completed \subseteq DOMAIN lifecycle
  BY StatusesFinite DEF StateInv, TypeInv, TypeOK, StatsType, Completed, WithStatus
<1>2. \A i \in Completed : lifecycle'[i] = lifecycle[i]
  BY <1>1, DecisionsKept
     DEF DecisionKept, Completed, WithStatus, StatusNone, LifecycleCompleted
<1>3. ASSUME Completed' = Completed,
             stats'.totalDelay = stats.totalDelay, stats'.maxDelay = stats.maxDelay
      PROVE  DelaysAddUp'
  <2>1. Delays' = Delays
    BY <1>2, <1>3 DEF Delays, Completed
  <2> QED BY <1>3, <2>1 DEF DelaysAddUp
<1>4. ASSUME NEW i \in JobIndexes, Completes(i), i \notin Completed,
             Completed' = Completed \cup {i}
      PROVE  DelaysAddUp'
  <2> PICK delay : delay = lifecycle[i].queueDelay
    OBVIOUS
  <2>1. i \in DOMAIN lifecycle /\ i \in DOMAIN running
    BY <1>1, <1>4 DEF Completes, TypeInv, InputsValidated
  <2>2. lifecycle'[i].queueDelay = delay /\ delay \in Nat
    <3>1. LifecycleOK(lifecycle[i]) /\ lifecycle'[i] = CompletedLifecycle(lifecycle[i])
      BY <1>1, <1>4, <2>1 DEF TypeInv, TypeOK, Completes
    <3> QED BY <2>1, <3>1, CompletedDelay DEF CompletedLifecycle, LifecycleOK
  <2>3. /\ DOMAIN Delays = Completed /\ DOMAIN Delays' = Completed \cup {i}
        /\ \A j \in Completed : Delays'[j] = Delays[j]
        /\ Delays'[i] = delay
    BY <1>2, <1>4, <2>2 DEF Delays, Completed
  <2>4. \A j \in Completed : Delays[j] \in Nat
    BY <1>1, CompletedDelay DEF Delays, Completed
  <2> PICK before, after : before = Delays /\ after = Delays'
    OBVIOUS
  <2>5. SumFunctionOnSet(after, Completed \cup {i})
          = SumFunctionOnSet(before, Completed) + delay
    <3>1. \A j \in Completed \cup {i} : after[j] \in Int
      BY <2>2, <2>3, <2>4
    <3>2. /\ \A j \in Completed : before[j] = after[j]
          /\ after[i] = delay
      BY <2>3
    <3> PICK done : done = Completed
      OBVIOUS
    <3>3. /\ IsFiniteSet(done) /\ i \notin done
          /\ \A j \in done \cup {i} : after[j] \in Int
          /\ \A j \in done : before[j] = after[j]
      BY <1>1, <1>4, <3>1, <3>2
    <3>4. SumFunctionOnSet(after, done \cup {i}) = SumFunctionOnSet(before, done) + after[i]
      BY ONLY <3>3, SumExtend
    <3> QED BY <3>2, <3>4
  <2>6. SumFunction(Delays') = SumFunction(Delays) + delay
    BY <2>3, <2>5 DEF SumFunction
  <2>7. /\ stats'.totalDelay = stats.totalDelay + delay
        /\ stats'.maxDelay = (IF delay > stats.maxDelay THEN delay ELSE stats.maxDelay)
    BY <1>1, <1>4, CompletionStats
  <2>8. stats'.totalDelay = SumFunction(Delays)'
    BY <2>6, <2>7 DEF DelaysAddUp
  <2>9. stats.maxDelay \in Nat
    BY <1>1, MaxInt64Assumption DEF StatsType, NonNegInt64
  <2>10. \A j \in Completed' : Delays'[j] <= stats'.maxDelay
    BY <1>4, <2>2, <2>3, <2>4, <2>7, <2>9 DEF DelaysAddUp
  <2>11. stats'.maxDelay = 0 \/ \E j \in Completed' : stats'.maxDelay = Delays'[j]
    BY <1>4, <2>3, <2>7 DEF DelaysAddUp
  <2> QED BY <2>8, <2>10, <2>11 DEF DelaysAddUp
<1>5. ASSUME NEW s \in StatsType, NEW type, NEW i, AppendEvent(s, type, i)
      PROVE  stats'.totalDelay = s.totalDelay /\ stats'.maxDelay = s.maxDelay
  BY <1>5, AppendEventKeeps
<1>6. CASE /\ \A status : status # StatusNone => WithStatus(status) = {}
           /\ \A status : status # StatusNone => WithStatus(status)' = {}
           /\ UNCHANGED stats
  <2>1. LifecycleCompleted # StatusNone
    BY DEF StatusNone, LifecycleCompleted
  <2>2. WithStatus(LifecycleCompleted)' = WithStatus(LifecycleCompleted)
    BY <1>6, <2>1
  <2>3. Completed' = Completed
    BY <2>2 DEF Completed
  <2> QED BY <1>3, <1>6, <2>3
<1>7. CASE /\ \A status : WithStatus(status)' = WithStatus(status)
           /\ \/ Passes \/ \E i \in JobIndexes : Arrives(i)
              \/ \E i \in JobIndexes : \E placed \in Place(i) : Admits(i, placed)
  <2>1. Completed' = Completed
    BY <1>7 DEF Completed
  <2>2. stats'.totalDelay = stats.totalDelay /\ stats'.maxDelay = stats.maxDelay
    BY <1>1, <1>5, <1>7 DEF Passes, Arrives, Admits, Admit, StatsType
  <2> QED BY <1>3, <2>1, <2>2
<1>8. CASE \E i \in JobIndexes : \E reason :
             GivesUp(i, reason) /\ WithStatus(LifecycleCompleted)' = WithStatus(LifecycleCompleted)
  <2>1. stats'.totalDelay = stats.totalDelay /\ stats'.maxDelay = stats.maxDelay
    BY <1>1, <1>8 DEF GivesUp, StatsType
  <2> QED BY <1>3, <1>8, <2>1 DEF Completed
<1> QED BY <1>1, <1>4, <1>6, <1>7, <1>8, StatusChange DEF Completed

LEMMA DelaysCorrect == Spec => []DelaysAddUp
<1>1. Init => DelaysAddUp
  <2> SUFFICES ASSUME Init PROVE DelaysAddUp
    OBVIOUS
  <2>1. Completed = {} /\ stats.totalDelay = 0 /\ stats.maxDelay = 0
    BY DEF Init, Completed, WithStatus
  <2>2. DOMAIN Delays = {}
    BY <2>1 DEF Delays, Completed
  <2> QED BY <2>1, <2>2, SumEmpty DEF DelaysAddUp, SumFunction
<1> QED BY <1>1, StateInvCorrect, LivesCorrect, DelaysStep, PTL DEF Spec

\* A simulation that has ended stays as it is.
LEMMA EndIsFinal ==
  ASSUME pc \in Terminal, [Next]_vars
  PROVE  UNCHANGED vars
<1>1. pc \notin Steps /\ pc \in {"done", "failed"}
  BY DEF Terminal, Steps
<1>2. ~ ContextChecked
  BY <1>1 DEF ContextChecked
<1> QED BY <1>1, <1>2
        DEF Next, Step, Terminated, RejectInput, NewSimulationState, NextEventTick, CompleteJob,
            CompletionsDone, ArriveJob, ArrivalsDone, TryAdmit, AdmissionDone, LeaveLoop,
            TerminalizePending, UnscheduleUnplaceable, UnscheduleBlocked, Finish, Canceled,
            Cancel

\* The timeline's ends are the first and the last event, between which all lie.
Span ==
  /\ events # <<>> =>
       /\ stats.startTick = events[1].tick /\ stats.endTick = Last.tick
       /\ \A k \in DOMAIN events :
            events[1].tick <= events[k].tick /\ events[k].tick <= Last.tick
  /\ pc \notin Terminal => stats.makespan = 0
  /\ pc = "done" =>
       stats.makespan = IF events # <<>> THEN stats.endTick - stats.startTick ELSE 0

\* An event at the current tick extends the span.
LEMMA SpanExtends ==
  ASSUME TypeInv, TypeInv', Timely, Span, pc \notin Terminal, pc' \notin Terminal,
         NEW event, events' = Append(events, event), event.tick = tick,
         stats'.startTick = (IF events = <<>> THEN tick ELSE stats.startTick),
         stats'.endTick = tick, stats'.makespan = stats.makespan
  PROVE  Span'
<1>1. /\ events \in Seq(Event) /\ Len(events) \in Nat /\ DOMAIN events = 1 .. Len(events)
      /\ DOMAIN events' = 1 .. Len(events) + 1 /\ Len(events') = Len(events) + 1
      /\ events'[Len(events) + 1] = event
      /\ \A k \in DOMAIN events : events'[k] = events[k]
  <2>1. events \in Seq(Event)
    BY DEF TypeInv, TypeOK
  <2> QED BY <2>1
<1>2. Last' = event /\ events' # <<>>
  BY <1>1 DEF Last
<1>3. \A k \in DOMAIN events' : events'[k].tick \in Int
  <2>1. TypeOK'
    BY DEF TypeInv
  <2>2. events' \in Seq(Event)'
    BY <2>1 DEF TypeOK
  <2>3. \A k \in DOMAIN events' : events'[k] \in Event'
    BY <2>2
  <2> QED BY <2>3, MaxInt64Assumption DEF Event, NonNegInt64
<1>4. /\ stats'.startTick = events'[1].tick
      /\ \A k \in DOMAIN events' :
           events'[1].tick <= events'[k].tick /\ events'[k].tick <= tick
  <2>1. CASE events = <<>>
    <3>1. DOMAIN events' = {1} /\ events'[1] = event
      BY <1>1, <2>1
    <3> QED BY <1>3, <2>1, <3>1
  <2>2. CASE events # <<>>
    <3>1. 1 \in DOMAIN events /\ Len(events) \in DOMAIN events
      BY <1>1, <2>2
    <3>2. Last.tick <= tick /\ stats'.startTick = events'[1].tick
      BY <1>1, <2>2, <3>1 DEF Timely, Span
    <3>3. Last.tick \in Int /\ tick \in Int
      BY <1>1, <1>3, <3>1 DEF Last
    <3>4. ASSUME NEW k \in DOMAIN events'
          PROVE  events'[1].tick <= events'[k].tick /\ events'[k].tick <= tick
      <4>1. CASE k \in DOMAIN events
        <5>1. /\ events'[k].tick \in Int
              /\ events'[1].tick <= events'[k].tick /\ events'[k].tick <= Last.tick
          BY <1>1, <1>3, <2>2, <3>1, <4>1 DEF Span
        <5> QED BY <3>2, <3>3, <5>1
      <4>2. CASE k \notin DOMAIN events
        <5>1. events'[k] = event
          BY <1>1, <3>4, <4>2
        <5>2. events'[1].tick <= Last.tick /\ events'[1].tick \in Int
          BY <1>1, <1>3, <2>2, <3>1 DEF Span
        <5> QED BY <3>2, <3>3, <5>1, <5>2
      <4> QED BY <4>1, <4>2
    <3> QED BY <3>2, <3>4
  <2> QED BY <2>1, <2>2
<1>5. events'[1].tick \in Int /\ Last'.tick = tick
  BY <1>1, <1>2, <1>3
<1> QED BY <1>2, <1>4 DEF Span, Terminal

LEMMA SpanStep ==
  StateInv /\ StateInv' /\ Timely /\ Span /\ [Next]_vars => Span'
<1> SUFFICES ASSUME StateInv, StateInv', Timely, Span, [Next]_vars PROVE Span'
  OBVIOUS
<1>1. TypeInv /\ TypeInv' /\ stats \in StatsType
  BY DEF StateInv, TypeInv, TypeOK, StatsType
<1>2. CASE pc \in Terminal
  BY <1>2, EndIsFinal DEF Span, Last, vars, resultVars, Terminal
<1>3. CASE pc \notin Terminal /\ Begins
  <2>1. UNCHANGED <<events, stats>> /\ pc' = "loop"
    BY <1>3 DEF Begins, NewSimulationState, Goto
  <2> QED BY <1>3, <2>1 DEF Span, Last, Terminal
<1>4. CASE pc \notin Terminal /\ Passes
  <2>1. events' = events
    BY <1>4 DEF Passes
  <2>2. CASE UNCHANGED stats /\ pc' # "done"
    BY <1>4, <2>1, <2>2 DEF Span, Last, Terminal
  <2>3. CASE pc' = "done" /\ stats' = [stats EXCEPT
               !.makespan = IF events # <<>> THEN stats.endTick - stats.startTick ELSE @]
    <3>1. /\ stats'.startTick = stats.startTick /\ stats'.endTick = stats.endTick
          /\ stats'.makespan
               = IF events # <<>> THEN stats.endTick - stats.startTick ELSE stats.makespan
      BY <1>1, <2>3 DEF StatsType
    <3> QED BY <1>4, <2>1, <2>3, <3>1 DEF Span, Last, Terminal
  <2> QED BY <1>4, <2>2, <2>3 DEF Passes, Terminal
<1>5. ASSUME NEW s \in StatsType, NEW type, NEW i, AppendEvent(s, type, i),
             s.startTick = stats.startTick, s.makespan = stats.makespan,
             pc \notin Terminal, pc' \notin Terminal
      PROVE  Span'
  <2> PICK event : event = [tick |-> tick, type |-> type, job |-> i]
    OBVIOUS
  <2>1. events' = Append(events, event) /\ event.tick = tick
    BY <1>5 DEF AppendEvent
  <2>2. /\ stats'.startTick = (IF events = <<>> THEN tick ELSE stats.startTick)
        /\ stats'.endTick = tick /\ stats'.makespan = stats.makespan
    BY <1>5 DEF AppendEvent, StatsType
  <2> QED BY <1>1, <1>5, <2>1, <2>2, SpanExtends
<1>6. CASE pc \notin Terminal /\ \E i \in JobIndexes : Completes(i)
  <2>1. PICK i \in JobIndexes : Completes(i)
    BY <1>6
  <2> PICK event : event = [tick |-> tick, type |-> EventCompleted, job |-> i]
    OBVIOUS
  <2>2. events' = Append(events, event) /\ event.tick = tick /\ pc' \notin Terminal
    BY <2>1 DEF Completes, AppendEvent, Terminal
  <2>3. stats'.makespan = stats.makespan
    BY <1>1, <2>1 DEF Completes, AppendEvent, StatsType
  <2> QED BY <1>1, <1>6, <2>1, <2>2, <2>3, CompletionStats, SpanExtends
<1>7. CASE pc \notin Terminal /\ \E i \in JobIndexes : Arrives(i)
  <2>1. PICK i \in JobIndexes : Arrives(i)
    BY <1>7
  <2> QED BY <1>1, <1>5, <1>7, <2>1 DEF Arrives, Terminal
<1>8. CASE pc \notin Terminal /\ \E i \in JobIndexes : \E placed \in Place(i) : Admits(i, placed)
  <2>1. PICK i \in JobIndexes : \E placed \in Place(i) : Admits(i, placed)
    BY <1>8
  <2>2. pc' = "admit" /\ AppendEvent(stats, EventAdmitted, i)
    BY <2>1 DEF Admits, Admit
  <2> QED BY <1>1, <1>5, <1>8, <2>2 DEF Terminal
<1>9. CASE pc \notin Terminal /\ \E i \in JobIndexes : \E reason : GivesUp(i, reason)
  <2>1. events' = events /\ pc' = "unschedule"
        /\ stats' = [stats EXCEPT !.unscheduled = @ + 1]
    BY <1>9 DEF GivesUp
  <2>2. /\ stats'.startTick = stats.startTick /\ stats'.endTick = stats.endTick
        /\ stats'.makespan = stats.makespan
    BY <1>1, <2>1 DEF StatsType
  <2> QED BY <1>9, <2>1, <2>2 DEF Span, Last, Terminal
<1> QED BY <1>1, <1>2, <1>3, <1>4, <1>6, <1>7, <1>8, <1>9, StepKinds

LEMMA SpanCorrect == Spec => []Span
<1>1. Init => Timely /\ Span
  BY DEF Init, Timely, Span, Terminal
<1>2. Init => TimelineOrdered
  BY DEF Init, TimelineOrdered
<1> QED BY <1>1, <1>2, StateInvCorrect, TimelineStep, SpanStep, PTL DEF Spec

\* The aggregates at the end follow from the invariants.
LEMMA MetricsFollow ==
  ASSUME StateInv, QueueShape, Lives, Counts, DelaysAddUp, Span
  PROVE  ReportedMetrics
<1> SUFFICES ASSUME pc = "done" PROVE ReportedMetrics
  BY DEF ReportedMetrics
<1>1. /\ TypeInv /\ TypeOK /\ stats \in StatsType
      /\ Completed \subseteq DOMAIN lifecycle
  BY DEF StateInv, TypeInv, TypeOK, StatsType, Completed, WithStatus
<1>2. WithStatus(LifecycleCompleted) \cup WithStatus(LifecycleUnscheduled) = JobIndexes
  BY EndAccounted DEF Left
<1>3. stats.maxDelay = Max(Range(Delays) \cup {0})
  <2>1. DOMAIN Delays = Completed
    BY DEF Delays, Completed
  <2>2. \A i \in Completed : Delays[i] \in Nat
    BY <1>1, CompletedDelay DEF Delays, Completed
  <2>3. stats.maxDelay \in Nat
    BY <1>1, MaxInt64Assumption DEF StatsType, NonNegInt64
  <2>4. Range(Delays) = {Delays[i] : i \in Completed}
    BY <2>1 DEF Range
  <2> PICK delays : delays = Range(Delays) \cup {0}
    OBVIOUS
  <2>5. \A y \in delays : y \in Int /\ y <= stats.maxDelay
    BY <2>2, <2>3, <2>4 DEF DelaysAddUp
  <2>6. stats.maxDelay \in delays
    BY <2>4 DEF DelaysAddUp
  <2> QED BY <2>5, <2>6, MaxIs
<1>4. ASSUME NEW i \in WithStatus(LifecycleCompleted)
      PROVE  /\ lifecycle[i].startTick = jobs[i].arrivalTick + lifecycle[i].queueDelay
             /\ lifecycle[i].completionTick = lifecycle[i].startTick + jobs[i].durationTicks
  <2>1. i \in DOMAIN lifecycle /\ lifecycle[i].status = LifecycleCompleted
    BY DEF WithStatus
  <2>2. LifeOK(i) /\ StartOK(i)
    BY <2>1 DEF Lives, LifeOK
  <2>3. jobs[i].arrivalTick \in Int /\ lifecycle[i].startTick \in Int
    BY <1>1, <2>1, TicksAreNumbers
  <2> QED BY <2>1, <2>2, <2>3 DEF StartOK, LifeOK, CompletionOK
<1>5. stats.makespan = IF {events[k].tick : k \in DOMAIN events} = {} THEN 0
                       ELSE Max({events[k].tick : k \in DOMAIN events})
                              - Min({events[k].tick : k \in DOMAIN events})
  <2> PICK ticks : ticks = {events[k].tick : k \in DOMAIN events}
    OBVIOUS
  <2>1. events \in Seq(Event)
    BY <1>1 DEF TypeOK
  <2>2. CASE events = <<>>
    BY <2>2 DEF Span
  <2>3. CASE events # <<>>
    <3>1. 1 \in DOMAIN events /\ Len(events) \in DOMAIN events
      BY <2>1, <2>3
    <3>2. events[1].tick \in ticks /\ Last.tick \in ticks
      BY <3>1 DEF Last
    <3>3. \A k \in DOMAIN events : events[k].tick \in Int
      <4>1. \A k \in DOMAIN events : events[k] \in Event
        BY <2>1
      <4> QED BY <4>1, MaxInt64Assumption DEF Event, NonNegInt64
    <3>4. \A y \in ticks : y \in Int /\ events[1].tick <= y /\ y <= Last.tick
      BY <2>3, <3>3 DEF Span
    <3>5. Max(ticks) = Last.tick /\ Min(ticks) = events[1].tick
      BY <3>2, <3>4, MaxIs, MinIs
    <3> QED BY <2>3, <3>2, <3>5 DEF Span
  <2> QED BY <2>2, <2>3
<1> QED BY <1>2, <1>3, <1>4, <1>5 DEF ReportedMetrics, Counts, DelaysAddUp

(***************************************************************************)
(* The reported aggregates are those of the reported lifecycles: the       *)
(* counts, the total and the largest queue delay, the makespan; and every  *)
(* completed job ran for exactly its duration after its queue delay.       *)
(***************************************************************************)
THEOREM MetricsAreExact == Spec => []ReportedMetrics
BY StateInvCorrect, QueueShapeCorrect, LivesCorrect, CountsCorrect, DelaysCorrect,
   SpanCorrect, MetricsFollow, PTL

-----------------------------------------------------------------------------
(***************************************************************************)
(* The reported timeline can be executed.                                  *)
(***************************************************************************)
\* Job i is known to run at tick t: a running job's end is still open.
InForce(i, t) ==
  /\ Started(i) /\ lifecycle[i].startTick <= t
  /\ i \in DOMAIN running \/ t < lifecycle[i].completionTick

UseOf(i, t, n, d) ==
  IF i \in DOMAIN lifecycle /\ InForce(i, t) /\ n \in DOMAIN lifecycle[i].allocation
  THEN jobs[i].resourcesPerReplica[d] * lifecycle[i].allocation[n]
  ELSE 0

UseAt(t, n, d) == SumFunctionOnSet([i \in JobIndexes |-> UseOf(i, t, n, d)], JobIndexes)

\* What the jobs known to run at tick t use together fits on every node.
Executable ==
  \A t \in Int, n \in NodeNames, d \in Dim : UseAt(t, n, d) <= nodes[n].capacity[d]

\* The same of the present and the future, where what is in use is what is held.
ExecutableNow ==
  pc \notin {"start", "failed"} =>
    \A t \in Int, n \in NodeNames, d \in Dim :
      tick <= t => UseAt(t, n, d) <= nodes[n].capacity[d]

UsesAreNumbers ==
  \A i \in JobIndexes : \A t : \A n : \A d \in Dim : UseOf(i, t, n, d) \in Int

LEMMA UseType == TypeInv => UsesAreNumbers
<1> SUFFICES ASSUME TypeInv, NEW i \in JobIndexes, NEW t, NEW n, NEW d \in Dim
             PROVE  UseOf(i, t, n, d) \in Int
  BY DEF UsesAreNumbers
<1>1. CASE i \in DOMAIN lifecycle /\ n \in DOMAIN lifecycle[i].allocation
  <2>1. jobs[i].resourcesPerReplica[d] \in Int
    <3>1. jobs[i] \in Job
      BY DEF TypeInv, TypeOK, JobIndexes
    <3>2. jobs[i].resourcesPerReplica \in [Dim -> Int64]
      BY <3>1 DEF Job, Resources
    <3> QED BY <3>2, MaxInt64Assumption DEF Int64
  <2>2. lifecycle[i].allocation[n] \in Int
    BY <1>1, MaxInt64Assumption DEF TypeInv, TypeOK, LifecycleOK, IsAllocation, PosInt64
  <2>3. jobs[i].resourcesPerReplica[d] * lifecycle[i].allocation[n] \in Int
    BY <2>1, <2>2, TimesInt
  <2> QED BY <2>3 DEF UseOf
<1>2. CASE ~ (i \in DOMAIN lifecycle /\ n \in DOMAIN lifecycle[i].allocation)
  BY <1>2 DEF UseOf
<1> QED BY <1>1, <1>2

\* From the current tick on, a job uses what it holds.
LEMMA UseIsHeld ==
  ASSUME StateInv, Lives, pc \notin {"start", "failed"},
         NEW i \in JobIndexes, NEW t \in Int, tick <= t, NEW n, NEW d \in Dim
  PROVE  UseOf(i, t, n, d) = Held(i, n, d)
<1>1. /\ TypeInv /\ DOMAIN lifecycle = JobIndexes /\ LifeOK(i)
      /\ tick \in Int /\ lifecycle[i].startTick \in Int /\ lifecycle[i].completionTick \in Int
  BY TicksAreNumbers DEF StateInv, TypeInv, InputsValidated, Lives
<1>2. CASE i \in DOMAIN running
  <2>1. InForce(i, t) /\ running[i].allocation = lifecycle[i].allocation
    BY <1>1, <1>2 DEF LifeOK, StartOK, RunOK, InForce
  <2> QED BY <1>1, <1>2, <2>1 DEF UseOf, Held, ResourcesForReplicas
<1>3. CASE i \notin DOMAIN running
  <2>1. ~ InForce(i, t)
    BY <1>1, <1>3 DEF LifeOK, CompletionOK, InForce
  <2> QED BY <1>3, <2>1 DEF UseOf, Held
<1> QED BY <1>2, <1>3

LEMMA ExecutableFromNow == StateInv /\ Lives => ExecutableNow
<1> SUFFICES ASSUME StateInv, Lives, pc \notin {"start", "failed"},
                    NEW t \in Int, NEW n \in NodeNames, NEW d \in Dim, tick <= t
             PROVE  UseAt(t, n, d) <= nodes[n].capacity[d]
  BY DEF ExecutableNow
<1>1. TypeInv /\ TypeOK /\ ResourceConservation /\ IsFiniteSet(JobIndexes)
  BY StatusesFinite DEF StateInv, TypeInv
<1> PICK uses : uses = [i \in JobIndexes |-> UseOf(i, t, n, d)]
  OBVIOUS
<1> PICK holds : holds = [i \in JobIndexes |-> Held(i, n, d)]
  OBVIOUS
<1>2. \A i \in JobIndexes : uses[i] = holds[i] /\ holds[i] \in Int
  BY <1>1, UseIsHeld, HeldType
<1>3. /\ SumFunctionOnSet(uses, JobIndexes) = SumFunctionOnSet(holds, JobIndexes)
      /\ SumFunctionOnSet(holds, JobIndexes) \in Int
  BY <1>1, <1>2, SumSame, SumInt
<1>4. UseAt(t, n, d) = TotalHeld(n, d) /\ TotalHeld(n, d) \in Int
  BY <1>3 DEF UseAt, TotalHeld
<1>5. remaining[n][d] + TotalHeld(n, d) = nodes[n].capacity[d]
  BY <1>1 DEF ResourceConservation
<1>6. remaining[n][d] \in Nat /\ nodes[n].capacity[d] \in Nat
  BY <1>1, RemainingBelowCapacity
<1> QED BY <1>4, <1>5, <1>6

\* A step after which no job uses more.
LEMMA NoMoreUse ==
  ASSUME TypeInv, UsesAreNumbers, UsesAreNumbers', Executable, UNCHANGED <<jobs, nodes>>,
         NEW t \in Int, NEW n \in NodeNames, NEW d \in Dim,
         \A i \in JobIndexes : UseOf(i, t, n, d)' <= UseOf(i, t, n, d)
  PROVE  UseAt(t, n, d)' <= nodes[n].capacity[d]
<1> PICK before : before = [i \in JobIndexes |-> UseOf(i, t, n, d)]
  OBVIOUS
<1> PICK after : after = [i \in JobIndexes |-> UseOf(i, t, n, d)']
  OBVIOUS
<1>1. /\ IsFiniteSet(JobIndexes)
      /\ \A i \in JobIndexes : /\ before[i] \in Int /\ after[i] \in Int
                               /\ after[i] <= before[i]
  BY StatusesFinite DEF UsesAreNumbers, JobIndexes
<1>2. /\ SumFunctionOnSet(after, JobIndexes) <= SumFunctionOnSet(before, JobIndexes)
      /\ SumFunctionOnSet(after, JobIndexes) \in Int
      /\ SumFunctionOnSet(before, JobIndexes) \in Int
  BY <1>1, SumMonotone, SumInt
<1>3. /\ UseAt(t, n, d) = SumFunctionOnSet(before, JobIndexes)
      /\ UseAt(t, n, d)' = SumFunctionOnSet(after, JobIndexes)
  BY DEF UseAt, JobIndexes
<1>4. UseAt(t, n, d) <= nodes[n].capacity[d]
  BY DEF Executable
<1>5. nodes[n].capacity[d] \in Int
  BY MaxInt64Assumption DEF TypeInv, TypeOK, NodeInfo, NonNegInt64
<1> QED BY <1>2, <1>3, <1>4, <1>5

LEMMA ExecutableStep ==
  /\ StateInv /\ StateInv' /\ Lives /\ UsesAreNumbers /\ UsesAreNumbers'
  /\ ExecutableNow' /\ Executable /\ [Next]_vars
  => Executable'
<1> SUFFICES ASSUME StateInv, StateInv', Lives, UsesAreNumbers, UsesAreNumbers',
                    ExecutableNow', Executable, [Next]_vars
             PROVE  Executable'
  OBVIOUS
<1>1. TypeInv /\ TypeOK /\ TypeInv' /\ tick \in Int
  BY TicksAreNumbers DEF StateInv, TypeInv
<1>2. ASSUME UNCHANGED <<jobs, nodes>>,
             \A t \in Int, n \in NodeNames, d \in Dim, i \in JobIndexes :
               UseOf(i, t, n, d)' <= UseOf(i, t, n, d)
      PROVE  Executable'
  BY <1>1, <1>2, NoMoreUse DEF Executable, NodeNames
<1>3. ASSUME UNCHANGED <<jobs, nodes, running, lifecycle>> PROVE Executable'
  <2>1. ASSUME NEW t, NEW n, NEW d \in Dim, NEW i \in JobIndexes
        PROVE  UseOf(i, t, n, d)' <= UseOf(i, t, n, d)
    <3>1. UseOf(i, t, n, d)' = UseOf(i, t, n, d)
      BY <1>3 DEF UseOf, InForce, Started
    <3>2. UseOf(i, t, n, d) \in Int
      BY DEF UsesAreNumbers
    <3> QED BY <3>1, <3>2
  <2> QED BY <1>2, <1>3, <2>1
<1>4. CASE Begins
  <2>1. \A i \in DOMAIN lifecycle' : lifecycle'[i].startTick = NoTick
    BY <1>4 DEF Begins, NewSimulationState
  <2>2. ASSUME NEW t \in Int, NEW n \in NodeNames', NEW d \in Dim
        PROVE  UseAt(t, n, d)' <= nodes'[n].capacity[d]
    <3> PICK after : after = [i \in JobIndexes' |-> UseOf(i, t, n, d)']
      OBVIOUS
    <3>1. \A i \in JobIndexes' : after[i] = 0
      BY <2>1 DEF UseOf, InForce, Started
    <3>2. IsFiniteSet(JobIndexes')
      <4>1. JobIndexes' = JobIndexes
        BY <1>4 DEF Begins, NewSimulationState, Goto, inputVars, JobIndexes
      <4> QED BY <1>1, <4>1, StatusesFinite
    <3>3. UseAt(t, n, d)' = 0
      BY <3>1, <3>2, SumZero DEF UseAt
    <3>4. nodes'[n].capacity[d] \in Nat
      BY <1>1, MaxInt64Assumption DEF TypeInv, TypeOK, NodeInfo, NonNegInt64
    <3> QED BY <3>3, <3>4
  <2> QED BY <2>2 DEF Executable
<1>5. CASE Passes
  BY <1>3, <1>5 DEF Passes, inputVars, nodeVars
<1>6. CASE \E i \in JobIndexes : Arrives(i)
  BY <1>3, <1>6 DEF Arrives, inputVars, nodeVars
<1>7. CASE \E i \in JobIndexes : Completes(i)
  <2>1. PICK i \in JobIndexes : Completes(i)
    BY <1>7
  <2>2. /\ DOMAIN lifecycle = JobIndexes /\ UNCHANGED <<jobs, nodes>>
        /\ i \in DOMAIN running /\ running[i].finishTick = tick
    BY <1>1, <2>1 DEF Completes, TypeInv, InputsValidated, inputVars, DueJob
  <2>3. /\ DOMAIN lifecycle' = DOMAIN lifecycle
        /\ \A j \in JobIndexes \ {i} : /\ lifecycle'[j] = lifecycle[j]
                                       /\ j \in DOMAIN running' <=> j \in DOMAIN running
        /\ i \notin DOMAIN running'
    BY <2>1, <2>2 DEF Completes, Restrict
  <2>4. /\ lifecycle'[i].startTick = lifecycle[i].startTick
        /\ lifecycle'[i].completionTick = tick
        /\ lifecycle'[i].allocation = lifecycle[i].allocation
    <3>1. LifecycleOK(lifecycle[i]) /\ lifecycle'[i] = CompletedLifecycle(lifecycle[i])
      BY <1>1, <2>1, <2>2 DEF TypeOK, Completes
    <3> QED BY <3>1 DEF CompletedLifecycle, LifecycleOK
  <2>5. ASSUME NEW t \in Int, NEW n \in NodeNames, NEW d \in Dim, NEW j \in JobIndexes
        PROVE  UseOf(j, t, n, d)' <= UseOf(j, t, n, d)
    <3>1. UseOf(j, t, n, d) \in Int
      BY DEF UsesAreNumbers
    <3>2. CASE j # i
      <4>1. UseOf(j, t, n, d)' = UseOf(j, t, n, d)
        BY <2>2, <2>3, <3>2 DEF UseOf, InForce, Started
      <4> QED BY <3>1, <4>1
    <3>3. CASE j = i /\ InForce(i, t)'
      <4>1. InForce(i, t)
        BY <2>2, <2>4, <3>3 DEF InForce, Started
      <4>2. UseOf(i, t, n, d)' = UseOf(i, t, n, d)
        BY <2>2, <2>3, <2>4, <3>3, <4>1 DEF UseOf
      <4> QED BY <3>1, <3>3, <4>2
    <3>4. CASE j = i /\ ~ InForce(i, t)'
      <4>1. UseOf(i, t, n, d)' = 0
        BY <3>4 DEF UseOf
      <4>2. 0 <= UseOf(i, t, n, d)
        <5>1. CASE n \in DOMAIN lifecycle[i].allocation
          <6>1. /\ jobs[i].resourcesPerReplica[d] \in Nat
                /\ lifecycle[i].allocation[n] \in Nat
            <7>1. LifecycleOK(lifecycle[i])
              BY <1>1, <2>2 DEF TypeOK
            <7>2. lifecycle[i].allocation[n] \in Nat
              BY <5>1, <7>1, MaxInt64Assumption DEF LifecycleOK, IsAllocation, PosInt64
            <7>3. jobs[i].resourcesPerReplica \in [Dim -> Nat]
              BY <1>1, <2>1, ValidJob DEF Completes, TypeInv, TypeOK, InputsValidated
            <7> QED BY <7>2, <7>3
          <6>2. jobs[i].resourcesPerReplica[d] * lifecycle[i].allocation[n] \in Nat
            BY <6>1, TimesMonotone
          <6> QED BY <6>2 DEF UseOf
        <5>2. CASE n \notin DOMAIN lifecycle[i].allocation
          BY <5>2 DEF UseOf
        <5> QED BY <5>1, <5>2
      <4> QED BY <3>4, <4>1, <4>2
    <3> QED BY <3>2, <3>3, <3>4
  <2> QED BY <1>2, <2>2, <2>5
<1>8. CASE \E i \in JobIndexes : \E placed \in Place(i) : Admits(i, placed)
  <2>1. PICK i \in JobIndexes : \E placed \in Place(i) : Admits(i, placed)
    BY <1>8
  <2>2. PICK placed \in Place(i) : Admits(i, placed)
    BY <2>1
  <2>3. /\ DOMAIN lifecycle = JobIndexes /\ UNCHANGED <<jobs, nodes, tick>>
        /\ pc' = "admit" /\ LifecycleOK(lifecycle[i])
    BY <1>1, <2>2 DEF Admits, TypeInv, TypeOK, InputsValidated, inputVars
  <2>4. /\ DOMAIN lifecycle' = DOMAIN lifecycle
        /\ lifecycle'[i].startTick = tick
        /\ \A j \in JobIndexes \ {i} : /\ lifecycle'[j] = lifecycle[j]
                                       /\ j \in DOMAIN running' <=> j \in DOMAIN running
    BY <2>2, <2>3 DEF Admits, Admit, StartedLifecycle, LifecycleOK
  <2>5. ~ Started(i)
    <3>1. IsAt(i, FALSE, TRUE, FALSE, FALSE, FALSE)
      BY <1>1, <2>2, <2>3, HeadLeavesQueue DEF Admits, StateInv
    <3> QED BY <2>3, <3>1 DEF IsAt, Lives, LifeOK
  <2>6. ASSUME NEW t \in Int, NEW n \in NodeNames, NEW d \in Dim
        PROVE  UseAt(t, n, d)' <= nodes[n].capacity[d]
    <3>1. CASE tick <= t
      BY <2>3, <3>1 DEF ExecutableNow, NodeNames
    <3>2. CASE t < tick
      <4>1. ASSUME NEW j \in JobIndexes PROVE UseOf(j, t, n, d)' <= UseOf(j, t, n, d)
        <5>1. UseOf(j, t, n, d) \in Int
          BY DEF UsesAreNumbers
        <5>2. CASE j # i
          <6>1. UseOf(j, t, n, d)' = UseOf(j, t, n, d)
            BY <2>3, <2>4, <5>2 DEF UseOf, InForce, Started
          <6> QED BY <5>1, <6>1
        <5>3. CASE j = i
          <6>1. ~ InForce(i, t)'
            BY <1>1, <2>4, <3>2 DEF InForce
          <6>2. ~ InForce(i, t)
            BY <2>5 DEF InForce
          <6> QED BY <5>3, <6>1, <6>2 DEF UseOf
        <5> QED BY <5>2, <5>3
      <4> QED BY <1>1, <2>3, <4>1, NoMoreUse
    <3> QED BY <1>1, <3>1, <3>2
  <2> QED BY <2>3, <2>6 DEF Executable, NodeNames
<1>9. CASE \E i \in JobIndexes : \E reason : GivesUp(i, reason)
  <2>1. PICK i \in JobIndexes : \E reason : GivesUp(i, reason)
    BY <1>9
  <2>2. PICK reason : GivesUp(i, reason)
    BY <2>1
  <2>3. DOMAIN lifecycle = JobIndexes /\ UNCHANGED <<jobs, nodes, running>>
    BY <1>1, <2>2 DEF GivesUp, TypeInv, InputsValidated, inputVars, nodeVars
  <2>4. /\ DOMAIN lifecycle' = DOMAIN lifecycle
        /\ \A j \in JobIndexes : /\ lifecycle'[j].startTick = lifecycle[j].startTick
                                 /\ lifecycle'[j].completionTick = lifecycle[j].completionTick
                                 /\ lifecycle'[j].allocation = lifecycle[j].allocation
    BY <1>1, <2>2, <2>3 DEF GivesUp, TypeOK, LifecycleOK
  <2>5. ASSUME NEW t \in Int, NEW n \in NodeNames, NEW d \in Dim, NEW j \in JobIndexes
        PROVE  UseOf(j, t, n, d)' <= UseOf(j, t, n, d)
    <3>1. UseOf(j, t, n, d)' = UseOf(j, t, n, d)
      BY <2>3, <2>4 DEF UseOf, InForce, Started
    <3>2. UseOf(j, t, n, d) \in Int
      BY DEF UsesAreNumbers
    <3> QED BY <3>1, <3>2
  <2> QED BY <1>2, <2>3, <2>5
<1> QED BY <1>1, <1>4, <1>5, <1>6, <1>7, <1>8, <1>9, StepKinds

(***************************************************************************)
(* A reported timeline can be executed: at the tick of any event, the jobs *)
(* that have started and not completed fit together on every node.         *)
(***************************************************************************)
THEOREM TimelineIsExecutable == Spec => []ReportedTimelineRespectsCapacity
<1>1. Init => Executable
  BY DEF Init, Executable, NodeNames
<1>2. StateInv /\ QueueShape /\ Executable => ReportedTimelineRespectsCapacity
  <2> SUFFICES ASSUME StateInv, QueueShape, Executable, pc = "done",
                      NEW k \in DOMAIN events, NEW n \in NodeNames, NEW d \in Dim
               PROVE  ReportedUse(events[k].tick, n, d) <= nodes[n].capacity[d]
    BY DEF ReportedTimelineRespectsCapacity
  <2>1. /\ TypeInv /\ TypeOK /\ DOMAIN lifecycle = JobIndexes /\ DOMAIN running = {}
        /\ IsFiniteSet(JobIndexes) /\ UsesAreNumbers
    BY StatusesFinite, UseType DEF StateInv, TypeInv, InputsValidated, QueueShape
  <2> PICK t : t = events[k].tick
    OBVIOUS
  <2>2. t \in Int
    <3>1. events[k] \in Event
      BY <2>1 DEF TypeOK
    <3> QED BY <3>1, MaxInt64Assumption DEF Event, NonNegInt64
  <2> PICK uses : uses = [i \in JobIndexes |-> UseOf(i, t, n, d)]
    OBVIOUS
  <2> PICK reported :
        reported = [i \in DOMAIN lifecycle |->
          IF /\ Started(i)
             /\ lifecycle[i].startTick <= t /\ t < lifecycle[i].completionTick
             /\ n \in DOMAIN lifecycle[i].allocation
          THEN lifecycle[i].allocation[n] * jobs[i].resourcesPerReplica[d] ELSE 0]
    OBVIOUS
  <2>3. ASSUME NEW i \in JobIndexes PROVE reported[i] = uses[i]
    <3>1. CASE n \in DOMAIN lifecycle[i].allocation
      <4>1. /\ lifecycle[i].allocation[n] \in Int
            /\ jobs[i].resourcesPerReplica[d] \in Int
        <5>1. IsAllocation(lifecycle[i].allocation) /\ jobs[i] \in Job
          BY <2>1 DEF TypeOK, LifecycleOK, JobIndexes
        <5>2. jobs[i].resourcesPerReplica \in [Dim -> Int64]
          BY <5>1 DEF Job, Resources
        <5> QED BY <3>1, <5>1, <5>2, MaxInt64Assumption DEF IsAllocation, PosInt64, Int64
      <4>2. lifecycle[i].allocation[n] * jobs[i].resourcesPerReplica[d]
              = jobs[i].resourcesPerReplica[d] * lifecycle[i].allocation[n]
        BY <4>1
      <4> QED BY <2>1, <3>1, <4>2 DEF UseOf, InForce
    <3>2. CASE n \notin DOMAIN lifecycle[i].allocation
      BY <2>1, <3>2 DEF UseOf
    <3> QED BY <3>1, <3>2
  <2>4. SumFunctionOnSet(reported, JobIndexes) = SumFunctionOnSet(uses, JobIndexes)
    BY <2>1, <2>3, SumSame
  <2>5. ReportedUse(t, n, d) = UseAt(t, n, d)
    BY <2>1, <2>4 DEF ReportedUse, UseAt, SumFunction
  <2> QED BY <2>2, <2>5 DEF Executable
<1>3. StateInv => UsesAreNumbers
  BY UseType DEF StateInv
<1> QED BY <1>1, <1>2, <1>3, StateInvCorrect, LivesCorrect, QueueShapeCorrect,
           ExecutableFromNow, ExecutableStep, PTL DEF Spec

-----------------------------------------------------------------------------
(***************************************************************************)
(* The abstract allocator.  Its operators are the simulator's, and the     *)
(* resources that are free in it are those that remain.                    *)
(***************************************************************************)
LEMMA AllocatorOperators ==
  /\ \A f, S : Allocator!SumFunctionOnSet(f, S) = SumFunctionOnSet(f, S)
  /\ \A n, key : Allocator!EligibleSets(n, key) = EligibleSets(n, key)
  /\ \A members, rem, job : Allocator!Spreads(members, rem, job) = Spreads(members, rem, job)
  /\ \A n, rem, job : Allocator!Feasible(n, rem, job) <=> Feasible(n, rem, job)
<1>1. \A f, S : Allocator!SumFunctionOnSet(f, S) = SumFunctionOnSet(f, S)
  BY DEF Allocator!SumFunctionOnSet, SumFunctionOnSet, Allocator!FoldFunctionOnSet,
         FoldFunctionOnSet, Allocator!MapThenFoldSet, MapThenFoldSet
<1>2. \A f : Allocator!SumFunction(f) = SumFunction(f)
  BY <1>1 DEF Allocator!SumFunction, SumFunction
<1>3. \A n, key : Allocator!EligibleSets(n, key) = EligibleSets(n, key)
  BY DEF Allocator!EligibleSets, EligibleSets, Allocator!Label, Label,
         Allocator!NoTopology, NoTopology, Allocator!MissingKey, MissingKey,
         Allocator!EmptyName, EmptyName
<1>4. \A members, rem, job : Allocator!Spreads(members, rem, job) = Spreads(members, rem, job)
  BY <1>2 DEF Allocator!Spreads, Spreads, Allocator!Dim, Dim
<1>5. \A n, rem, job : Allocator!Feasible(n, rem, job) <=> Feasible(n, rem, job)
  BY <1>3, <1>4 DEF Allocator!Feasible, Feasible
<1> QED BY <1>1, <1>3, <1>4, <1>5

Initialized == pc \notin {"start", "failed"}

LEMMA FreeIsRemaining ==
  ASSUME StateInv, NodesOfCluster, Initialized
  PROVE  Allocator!Free = remaining /\ MakeNodeStates(cluster) = nodes
<1>1. /\ TypeInv /\ TypeOK /\ ResourceConservation /\ nodes = MakeNodeStates(cluster)
      /\ IsFiniteSet(JobIndexes)
  BY StatusesFinite DEF StateInv, TypeInv, NodesOfCluster, Initialized
<1>2. ASSUME NEW n \in NodeNames, NEW d \in Dim
      PROVE  nodes[n].capacity[d]
               - Allocator!SumFunctionOnSet([i \in DOMAIN jobs |->
                   jobs[i].resourcesPerReplica[d] * AllocatorHeld[i][n]], DOMAIN jobs)
               = remaining[n][d]
  <2> PICK used : used = [i \in DOMAIN jobs |->
                            jobs[i].resourcesPerReplica[d] * AllocatorHeld[i][n]]
    OBVIOUS
  <2> PICK held : held = [i \in JobIndexes |-> Held(i, n, d)]
    OBVIOUS
  <2>1. ASSUME NEW i \in JobIndexes PROVE used[i] = held[i]
    <3>1. AllocatorHeld[i][n] = IF i \in DOMAIN running /\ n \in DOMAIN running[i].allocation
                                THEN running[i].allocation[n] ELSE 0
      BY <1>1 DEF AllocatorHeld, NodeNames
    <3>2. jobs[i].resourcesPerReplica[d] \in Int
      <4>1. jobs[i] \in Job
        BY <1>1 DEF TypeOK, JobIndexes
      <4>2. jobs[i].resourcesPerReplica \in [Dim -> Int64]
        BY <4>1 DEF Job, Resources
      <4> QED BY <4>2, MaxInt64Assumption DEF Int64
    <3>3. used[i] = jobs[i].resourcesPerReplica[d] * AllocatorHeld[i][n]
      BY DEF JobIndexes
    <3> QED BY <3>1, <3>2, <3>3 DEF Held, ResourcesForReplicas
  <2>2. Allocator!SumFunctionOnSet(used, DOMAIN jobs) = TotalHeld(n, d)
    <3>1. SumFunctionOnSet(used, JobIndexes) = SumFunctionOnSet(held, JobIndexes)
      BY <1>1, <2>1, SumSame
    <3> QED BY <3>1, AllocatorOperators DEF TotalHeld, JobIndexes
  <2>3. /\ remaining[n][d] + TotalHeld(n, d) = nodes[n].capacity[d]
        /\ remaining[n][d] \in Int
    BY <1>1, RemainingBelowCapacity DEF ResourceConservation, Initialized
  <2>4. TotalHeld(n, d) \in Int
    <3>1. \A i \in JobIndexes : held[i] \in Int
      BY <1>1, HeldType DEF Initialized
    <3>2. SumFunctionOnSet(held, JobIndexes) \in Int
      BY <1>1, <3>1, SumInt
    <3> QED BY <3>2 DEF TotalHeld
  <2>5. Allocator!SumFunctionOnSet([i \in DOMAIN jobs |->
          jobs[i].resourcesPerReplica[d] * AllocatorHeld[i][n]], DOMAIN jobs)
          = TotalHeld(n, d)
    BY <2>2
  <2> QED BY <2>3, <2>4, <2>5
<1>3. remaining \in [NodeNames -> [Dim -> NonNegInt64]]
  BY <1>1 DEF TypeOK
<1>4. Allocator!Free = [n \in NodeNames |-> [d \in Dim |-> remaining[n][d]]]
  BY <1>1, <1>2 DEF Allocator!Free, Allocator!Dim, Dim, NodeNames
<1> QED BY <1>1, <1>3, <1>4

\* The abstract state is that of the jobs that run and of the two terminal
\* statuses.
LEMMA AllocatorStutters ==
  ASSUME UNCHANGED <<inputVars, running>>,
         WithStatus(LifecycleCompleted)' = WithStatus(LifecycleCompleted),
         WithStatus(LifecycleUnscheduled)' = WithStatus(LifecycleUnscheduled)
  PROVE  UNCHANGED Allocator!vars
<1>1. cluster' = cluster /\ jobs' = jobs /\ policy' = policy /\ running' = running
  BY DEF inputVars
<1>2. AllocatorStatus' = AllocatorStatus
  BY <1>1 DEF AllocatorStatus, JobIndexes
<1>3. AllocatorHeld' = AllocatorHeld
  BY <1>1 DEF AllocatorHeld, JobIndexes
<1> QED BY <1>1, <1>2, <1>3 DEF Allocator!vars, Allocator!inputVars

LEMMA AllocatorStarts == Init => Allocator!Init
BY DEF Init, Allocator!Init, Allocator!Nothing, AllocatorStatus, AllocatorHeld, WithStatus,
       JobIndexes

\* A completion ends a job.
LEMMA CompletionEnds ==
  ASSUME StateInv, NEW i \in JobIndexes, Completes(i),
         WithStatus(LifecycleCompleted)' = WithStatus(LifecycleCompleted) \cup {i},
         WithStatus(LifecycleUnscheduled)' = WithStatus(LifecycleUnscheduled)
  PROVE  Allocator!End(i)
<1>1. /\ cluster' = cluster /\ jobs' = jobs /\ policy' = policy
      /\ i \in DOMAIN running /\ running' = [j \in DOMAIN running \ {i} |-> running[j]]
  BY DEF Completes, inputVars, Restrict
<1>2. AllocatorStatus[i] = "running"
  BY <1>1 DEF AllocatorStatus
<1>3. AllocatorStatus' = [AllocatorStatus EXCEPT ![i] = "finished"]
  BY <1>1 DEF AllocatorStatus, JobIndexes
<1>4. AllocatorHeld' = [AllocatorHeld EXCEPT ![i] = Allocator!Nothing]
  BY <1>1 DEF AllocatorHeld, Allocator!Nothing, JobIndexes
<1> QED BY <1>1, <1>2, <1>3, <1>4 DEF Allocator!End, Allocator!inputVars

\* An admission starts a job, whole, on nodes that may host it and have room.
LEMMA AdmissionStarts ==
  ASSUME StateInv, NodesOfCluster, NEW i \in JobIndexes, NEW placed \in Place(i),
         Admits(i, placed),
         \A status : WithStatus(status)' = WithStatus(status)
  PROVE  Allocator!Start(i)
<1>1. /\ cluster' = cluster /\ jobs' = jobs /\ policy' = policy
      /\ running' = [j \in DOMAIN running \cup {i} |->
                       IF j = i THEN [finishTick |-> tick + jobs[i].durationTicks,
                                      allocation |-> placed.allocation]
                       ELSE running[j]]
      /\ Initialized /\ TypeInv /\ TypeOK /\ Partition
  BY DEF Admits, Admit, inputVars, Initialized, StateInv, TypeInv
<1>2. IsAt(i, FALSE, TRUE, FALSE, FALSE, FALSE)
  <2>1. DOMAIN lifecycle = JobIndexes
    BY <1>1 DEF TypeInv, InputsValidated, Initialized
  <2> QED BY <1>1, <2>1, HeadLeavesQueue DEF Admits
<1>3. AllocatorStatus[i] = "waiting"
  BY <1>2 DEF AllocatorStatus, WithStatus, IsAt
<1>4. AllocatorStatus' = [AllocatorStatus EXCEPT ![i] = "running"]
  BY <1>1 DEF AllocatorStatus, JobIndexes
<1>5. Allocator!Free = remaining /\ MakeNodeStates(cluster) = nodes
  BY <1>1, FreeIsRemaining
<1>6. PICK members \in EligibleSets(nodes, jobs[i].requiredTopology) :
        /\ members \subseteq NodeNames
        /\ DOMAIN placed.allocation \subseteq members
        /\ [n \in members |->
             IF n \in DOMAIN placed.allocation THEN placed.allocation[n] ELSE 0]
             \in Spreads(members, remaining, jobs[i])
  <2>1. PlacementInput(nodes, remaining, jobs[i])
    BY <1>1, PlacementCalled DEF Initialized
  <2>2. placed \in PlaceJob(nodes, remaining, jobs[i]) /\ placed.kind = "placed"
    BY DEF Admits, Place
  <2>3. PICK job : job = jobs[i]
    OBVIOUS
  <2>4. \E members \in EligibleSets(nodes, job.requiredTopology) :
          /\ members \subseteq DOMAIN nodes
          /\ DOMAIN placed.allocation \subseteq members
          /\ [n \in members |->
               IF n \in DOMAIN placed.allocation THEN placed.allocation[n] ELSE 0]
               \in Spreads(members, remaining, job)
    BY ONLY <2>1, <2>2, <2>3, PlacedSpread
  <2> QED BY <2>3, <2>4 DEF NodeNames
<1>7. PICK spread : spread = [n \in members |->
                      IF n \in DOMAIN placed.allocation THEN placed.allocation[n] ELSE 0]
  OBVIOUS
<1>8. AllocatorHeld' = [AllocatorHeld EXCEPT ![i] =
        [n \in DOMAIN MakeNodeStates(cluster) |-> IF n \in members THEN spread[n] ELSE 0]]
  BY <1>1, <1>5, <1>6, <1>7 DEF AllocatorHeld, JobIndexes, NodeNames
<1>9. /\ members \in Allocator!EligibleSets(MakeNodeStates(cluster), jobs[i].requiredTopology)
      /\ spread \in Allocator!Spreads(members, Allocator!Free, jobs[i])
  BY <1>5, <1>6, <1>7, AllocatorOperators
<1> QED BY <1>1, <1>3, <1>4, <1>8, <1>9 DEF Allocator!Start, Allocator!inputVars

\* A job that is unscheduled is given up: it does not fit what is free, or is
\* behind one that did not.
LEMMA LeftoverIsGivenUp ==
  ASSUME StateInv, NodesOfCluster, QueueShape, LeftOver,
         NEW i \in JobIndexes, NEW reason, GivesUp(i, reason),
         WithStatus(LifecycleCompleted)' = WithStatus(LifecycleCompleted),
         WithStatus(LifecycleUnscheduled)' = WithStatus(LifecycleUnscheduled) \cup {i}
  PROVE  Allocator!GiveUp(i)
<1>1. /\ cluster' = cluster /\ jobs' = jobs /\ policy' = policy /\ running' = running
      /\ Initialized /\ TypeInv /\ TypeOK /\ Partition /\ DOMAIN running = {}
      /\ DOMAIN lifecycle = JobIndexes
  BY DEF GivesUp, inputVars, Initialized, StateInv, TypeInv, InputsValidated, QueueShape
<1>2. IsAt(i, FALSE, TRUE, FALSE, FALSE, FALSE)
  BY <1>1, HeadLeavesQueue DEF GivesUp
<1>3. AllocatorStatus[i] = "waiting"
  BY <1>2 DEF AllocatorStatus, WithStatus, IsAt
<1>4. AllocatorStatus' = [AllocatorStatus EXCEPT ![i] = "given up"]
  BY <1>1, <1>2 DEF AllocatorStatus, JobIndexes, WithStatus, IsAt
<1>5. AllocatorHeld' = AllocatorHeld
  BY <1>1 DEF AllocatorHeld, JobIndexes
<1>6. \A j \in DOMAIN jobs : AllocatorStatus[j] # "running"
  BY <1>1 DEF AllocatorStatus, JobIndexes
<1>7. Allocator!Free = remaining /\ MakeNodeStates(cluster) = nodes
  BY <1>1, FreeIsRemaining
<1>8. \E k \in DOMAIN jobs :
        /\ k = i \/ (policy = PolicyStrictFIFO /\ AllocatorStatus[k] = "given up")
        /\ ~ Feasible(nodes, remaining, jobs[k])
  <2>1. CASE \E placed \in Place(i) : placed.kind = "rejected"
    <3>1. PlacementInput(nodes, remaining, jobs[i])
      BY <1>1, PlacementCalled DEF Initialized
    <3>2. ~ Feasible(nodes, remaining, jobs[i])
      BY <2>1, <3>1, PlacedExactlyWhenFeasible DEF Place
    <3> QED BY <3>2 DEF JobIndexes
  <2>2. CASE blockingJob # 0
    <3>1. policy = PolicyStrictFIFO /\ blockingJob \in Left
      BY <2>2 DEF QueueShape, LeftOver
    <3>2. ~ FitsIdleCluster(blockingJob)
      BY <3>1 DEF LeftOver
    <3>3. remaining = IdleCluster
      BY <1>1, IdleWhenNothingRuns DEF Initialized
    <3>4. ~ Feasible(nodes, remaining, jobs[blockingJob])
      BY <3>2, <3>3 DEF FitsIdleCluster
    <3>5. /\ blockingJob \in JobIndexes /\ blockingJob \in WithStatus(LifecycleUnscheduled)
          /\ blockingJob \notin WithStatus(LifecycleCompleted)
      BY <1>1, <3>1 DEF Left, WithStatus, LifecycleUnscheduled, LifecycleCompleted
    <3>6. AllocatorStatus[blockingJob] = "given up"
      BY <1>1, <3>5 DEF AllocatorStatus
    <3> QED BY <3>1, <3>4, <3>5, <3>6 DEF JobIndexes
  <2> QED BY <2>1, <2>2 DEF GivesUp
<1>9. \E k \in DOMAIN jobs :
        /\ k = i \/ (policy = Allocator!PolicyStrictFIFO /\ AllocatorStatus[k] = "given up")
        /\ ~ Allocator!Feasible(MakeNodeStates(cluster), Allocator!Free, jobs[k])
  BY <1>7, <1>8, AllocatorOperators DEF Allocator!PolicyStrictFIFO, PolicyStrictFIFO
<1> QED BY <1>1, <1>3, <1>4, <1>5, <1>6, <1>9 DEF Allocator!GiveUp, Allocator!inputVars

LEMMA AllocatorStep ==
  StateInv /\ NodesOfCluster /\ QueueShape /\ LeftOver /\ [Next]_vars
    => [Allocator!Next]_(Allocator!vars)
<1> SUFFICES ASSUME StateInv, NodesOfCluster, QueueShape, LeftOver, [Next]_vars
             PROVE  Allocator!Next \/ UNCHANGED Allocator!vars
  OBVIOUS
<1>1. TypeInv /\ Partition
  BY DEF StateInv
<1>2. CASE /\ \A status : status # StatusNone => WithStatus(status) = {}
           /\ \A status : status # StatusNone => WithStatus(status)' = {}
           /\ Begins
  <2>1. UNCHANGED <<inputVars, running>>
    BY <1>2 DEF Begins, NewSimulationState, Goto
  <2>2. LifecycleCompleted # StatusNone /\ LifecycleUnscheduled # StatusNone
    BY DEF LifecycleCompleted, LifecycleUnscheduled, StatusNone
  <2>3. /\ WithStatus(LifecycleCompleted)' = WithStatus(LifecycleCompleted)
        /\ WithStatus(LifecycleUnscheduled)' = WithStatus(LifecycleUnscheduled)
    BY <1>2, <2>2 DEF LifecycleCompleted, LifecycleUnscheduled
  <2> QED BY <2>1, <2>3, AllocatorStutters
<1>3. CASE /\ \A status : WithStatus(status)' = WithStatus(status)
           /\ Passes \/ \E i \in JobIndexes : Arrives(i)
  <2>1. UNCHANGED <<inputVars, running>>
    BY <1>3 DEF Passes, Arrives
  <2>2. /\ WithStatus(LifecycleCompleted)' = WithStatus(LifecycleCompleted)
        /\ WithStatus(LifecycleUnscheduled)' = WithStatus(LifecycleUnscheduled)
    BY <1>3 DEF LifecycleCompleted, LifecycleUnscheduled
  <2> QED BY <2>1, <2>2, AllocatorStutters
<1>4. CASE /\ \A status : WithStatus(status)' = WithStatus(status)
           /\ \E i \in JobIndexes : \E placed \in Place(i) : Admits(i, placed)
  <2>1. PICK i \in JobIndexes : \E placed \in Place(i) : Admits(i, placed)
    BY <1>4
  <2>2. Allocator!Start(i)
    BY <1>4, <2>1, AdmissionStarts
  <2> QED BY <2>2 DEF Allocator!Next, JobIndexes
<1>5. CASE \E i \in JobIndexes :
             /\ Completes(i)
             /\ WithStatus(LifecycleCompleted)' = WithStatus(LifecycleCompleted) \cup {i}
             /\ WithStatus(LifecycleUnscheduled)' = WithStatus(LifecycleUnscheduled)
  BY <1>5, CompletionEnds DEF Allocator!Next, JobIndexes
<1>6. CASE \E i \in JobIndexes : \E reason :
             /\ GivesUp(i, reason)
             /\ WithStatus(LifecycleUnscheduled)' = WithStatus(LifecycleUnscheduled) \cup {i}
             /\ WithStatus(LifecycleCompleted)' = WithStatus(LifecycleCompleted)
  BY <1>6, LeftoverIsGivenUp DEF Allocator!Next, JobIndexes
<1> QED BY <1>1, <1>2, <1>3, <1>4, <1>5, <1>6, StatusChange

(***************************************************************************)
(* A simulation implements the abstract allocator: jobs start whole on     *)
(* nodes of one domain that have room for them at once, keep what they     *)
(* were given until they end, and are given up only for want of room when  *)
(* nothing runs.                                                           *)
(***************************************************************************)
THEOREM SimulationImplementsAllocator == Spec => ImplementsAllocator
<1> QED BY AllocatorStarts, AllocatorStep, StateInvCorrect, NodesOfClusterCorrect,
           QueueShapeCorrect, LeftOverCorrect, PTL
        DEF Spec, ImplementsAllocator, Allocator!Spec

(***************************************************************************)
(* The safety half of CancellationHonoured.                                *)
(***************************************************************************)
LEMMA OnlyFinishReturns ==
  ASSUME Next, pc' = "done", pc # "done"
  PROVE  Finish
<1>1. CASE RejectInput \/ Canceled
  BY <1>1 DEF RejectInput, Canceled, Fail
<1>2. CASE NewSimulationState \/ NextEventTick
  BY <1>2 DEF NewSimulationState, NextEventTick, Goto
<1>3. CASE CompleteJob \/ CompletionsDone \/ ArriveJob \/ ArrivalsDone
  BY <1>3 DEF CompleteJob, CompletionsDone, ArriveJob, ArrivalsDone, Goto, Fail
<1>4. CASE TryAdmit \/ AdmissionDone
  BY <1>4 DEF TryAdmit, AdmissionDone, Retain, Goto, Fail
<1>5. CASE LeaveLoop \/ TerminalizePending
  BY <1>5 DEF LeaveLoop, TerminalizePending, Goto, Fail
<1>6. CASE UnscheduleUnplaceable \/ UnscheduleBlocked
  BY <1>6 DEF UnscheduleUnplaceable, UnscheduleBlocked, MarkUnscheduled, Goto, Fail
<1>7. CASE Cancel \/ Terminated
  BY <1>7 DEF Cancel, Terminated, vars
<1> QED BY <1>1, <1>2, <1>3, <1>4, <1>5, <1>6, <1>7 DEF Next, Step

(***************************************************************************)
(* A simulation whose context was canceled before the last look at it      *)
(* never returns a result.                                                 *)
(***************************************************************************)
THEOREM CanceledReturnsNoResult == Spec => [](ctxDone => pc # "done")
<1> DEFINE NoResult == ctxDone => pc # "done"
<1>1. Init => NoResult
  BY DEF Init
<1>2. ASSUME NoResult, [Next]_vars PROVE NoResult'
  <2>1. CASE UNCHANGED vars
    BY <1>2, <2>1 DEF vars, inputVars, nodeVars, queueVars, resultVars
  <2>2. CASE Next /\ pc' = "done" /\ pc # "done"
    BY <2>2, OnlyFinishReturns DEF Finish, FinalCheck, Goto, Fail
  <2>3. CASE Next /\ pc = "done"
    <3>1. ~ Step
      BY <2>3 DEF Step, RejectInput, NewSimulationState, NextEventTick, CompleteJob,
           CompletionsDone, ArriveJob, ArrivalsDone, TryAdmit, AdmissionDone, LeaveLoop,
           TerminalizePending, UnscheduleUnplaceable, UnscheduleBlocked, Finish, Canceled,
           ContextChecked, Steps
    <3>2. ctxDone' = ctxDone
      BY <2>3, <3>1 DEF Next, Cancel, Terminated, Terminal, vars
    <3> QED BY <1>2, <2>3, <3>2
  <2> QED BY <1>2, <2>1, <2>2, <2>3
<1> QED BY <1>1, <1>2, PTL DEF Spec
=============================================================================
