# TopoQueue in TLA+

TopoQueue simulates queue policies for gang jobs on a fixed cluster: a job's
replicas are placed all at once, optionally inside one topology domain (zone,
rack), by strict FIFO or by backfill. This directory holds a TLA+ model of its
scheduler, configurations that model-check it with TLC, and proofs checked by
TLAPS.

## The system

| Component | Source | State | Operations | Interaction |
|---|---|---|---|---|
| Input model, validation | `internal/model/model.go`, `validation.go` | none (values) | `ValidateCluster`, `ValidateJobs`, `ValidateTimedJobs`, `ValidateTopologyRequirements` | every entry point validates before it starts |
| Placement | `scheduler/placement.go` | `remaining` of each `nodeState` | `placeJob` | called by `Schedule`, `tryAdmit`, `finalPlacementReason`; charges nodes |
| Release | `scheduler/state.go` | the same node states, a list of checked releases | `releaseAllocation` | called on completion and to roll a placement back |
| Simulation engine | `scheduler/simulation.go`, `simulation_result.go` | arrivals, queue, running heap, lifecycles, events, aggregates | `Simulate`, one loop per kind of event | calls placement and release; observes a `context.Context` |
| Static schedule | `scheduler/scheduler.go` | node states, blocking job, decisions, totals | `Schedule` | calls placement; observes a context |
| Comparisons | `scheduler/compare.go`, `simulation_compare.go` | outcome channel, shared context | `Compare`, `CompareSimulations` | two goroutines, cancellation of the sibling |
| Loading | `model/load.go` | none | `LoadCluster`, `LoadJobs`, `LoadTimedJobs` | calls the YAML decoder and the validations |
| Output | `output/*.go` | a buffer per table | text and JSON writers | writes to stdout, section by section |
| Command | `cmd/topoqueue/main.go` | the arguments, the context a signal ends | `schedule`, `compare`, `simulate`, help | loads, calls one entry point, renders, exits |

What is hard in it: the engine is one goroutine, so the difficulty is not in
races but in long sequences of legal steps. Completions, arrivals and
admissions meet at one tick and must be taken in a fixed order; the next tick
is the minimum of two sources; the queue is rebuilt while it is scanned;
resources are charged by one function and credited by another, many events
later; ticks, delays and sums come close to the bound of int64; the context may
be canceled between any two loop iterations; and the reasons given for
leftovers rely on the cluster being idle again. The comparisons add real
concurrency: two goroutines, a channel, a context that the collector may cancel
while the caller's may end, and an error to select among those that come back.
The command adds a signal at any moment and writes that fail half way.
`PROJECT.json` lists each of these hazards at its line, with the
properties that would catch it.

What makes each component correct:

* validation: whatever passes it makes the scheduler's unchecked arithmetic safe;
* placement: a job is placed if and only if some spread of it exists, in the best
  domain and on the fewest nodes, deterministically, and a refusal has the right reason;
* release: it is accepted for what was placed, and undoes it exactly;
* engine: resources are conserved, no event is skipped, no job is lost or run
  twice, the policies keep their promises, and the reported result is one that
  could be executed, with the right totals;
* schedule: the accounting agrees with the nodes, one job blocks strict FIFO and
  is named by all behind it, and no second pass could admit more;
* comparisons: the answer does not depend on which goroutine is faster, nobody
  is left behind, and backfill's result is never worse than strict FIFO's;
* loading: a file of the wrong kind, or with anything after its document, is refused;
* command: exit status 0 means that the whole output is on stdout, and a failure
  leaves a part of it there only if a write failed.

## Modules

| Module | What it is |
|---|---|
| `TopoModel` | inputs, `int64`, the four validations |
| `QueuePolicies` | the two policies and the order of their names |
| `Placement` | `placeJob` as the set of outcomes it can return, and `Consumed`, the charge |
| `Release` | `releaseAllocation` as operators: `ReleaseAccepted` and `Released` |
| `Scheduler` | what both schedulers share: reasons, names, idle resources |
| `Simulation` | the engine: state, one action per loop iteration, invariants of the state |
| `Schedule` | the static pass: state, one action per loop iteration |
| `Comparison` | the calling goroutine, the channel and the two contexts of a comparison |
| `Compare` | `Comparison` with two instances of `Schedule` as its goroutines |
| `CompareSimulations` | `Comparison` with two simulations reduced to their errors |
| `ReleaseAllocation` | `releaseAllocation` as a procedure over slices |
| `Loading`, `Rendering` | the loaders as functions of a decoded file; the output as a sequence of sections |
| `CommandLine` | the program, from its arguments to its exit status |
| `Feasibility` | what placement promises, without the algorithm: search all spreads |
| `GangAllocator` | abstract specification of both schedulers: jobs start whole, hold, end, are given up |
| `AtomicComparison` | abstract specification of both comparisons: no goroutine, one answer |
| `PlacementProperties`, `SimulationProperties`, `ScheduleProperties` | what each promises |
| `MC...` | instances for TLC: `MCPlacement`, `MCSimulation`, `MCSchedule`, `MCCompare`, `MCReleaseAllocation`, `MCCommandLine` |
| `PlacementProofs`, `PlacementTheorems` | lemmas about sums and one placement; the theorems about it |
| `ReleaseProofs` | that the procedure `releaseAllocation` computes its operators |
| `SimulationProofs` | the simulation: the safety of its state; its jobs, policies, errors and leftovers; the result it reports; its refinement of `GangAllocator` |
| `ScheduleProofs` | the static schedule, its refinement of `GangAllocator` included |
| `ComparisonProofs` | `CompareSimulations` and the safety of its refinement of `AtomicComparison` |
| `CompareProofs` | the same for `Compare`, with two instances of `ScheduleProofs` for its goroutines, and how their results compare |
| `CommandLineProofs` | the output and exit status of the command, and the two loaders |

`Simulation` and `Schedule` extend `Scheduler`, which extends `Placement` and
`Release`; they call them as the code does. `Compare` instantiates `Schedule`
twice, with the state of one goroutine each and the derived context as both
schedules' context. What a composition takes for granted about a part is a
property of that part: `CommandLine` and `CompareSimulations` reduce a
scheduler to its outcome by `FailsOnlyForCaller`, `Termination` and
`OneOutcome`, and `Simulation` uses the operators of `Release` because of
`AgreesWithRelease`.

### Representation

* A string is compared only for equality and in lexical order, so names and
  labels are natural numbers (ranks), 0 being the empty string.
  `MissingKey` is a key absent from a topology map; `GlobalTopologyDomain` is -1.
* An `int64` is an integer of `Int64`; `MaxInt64` is a parameter. Arithmetic the
  code checks is checked in the model by the same comparison; that the arithmetic
  it does not check stays in range is the property `ArithmeticInRange`.
* `[]nodeState` is the pair of functions `nodes` (immutable part) and
  `remaining`; the slice is only walked in name order. `[]Allocation` is a
  function from the nodes used to replicas. `ReleaseAllocation` keeps both as
  slices, which may name a node twice.
* `placeJob` is a set of outcomes because `sort.Slice` is not stable. That the
  set is a singleton is the property `OneOutcome`.
* A nil `*int64` tick of a result is `NoTick` (-1). A zero `Reason` is
  `NoReason`. In a file a missing tick is `Absent` and one that is null `Null`:
  strict decoding tells the first apart, the loader the second.
* A YAML file is what the decoder, a library, makes of it: unreadable, empty,
  malformed, or a document followed by nothing, by another one, or by something
  that does not parse.
* Output is a sequence of sections: what lies between two points where the code
  looks at a write error. A table goes through a buffer flushed once, JSON is
  one section.
* An error is its kind; the context's is `canceled` or `deadline`, which the
  comparisons' error selection tells apart. A caller may also pass no context at
  all: `NilContext` stands for it where the context's error is kept, and every
  entry point refuses it before it looks at anything else.

### State and actions of `Simulation`

| Variable | Code |
|---|---|
| `cluster`, `jobs`, `policy` | the arguments; `jobs` is indexed like `s.jobs.Jobs` |
| `future` | `arrivalOrder[arrivalCursor:]`, as a set; its order is `ArrivesBefore` |
| `pending`, `retained` | `s.pending`; during a backfill scan, the part not looked at yet and the local `retained` |
| `running` | `s.running`: the heap as a function of the input index, with `FinishesBefore` for `Less` |
| `nodes`, `remaining` | `s.nodes` |
| `lifecycle`, `events`, `stats` | `s.result` |
| `tick`, `blockingJob` | the local variables of `run` and `terminalizePending` |
| `ctxNil` | `ctx == nil`, an argument like the three above |
| `ctxDone` | `ctx.Err() != nil` |
| `pc`, `err` | which loop the goroutine is in; the error it returned |

| Action | Code |
|---|---|
| `RejectInput`, `NewSimulationState` | the checks of `Simulate`, `newSimulationState` |
| `NextEventTick`, `LeaveLoop` | the loop of `run` |
| `CompleteJob`, `CompletionsDone` | one iteration, and the end, of the loop of `completeJobs` |
| `ArriveJob`, `ArrivalsDone` | the same for `arriveJobs` |
| `TryAdmit`, `AdmissionDone` | the same for `admitJobs`, with all of `tryAdmit` |
| `TerminalizePending`, `UnscheduleUnplaceable`, `UnscheduleBlocked` | `terminalizePending` |
| `Finish` | the end of `run` |
| `Cancel`, `Canceled` | the caller cancels the context; a check returns its error |

An action runs from the context check at the top of a loop to the next one. A
cancellation in between, also one that `placeJob` notices, has the effect of
one just before the next check, since an error discards the whole state and
`placeJob` looks at the context only before it charges a node. Two loops may
end without a check (nothing due at this tick), and `completeJobs` has a second
one after each completion; `ContextChecked` says where a check is made. A
failing step records which error it returns and keeps the state as it was.

In two places the model's bookkeeping differs from the code's: `pending` is
consumed while backfill scans it and while the leftovers are reported (the code
walks it), and the average queue delay, a `float64`, is left out.

Definitions whose comment starts with "Fault:" are not part of the model. Each
is what a plausible bug would make of the definition below it; replacing one by
the other makes a named property fail, and `PROJECT.json` lists the pairs.

### State and actions of `Schedule`

`jobs`, `policy` and `cluster` are the arguments, `remaining` the node states,
`blockingJob` the local of that name, `decisions` is `result.Jobs` and `totals`
the result's other fields. `RejectInput` makes the checks of the arguments in
their order, `Start` the rest of the prologue; each iteration of the loop is
`SkipBlocked`, `Decide` (refuse or admit) or `Canceled`; `Finish` returns.
`EndContext` is the caller's, by a cancellation or a deadline; `ctxErr` is the
error of the context, or `NilContext` from the beginning.

### State and actions of the comparisons

| Action of `Comparison` | Code |
|---|---|
| `Reject`, `Launch` | the checks of the arguments; the `go` statements |
| `Send` | `outcomes <- outcome` in a goroutine, into a buffer of two |
| `Collect` | one iteration of the receiving loop, with or without `cancel()` |
| `Return`, `Selected` | `selectPolicyOutcomeError`, and the deferred `cancel()` |
| `EndContext`, `Propagate` | the caller's context ends; the derived one follows some time later |

`Compare` adds the steps of both schedules and cancels on any failure;
`CompareSimulations` sends a simulation's own error or that of its context and
cancels only when backfill fails by itself (`CancelsSibling`). `callerErr` is the
error of the caller's context, `ctxErr` that of the derived one.

### State and actions of `ReleaseAllocation` and `CommandLine`

`ReleaseAllocation` has one action per iteration: `CheckState`, `CheckEntry`,
`CheckTotal`, then `Apply` for each checked release. `CommandLine` follows
`main.go`: `Dispatch`, `ParseFlags`, `CheckArguments`, `LoadInputs`,
`CallScheduler`, `Scheduled`, `WriteSection`, `Report`; `Signal` may come at any
moment, `WriteFails` in place of any write, leaving a part of the section
behind, or killing the process when stdout is a pipe nobody reads.
`StderrBroken` kills it the same way where the usage, a flag error or the final
error is written to stderr.

## Model checking

| Run | Question | Bounds |
|---|---|---|
| `placement` | Is `placeJob` sound, complete, optimal, deterministic, and right about its reasons? | four nodes in two zones, every remaining capacity up to (3,2,3,1) CPUs and (1,2,0,1) GPUs, nine jobs: 20,736 states |
| `simulation_policies` | Do whole simulations keep every promise under both policies? | two clusters of two and three nodes; all ordered triples of ten jobs and quadruples of five: 203,997 states |
| `simulation_edges` | Are the bounds of int64 and the validation right? | `MaxInt64` = 7, ten clusters and every single violation of an input rule: 62,942 states |
| `simulation_endings` | Does a simulation end, and is a cancellation honoured? | two clusters, up to three jobs, a cancellation at any moment: 7,934 states |
| `schedule` | Does a static schedule account, block and refuse rightly? | `MaxInt64` = 7, five clusters; all triples of eight jobs, quadruples of four, invalid ones; the context ends at any moment: 197,666 states |
| `compare` | Does the answer of `Compare` depend on the interleaving? | three clusters, all triples of three jobs, every interleaving of both schedules with the collector and the context: 40,253 states |
| `compare_simulations` | Which error does `CompareSimulations` return? | every pair of outcomes of the simulations, every order, a context that ends at any moment: 1,179 states |
| `release` | Is `releaseAllocation` all or nothing, and what `Release` says? | `MaxInt64` = 5; two nodes in consistent and inconsistent states, every slice of up to two entries, many of three: 176,403 states |
| `command_line` | Do output and exit status agree? | every command and flag value, files that fail each check of a loader, all pairs of ticks: 34,620 states |

Properties of `placement` are stated against `Feasibility`, which enumerates
every way to spread the replicas over a domain: `PlacedIffFeasible` (it places
exactly when it can, and never fails), `PackingIsSoundAndCompact` (filling the
largest node first uses the fewest nodes), `BestFitDomain`, `OneOutcome`,
`ReasonIsExact` and `RollbackRestores`. Four nodes in two domains are the least
that tell best fit, fewest nodes and name order apart and make greedy packing
choose; a domain's nodes are named out of order.

Properties of `simulation_policies`: `ResourceConservation`, `NoEventMissed`,
`JobsPartitioned`, `QueueInArrivalOrder`, `NoInternalError` (all nine internal
error returns are dead code), `QueueQuiescent` (one backfill scan is enough:
what it passed over still does not fit, by `Feasibility`),
`StrictAdmitsInArrivalOrder`, `TimelineOrdered`,
`ReportedTimelineRespectsCapacity` (replaying the reported lifecycles never
exceeds a node), `ReportedMetrics`, `LeftoversExplained` (backfill leaves
exactly the jobs that do not fit the idle cluster; strict FIFO the first such
job and all behind it), `GangPlacement` and `LifecycleFrozen`. The catalogues
contain jobs that end together, that arrive when others end, that block the
head, that backfill overtakes, and that never fit for either reason; four jobs
let a queue of two be scanned while two jobs run.

`ImplementsAllocator` says that the whole simulation is a run of
`GangAllocator`: the queue, the clock, the phases and the greedy packing are
gone, and what is left is that a job starts on all its replicas inside one
domain, within what the running ones leave, keeps that until it ends, and is
given up only when it does not fit a cluster on which nothing runs.

`simulation_edges` reaches both overflow errors and every input error;
`ArithmeticInRange` shows what the validation is for, `OverflowIsReal` that
neither overflow check is off by one.

`simulation_endings` checks liveness. Fairness is weak fairness of the
simulator's own step: it is one goroutine that runs without waiting for
anything, so as long as it has a step to take it takes one. The caller's
`Cancel` is not fair: nobody has to cancel. `CancellationHonoured` says that a
context canceled at any point before the result is returned ends in an error.

`schedule` checks `ResourcesAccounted` (nodes are charged per node of the
allocation, totals per job, and the two agree), `BlockedByFirst`,
`RefusedStaysUnfit` (one pass is enough), `FailsOnlyForCaller` (a placement
never fails on validated inputs; were it to, `Compare` could return either
policy's error), `Replayable` (every decision can be worked out from the
decisions reported before it: what is reported and what was charged never
drift apart) and `ImplementsAllocator`, here without the end of a job. One
cluster has totals of exactly `MaxInt64`, another exceeds it.

`compare` and `compare_simulations` check that the comparison implements
`AtomicComparison`, which answers in one step: a refusal without a context, the
results, or the error of the first failing policy by name, or, once the caller's
context has ended, that error or one a policy runs into by itself. As the abstract specification is
fair, so is the statement: the comparison answers. Fairness is weak fairness of
the goroutines, which only wait for one another; no context has to end. A
simulation is taken to return, which `simulation_endings` checks.
Once the context has ended the abstract comparison leaves open which policy the
error is of; `AnswersForBoth` of `compare` says which, at the state in which
`Compare` returns: either no schedule has started, or both have ended, nothing
of them is left in the channel, and the answer is both results, or the caller's
error for the first by name of the policies whose schedule failed, whichever
outcome was received first. `NoGoroutineLeft` of `compare_simulations` says that
both outcomes have been received by then; `BackfillDominates` of `compare` that
the two schedules agree up to the job that blocks strict FIFO and that backfill
admits and uses at least as much.

Two cases that the bounds must reach for these to mean something: a context
that ends between the `Send`s of the two goroutines, with either error, and a
failure of strict FIFO that is received first while backfill has yet to fail.
Both are in every instance, as the context is unconstrained and all pairs of
errors are initial states.

`release` compares the procedure with the operators for every combination, those
the operators cannot express included: duplicates, unknown nodes, wrong totals,
replicas that overflow the sum, and states with more remaining than capacity.

`command_line` checks `OutputMatchesExit` and `NoWorkloadMistaken` (only a file
without jobs passes both the static and the timed loader).

Deadlock is checked in every run; a returned call stutters explicitly
(`Terminated`, `Return`, `Returned`, `Exited`).

## Proofs

Every safety property and every action property a run checks is also a theorem.
The theorems hold for every cluster, every workload or job set, every set of
policy names, every set of simulation errors, every argument of
`releaseAllocation`, every argument list of the command and every positive
`MaxInt64`. They assume what the modules assume of their constants: `Clusters`,
`Workloads`, `JobSets`, `NodeStates`, `ReleasedJobs` and `Allocations` hold
records, or sequences of records, of the right types, valid or not;
`Invocations` name files as a decoder of typed fields can return them
(`IsDocument`), valid or not; and `TopologyKeys` is finite.

### Placement (`PlacementProofs`, `PlacementTheorems`)

The promises of `placeJob` are about one call: their state machine only chooses
its inputs, `InputAlwaysOK` says that these are validated, and the rest follows
from lemmas about the operators of `Placement`.

* `PlacesWhatFits`: a job is placed exactly when `Feasible` finds some spread,
  and no call fails. Soundness is `SlotsBound`: the slots of a node fit, by
  integer division and its minimum over the dimensions. Completeness is that no
  spread puts more on a node than its slots (`SlotsGreatest`) and that greedy
  packing places every replica when the slots of a domain suffice
  (`PackingComplete`).
* `PackingIsBest`: no spread over the same domain uses fewer nodes, an exchange
  argument over sums (`SumExchange`): the packed nodes are those with the most
  slots, so fewer nodes offer too few slots.
* `SelectionIsBestFit`, `PlacementIsDeterministic`: among the candidates the
  preference is a total order on domains, so it has exactly one first element,
  whatever order the unstable sort leaves equal elements in.
* `RefusalIsExplained`: the number in a refusal is the most replicas any domain
  can take. `RollbackIsExact`: releasing what was just placed is accepted, and
  leaves every node as it was.
* `PlacementProofs` begins with facts about sums over finite sets, derived from
  the definition the community modules give by recursion on sets: the fold's
  defining equation is established for every finite set first, then sums of
  equal functions, of zero, of an updated function, over a renamed set, and so on.

### Release (`ReleaseProofs`)

`ReleaseIsAtomic`: `Spec => []AgreesWithRelease`. The procedure's loops accept
exactly what the predicate `ReleaseAccepted` accepts, leave what `Released`
says, and a release they reject, for its last entry say, has changed no node.
The invariant, `Progress`, says for each loop which entries have been accepted
and that the running total is their sum; while the nodes are written, which of
them have been credited and that the others are as given. That a rejection is
right is the interesting half: the running total only exceeds int64 when the
total of a valid allocation would, because its entries are positive
(`RunningTotal`). The slices become functions by name in `NodesByName` and
`EntriesByNode`, and their sum by name the sum by index in `ReplicasAddUp`.

### Simulation (`SimulationProofs`)

* `TypeCorrect`: `Spec => []TypeOK`. Its content is arithmetic: `remaining` is
  never negative and never above int64, a finish tick, a delay and the total of
  the delays do not overflow. `TypeOK` is not inductive: that a credited node
  stays in range needs the release's checks and the validated inputs, and that
  a finish tick is in range needs the current tick to be one of an event.
  `TypeInv` adds these: the inputs have been validated once the simulation has
  started, nothing exists before, and the tick is that of an event while one is
  processed. The proof has one lemma per action that does something.
* `PlacedAllocation` (lemma) is what the proof needs of placement: whatever
  domain is selected, every replica is placed and no node is charged beyond
  what remains.
* `NoEventIsMissed`: `Spec => []NoEventMissed`, inductive with `TypeInv`. The
  step that needs an argument is leaving a phase: `CompletionsDone` says that no
  job is at the heap's head *and* due, the invariant needs that no running job
  is due. `SomeJobIsDue` closes the gap: the least index among the due jobs is
  at the head, because nothing finishes before the tick. A job started at a tick
  ends after it because durations are positive.
* `NoJobIsLost`: `Spec => []JobsPartitioned`. The proof works with `Partition`,
  the same statement with the locations written out, and two facts about
  sequences: passing over the head of a scan leaves the queue
  `retained \o pending` as it is (`RetainKeepsQueue`), and taking the head out
  removes that job and no other (`TailRemovesHead`).
* `ResourcesAreConserved`: `Spec => []ResourceConservation`. It needs
  `Partition` (a job that starts does not hold anything yet) and that changing
  one term of a sum changes the sum by as much (`SumUpdate`); that a completion
  credits what was charged is that `running` keeps the allocation of the
  placement.
* `QueueIsInArrivalOrder`: `Spec => []QueueInArrivalOrder`. Order alone is not
  inductive, an arrival is appended; `QueueOrder` adds that every queued job
  arrives before every job of the future.

`StateInv` is the conjunction of these. The further theorems rest on it and on
`StepKinds`: whatever the program counter does, a step begins the simulation,
completes, starts, admits or gives up one job, or leaves all jobs as they are.
Each has an invariant of its own:

* `GangsArePlacedWhole`, from `Lives`: what the lifecycle of a job says agrees
  with where the job is, and its allocation is a whole gang in one domain that
  fitted when it started. `LifecyclesAreFrozen` is the action property: a
  finished job's record never changes.
* `QueueBecomesQuiescent`, from `QueueShape` (who may be retained or blocking in
  which phase) and `Quiet`: once a scan is over, no job the policy may start
  fits. `AdmissionMakesNoRoom` is the reason one scan is enough: a start makes
  no refused job fit.
* `NoInternalErrorOccurs` and `OverflowsAreReal`, from `ErrorsJustified`: an
  internal error never occurs and an overflow is reported only when a sum the
  result needs leaves int64. `ReleaseIsAccepted` and `Counts` (the aggregates
  count the jobs) make the internal checks unreachable; `IdleWhenNothingRuns`
  that the capacity has come back when the leftovers are looked at.
* `StrictFIFOIsInOrder`: an action property, from the order of the queue and
  that strict FIFO retains nobody.
* `LeftoversAreExplained`, from `LeftOver`: a job is only left over when it does
  not fit the idle cluster, or behind strict FIFO's blocking job, and its
  reason says which.
* `TimelineIsOrdered`, from `Timely`: the last event precedes everything the
  current tick may still append.
* `ArithmeticStaysInRange` and `MetricsAreExact`, from `NodesOfCluster`,
  `Counts`, `DelaysAddUp` and `Span`: the running aggregates are those of the
  lifecycles and of the timeline.
* `TimelineIsExecutable`, from `ExecutableNow`: at the current tick and after
  it, what the lifecycles say is in use is what is held; the past does not
  change.
* `CanceledReturnsNoResult`: the safety half of `CancellationHonoured`. Only
  `Finish` returns a result (`OnlyFinishReturns`), and it looks at the context.
* `SimulationImplementsAllocator`: `Spec => ImplementsAllocator`, every
  simulation is a run of `GangAllocator`. What is free there is what remains
  here (`FreeIsRemaining`, which is conservation); a completion is an end
  (`CompletionEnds`), an admission a start in one domain with room
  (`AdmissionStarts`), a leftover a job given up for want of room, or after one
  that was (`LeftoverIsGivenUp`); every other step stutters.

### Static schedule (`ScheduleProofs`)

* `ScheduleTypeCorrect`, `ScheduleAccounts` and `FirstRefusedBlocks`:
  `Spec => []TypeOK`, `[]ResourcesAccounted` and `[]BlockedByFirst`. They are
  proved together, as `Inv`, because they need one another:
  `UsedResources` is added up without a check, and stays in int64 because used
  and remaining resources add up to the total `ValidateCluster` bounded; what a
  job holds is a number because its decision is well-formed; the accounts start
  right because the sum by node name is the sum by index (`SumByName`, from
  unique names). `TypeInv` adds that the inputs are validated once the loop
  runs. `RefusalReason` is what blocking needs of placement: a refused job has
  one of placement's own reasons, never `head_of_line_blocked`.
* `PlacementNeverFails`: `Spec => []FailsOnlyForCaller`, from
  `PlacedExactlyWhenFeasible`. `RefusalsAreFinal`: `Spec => []RefusedStaysUnfit`,
  because feasibility only shrinks with what remains (`FeasibleMonotone`).
* `ScheduleImplementsAllocator`: `Spec => ImplementsAllocator`. A decision is a
  start or a job given up (`DecisionAbstracted`); that a skipped job may be
  given up is that the blocking job still does not fit, `RefusalsAreFinal`.

* `ScheduleIsReplayable`: `Spec => []Replayable`. The property is about the
  returned result; the invariant, `History`, says of every decision so far that
  it is what placement makes of `LeftBefore`, the capacities less what earlier
  decisions hold, or that the job is behind the blocking one. The step needs
  that `LeftBefore` of the next job is what remains, which is accounting, and
  that appending a decision changes none of the earlier `LeftBefore`.
* `RunInv` gathers what holds of a run at every step, with `RunInit`, `RunStep`
  and `RunContext` for its start, a step of its own and the end of its context,
  and `DoneDecidedAll`, `DoneAccounted` and `DoneDecisions` for what it means
  once the schedule is returned. It is what `CompareProofs` takes from here.

### Comparison of schedules (`CompareProofs`)

`Compare` runs two instances of `Schedule`, so the proofs use `ScheduleProofs`
twice, as `StrictP` and `BackfillP`, under the assumptions those instances make
(`Assumed`). An operator of one instance is equal to that of the other only once
its definition is opened, although neither depends on the goroutine's state: the
lemmas `Same...` say so, from the sums up to `SamePlaceJob`, and `StrictSteps`
and `BackfillSteps` that a goroutine's steps are steps of `Schedule`.

* `AnswerSpeaksForBoth`: `Spec => []AnswersForBoth`. The invariant, `Inv`, says
  that a policy's outcome is in one place, that it is true to what its goroutine
  ended with, that an error is the derived context's (`FailsOnlyForCaller` for
  both goroutines), and that until `Compare` returns this context ends only
  with the caller's: no schedule fails first, so none cancels the other. Both
  schedules satisfy `RunInv` throughout. At the step that returns, both outcomes
  have been received, each is what its goroutine ended with, and all errors among
  them are the caller's one, so `Selected` goes by the policies' names alone
  (`SelectedSpeaksForBoth`).
* `ComparesAtomically`: `Spec => Atomic!Init /\ [][Atomic!Next]_(Atomic!vars)`,
  the safety part of `ImplementsAtomic`. Since a schedule fails only with its
  context, an error returned is the caller's.
* `BackfillAdmitsNoLess`: `Spec => []BackfillDominates`. Both results can be
  replayed, so, by induction over the jobs, decisions that agree so far leave the
  same (`SameLeft`), and then placement, which has one outcome, decides alike
  (`SameDecision`), up to the job that blocks strict FIFO (`AgreeUntilBlocked`).
  Behind it strict FIFO holds nothing, so every node has given no less under
  backfill (`BackfillLeavesLess`), and the totals follow from the accounts
  (`BackfillUsesMore`).

### Comparison of simulations (`ComparisonProofs`)

`NoGoroutineIsLeft`: `Spec => []NoGoroutineLeft` of `CompareSimulations`, and
`AnswersAtomically`, the safety part of its refinement of `AtomicComparison`:
`Spec => Atomic!Init /\ [][Atomic!Next]_(Atomic!vars)`. The invariant says that
each outcome is in one place (its simulation runs, it is in the channel, or it
has been received) and that every error has its cause: the simulation's own, the
caller's context, or, for `canceled`, a backfill simulation that has failed
with another error. The last clause makes the returned error independent of
the order: backfill's error precedes the one it caused in its sibling.

### Command line (`CommandLineProofs`)

* `ExitStatusIsTrue`: `Spec => []OutputMatchesExit`. While sections are written,
  what is written and what is still to be written make up the whole output
  (`Writing`); a run ends with all of it and no error, with an error before any
  of it, or cut short by a failed write (`RunResult`), and the exit status tells
  which (`Ended`). `CutShort` is the fact about sequences: a part followed by at
  least one section is a strict prefix. Before rendering nothing has been
  written (`NothingWritten`), whatever check failed and whenever a signal came.
* `WorkloadKindsAreTold`: `Spec => []NoWorkloadMistaken`: the static loader takes
  only entries without ticks, the timed one only entries with both, so a file
  that passes both has no entry.

### Left to TLC

Liveness and fairness (`Termination`, and the other halves of
`CancellationHonoured` and of both `ImplementsAtomic`: that a canceled
simulation fails, and that a comparison answers) are out of the proof system's
reach. Everything else the runs check is proved.

## What is not modelled

* Texts: of messages, of tables and of JSON. Rendering is the order of the
  sections and what a failed write does; a section's text is the formatting of
  one value. `RequestedResources` of a result and the average delay, a
  `float64` that only the output reads, go with it.
* The YAML decoder and the flag package are libraries: a file or an argument
  list is what they make of it.
* A file that changes between two reads, or a read that blocks: every file is
  read once, and the context is not looked at meanwhile.
* `Clone` has no counterpart: values of TLA+ are never shared. The comparisons'
  goroutines get copies in the code, so they share only the context and the
  channel, as in the model.
* `CompareSimulations` does not run two simulations step by step, as `Compare`
  does with schedules: the product of two simulations is out of reach for TLC at
  a size where the policies differ. They share only the context; each is
  reduced to the error it returns.
* Branches no call reaches: the check of `run` for a nil context (`main` passes
  the one of `signal.NotifyContext`), the error of `ParsePolicy` in
  `runSimulate`, which has checked the flag, the `default` of the policy
  switches in `admitJobs` and `terminalizePending`, and the missing next event
  in the simulation's `run`, whose loop condition excludes it.
* `make` targets, examples, the benchmark and the tests.

## Plan

Done: the model of every component, the two abstract specifications with their
refinements checked and, but for fairness, proved, and a theorem for every
safety and action property of every run. What remains is what only TLC can say
here, the liveness properties above, and to keep model and proofs with the code:
a change to a function is a change to the definitions `PROJECT.json` maps to it,
and the lemmas named after them are the proofs to look at.
