-------------------------- MODULE CompareSimulations --------------------------
(***************************************************************************)
(* CompareSimulations (src/internal/scheduler/simulation_compare.go).      *)
(*                                                                         *)
(* A simulation is reduced to what the comparison sees of it: Simulate is  *)
(* deterministic, so each policy has one error of its own for the given    *)
(* inputs ("none" when it succeeds), and it returns that, or the error of  *)
(* its context if that ends before the simulation does.  That it returns   *)
(* is Termination of module SimulationProperties, and that nothing is left *)
(* to chance OneOutcome of module PlacementProperties.                     *)
(***************************************************************************)
EXTENDS Comparison

CONSTANT SimulationErrors   \* the errors of Simulate on validated inputs

ASSUME SimulationErrorsAssumption ==
  /\ SimulationErrors \subseteq STRING
  /\ SimulationErrors \cap (ContextErrors \cup {"none", NotReceived}) = {}

VARIABLES
  inputErr,    \* the check of the arguments that fails, "none" if none does
  own          \* the error each simulation fails with by itself

vars == <<comparisonVars, inputErr, own>>

Init ==
  /\ ComparisonInit
  /\ inputErr \in {"none", "cluster", "jobs", "topology"}
  /\ own \in [Policies -> {"none"} \cup SimulationErrors]

Start == (Reject(inputErr) \/ Launch(inputErr)) /\ UNCHANGED <<inputErr, own>>

\* Goroutine p: Simulate returns and its outcome is sent.
Simulated(p) ==
  /\ \/ Send(p, own[p])
     \/ ctxErr # "none" /\ Send(p, ctxErr)
  /\ UNCHANGED <<inputErr, own>>

\* Fault: a failure of either policy cancels the other, as in Compare.
CancelsSiblingEither(outcome) == outcome.err # "none"

\* Only a failure of backfill, whose error goes first, cancels the other.
CancelsSibling(outcome) ==
  outcome.policy = PolicyBackfill /\ outcome.err \notin {"none", "canceled"}

CollectOne == Collect(CancelsSibling(Head(outcomes))) /\ UNCHANGED <<inputErr, own>>

Environment == (EndContext \/ Propagate) /\ UNCHANGED <<inputErr, own>>
Answer == Return /\ UNCHANGED <<inputErr, own>>
Returned == phase = "returned" /\ UNCHANGED vars

Next ==
  \/ Start \/ CollectOne \/ Answer
  \/ \E p \in Policies : Simulated(p)
  \/ Environment
  \/ Returned

(***************************************************************************)
(* A simulation ends (Termination of module SimulationProperties), and the *)
(* calling goroutine goes on whenever it can; no context has to end.       *)
(***************************************************************************)
Fairness ==
  /\ WF_vars(Start) /\ WF_vars(CollectOne) /\ WF_vars(Answer)
  /\ \A p \in Policies : WF_vars(Simulated(p))

Spec == Init /\ [][Next]_vars
FairSpec == Spec /\ Fairness

(***************************************************************************)
(* Whatever the order in which the goroutines end and the caller's context *)
(* does, the comparison answers, and with what AtomicComparison allows:    *)
(* the error reported never depends on which simulation was faster.        *)
(***************************************************************************)
Atomic == INSTANCE AtomicComparison WITH OwnErrors <- SimulationErrors
ImplementsAtomic == Atomic!Spec
=============================================================================
