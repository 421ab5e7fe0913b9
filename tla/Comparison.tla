------------------------------ MODULE Comparison ------------------------------
(***************************************************************************)
(* What Compare and CompareSimulations (src/internal/scheduler/compare.go, *)
(* simulation_compare.go) have in common: one goroutine per policy runs it *)
(* under a context derived from the caller's and sends its outcome on a    *)
(* buffered channel; the calling goroutine collects both outcomes, may     *)
(* cancel the derived context while it does, and selects what to return.   *)
(***************************************************************************)
EXTENDS QueuePolicies, Integers, Sequences, FiniteSets

VARIABLES
  callerErr,   \* Err() of the caller's context; NilContext if it has none
  ctxErr,      \* Err() of the derived context
  phase,       \* where the calling goroutine is
  running,     \* the policies whose goroutine has not sent its outcome
  outcomes,    \* the channel
  completed,   \* the error of every outcome received, by policy
  returned     \* what the caller was given

comparisonVars == <<callerErr, ctxErr, phase, running, outcomes, completed, returned>>

ContextErrors == {"canceled", "deadline"}
NotReceived == "not received"
NoPolicy == ""

NotYet == [kind |-> "none"]
Results == [kind |-> "results"]
Failure(p, error) == [kind |-> "error", policy |-> p, err |-> error]

ComparisonInit ==
  /\ callerErr \in {"none", NilContext} /\ ctxErr = "none" /\ phase = "start"
  /\ running = {} /\ outcomes = <<>>
  /\ completed = [p \in Policies |-> NotReceived]
  /\ returned = NotYet

\* The checks of the arguments, the context first.
Reject(inputErr) ==
  /\ phase = "start"
  /\ returned' = Failure(NoPolicy, IF callerErr # "none" THEN callerErr ELSE inputErr)
  /\ callerErr # "none" \/ inputErr # "none"
  /\ phase' = "returned"
  /\ UNCHANGED <<callerErr, ctxErr, running, outcomes, completed>>

Launch(inputErr) ==
  /\ phase = "start" /\ callerErr = "none" /\ inputErr = "none"
  /\ phase' = "collect" /\ running' = Policies
  /\ UNCHANGED <<callerErr, ctxErr, outcomes, completed, returned>>

\* The caller's context ends; the derived one follows, unless it has ended.
EndContext ==
  /\ callerErr = "none" /\ phase # "returned"
  /\ callerErr' \in ContextErrors
  /\ UNCHANGED <<ctxErr, phase, running, outcomes, completed, returned>>

Propagate ==
  /\ phase = "collect" /\ callerErr # "none" /\ ctxErr = "none"
  /\ ctxErr' = callerErr
  /\ UNCHANGED <<callerErr, phase, running, outcomes, completed, returned>>

\* cancel(): a context that has ended keeps its error.
CanceledContext == IF ctxErr = "none" THEN "canceled" ELSE ctxErr

\* A goroutine sends its outcome.  The channel has room for one per policy.
Send(p, error) ==
  /\ p \in running /\ Len(outcomes) < Cardinality(Policies)
  /\ outcomes' = Append(outcomes, [policy |-> p, err |-> error])
  /\ running' = running \ {p}
  /\ UNCHANGED <<callerErr, ctxErr, phase, completed, returned>>

Collect(cancels) ==
  /\ phase = "collect" /\ outcomes # <<>>
  /\ completed' = [completed EXCEPT ![Head(outcomes).policy] = Head(outcomes).err]
  /\ outcomes' = Tail(outcomes)
  /\ ctxErr' = IF cancels THEN CanceledContext ELSE ctxErr
  /\ UNCHANGED <<callerErr, phase, running, returned>>

\* Among the errors received, one that is not a cancellation goes first, then
\* the first by policy name.
Selected ==
  LET failed == {p \in Policies : completed[p] # "none"}
      genuine == {p \in failed : completed[p] # "canceled"}
  IN  IF genuine # {} THEN Failure(FirstPolicy(genuine), completed[FirstPolicy(genuine)])
      ELSE IF failed # {} THEN Failure(FirstPolicy(failed), completed[FirstPolicy(failed)])
           ELSE Results

\* Fault: the caller does not wait for the second outcome after a failure.
AllCollectedOrFailed ==
  \/ \A p \in Policies : completed[p] # NotReceived
  \/ \E p \in Policies : completed[p] \notin {NotReceived, "none"}

AllCollected == \A p \in Policies : completed[p] # NotReceived

\* Fault: the outcomes are looked at in the order they came in.
ReturnUnsorted ==
  /\ phase = "collect" /\ AllCollected
  /\ LET failed == {p \in Policies : completed[p] # "none"}
     IN  \/ failed = {} /\ returned' = Results
         \/ \E p \in failed : returned' = Failure(p, completed[p])
  /\ phase' = "returned"
  /\ ctxErr' = CanceledContext
  /\ UNCHANGED <<callerErr, running, outcomes, completed>>

\* The deferred cancel() runs as the function returns.
Return ==
  /\ phase = "collect" /\ AllCollected
  /\ returned' = Selected
  /\ phase' = "returned"
  /\ ctxErr' = CanceledContext
  /\ UNCHANGED <<callerErr, running, outcomes, completed>>

(***************************************************************************)
(* When the caller has its answer no goroutine of the comparison runs and  *)
(* nothing is left in the channel: a failure of one policy does not leave  *)
(* the other behind.                                                       *)
(***************************************************************************)
NoGoroutineLeft ==
  phase = "returned" => running = {} /\ outcomes = <<>>
=============================================================================
