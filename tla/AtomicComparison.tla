--------------------------- MODULE AtomicComparison ---------------------------
(***************************************************************************)
(* What a comparison of the two policies promises, without goroutines, a   *)
(* channel or a shared context: as if each policy had been run by itself   *)
(* from start to end, and the answer been chosen in the order of the       *)
(* policies' names.  Only a caller whose context ends may get a different  *)
(* one: that error, or one that a policy runs into by itself.              *)
(***************************************************************************)
EXTENDS QueuePolicies

CONSTANT OwnErrors   \* the errors a run may fail with by itself

VARIABLES
  inputErr,   \* the check of the arguments that fails, "none" if none does
  own,        \* the error each policy fails with by itself, "none" if none
  callerErr,  \* the error of the caller's context; NilContext if it has none
  returned    \* what the caller is given

vars == <<inputErr, own, callerErr, returned>>

ContextErrors == {"canceled", "deadline"}
InputErrors == {"cluster", "jobs", "topology"}
NoPolicy == ""

NotYet == [kind |-> "none"]
Results == [kind |-> "results"]
Failure(p, error) == [kind |-> "error", policy |-> p, err |-> error]

Failing == {p \in Policies : own[p] # "none"}

Verdict ==
  IF inputErr # "none" THEN Failure(NoPolicy, inputErr)
  ELSE IF Failing = {} THEN Results
       ELSE Failure(FirstPolicy(Failing), own[FirstPolicy(Failing)])

Init ==
  /\ inputErr \in {"none"} \cup InputErrors
  /\ own \in [Policies -> {"none"} \cup OwnErrors]
  /\ callerErr \in {"none", NilContext} /\ returned = NotYet

EndContext ==
  /\ callerErr = "none" /\ callerErr' \in ContextErrors
  /\ UNCHANGED <<inputErr, own, returned>>

\* Nothing is done without a context.
RefuseNil ==
  /\ returned = NotYet /\ callerErr = NilContext
  /\ returned' = Failure(NoPolicy, NilContext)
  /\ UNCHANGED <<inputErr, own, callerErr>>

Answer ==
  /\ returned = NotYet /\ callerErr # NilContext
  /\ returned' = Verdict
  /\ UNCHANGED <<inputErr, own, callerErr>>

\* Inputs are validated before anything runs, so an own error means they passed.
AnswerEnded ==
  /\ returned = NotYet /\ callerErr \in ContextErrors
  /\ \/ \E p \in Policies \cup {NoPolicy} : returned' = Failure(p, callerErr)
     \/ \E p \in Failing : inputErr = "none" /\ returned' = Failure(p, own[p])
  /\ UNCHANGED <<inputErr, own, callerErr>>

Respond == RefuseNil \/ Answer \/ AnswerEnded

Next == EndContext \/ Respond

Spec == Init /\ [][Next]_vars /\ WF_vars(Respond)
=============================================================================
