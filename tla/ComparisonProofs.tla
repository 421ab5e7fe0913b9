--------------------------- MODULE ComparisonProofs ---------------------------
(***************************************************************************)
(* The comparison of two simulations answers as if they had been run one   *)
(* after the other, for any errors a simulation may fail with.             *)
(***************************************************************************)
EXTENDS CompareSimulations, TLAPS

Errors == {"none"} \cup ContextErrors \cup SimulationErrors
Outcome == [policy : Policies, err : Errors]

TypeInv ==
  /\ callerErr \in {"none", NilContext} \cup ContextErrors
  /\ ctxErr \in {"none"} \cup ContextErrors
  /\ phase \in {"start", "collect", "returned"}
  /\ running \subseteq Policies
  /\ outcomes \in Seq(Outcome)
  /\ completed \in [Policies -> Errors \cup {NotReceived}]
  /\ inputErr \in {"none", "cluster", "jobs", "topology"}
  /\ own \in [Policies -> {"none"} \cup SimulationErrors]

\* The outcome of a policy is in one place: not there yet, in the channel, or
\* received.
OneOutcomePerPolicy ==
  /\ \A p \in running : completed[p] = NotReceived
  /\ \A k \in DOMAIN outcomes :
       outcomes[k].policy \notin running /\ completed[outcomes[k].policy] = NotReceived
  /\ \A k, l \in DOMAIN outcomes : outcomes[k].policy = outcomes[l].policy => k = l

Phases ==
  /\ phase = "collect" => inputErr = "none" /\ callerErr # NilContext
  /\ phase # "collect" => running = {} /\ outcomes = <<>>
  /\ phase = "start" => ctxErr = "none" /\ \A p \in Policies : completed[p] = NotReceived
  /\ phase # "returned" => returned = NotYet

(***************************************************************************)
(* Where an error comes from: the simulation itself, the caller's context, *)
(* or the failure of backfill, which has been received by then.            *)
(***************************************************************************)
BackfillFailed == completed[PolicyBackfill] \notin {"none", "canceled", NotReceived}

ContextEndedBy(error) ==
  \/ error = callerErr
  \/ error = "canceled" /\ BackfillFailed

Explained(p, error) ==
  \/ error = own[p]
  \/ error # "none" /\ ContextEndedBy(error)

ErrorsExplained ==
  /\ phase # "returned" /\ ctxErr # "none" => ContextEndedBy(ctxErr)
  /\ \A k \in DOMAIN outcomes : Explained(outcomes[k].policy, outcomes[k].err)
  /\ \A p \in Policies : completed[p] # NotReceived => Explained(p, completed[p])

Inv == TypeInv /\ OneOutcomePerPolicy /\ Phases /\ ErrorsExplained

-----------------------------------------------------------------------------
\* The names of errors are what they seem.
LEMMA ErrorsDiffer == NotReceived \notin Errors /\ "none" \notin ContextErrors
BY SimulationErrorsAssumption DEF Errors, ContextErrors, NotReceived

\* A simulation has no error that is one of a context.
LEMMA OwnErrorsDiffer ==
  ASSUME TypeInv, NEW p \in Policies
  PROVE  own[p] \in Errors /\ own[p] \notin ContextErrors /\ own[p] # NotReceived
BY SimulationErrorsAssumption DEF TypeInv, Errors, ContextErrors, NotReceived

LEMMA InvInit == Init => Inv
<1> SUFFICES ASSUME Init PROVE Inv
  OBVIOUS
<1>1. TypeInv
  BY DEF Init, ComparisonInit, TypeInv, Outcome
<1>2. OneOutcomePerPolicy /\ Phases
  BY DEF Init, ComparisonInit, OneOutcomePerPolicy, Phases, NotYet
<1>3. ErrorsExplained
  BY DEF Init, ComparisonInit, ErrorsExplained, Explained, ContextEndedBy
<1> QED BY <1>1, <1>2, <1>3 DEF Inv

\* Goroutine p ends and its outcome goes to the channel.
LEMMA SendKeepsInv ==
  ASSUME Inv, NEW p \in Policies, NEW error \in Errors, Send(p, error),
         UNCHANGED <<inputErr, own>>, Explained(p, error)
  PROVE  Inv'
<1> DEFINE sent == [policy |-> p, err |-> error]
<1>1. /\ p \in running /\ running' = running \ {p}
      /\ outcomes' = Append(outcomes, sent)
      /\ UNCHANGED <<callerErr, ctxErr, phase, completed, returned, inputErr, own>>
  BY DEF Send
<1>2. sent \in Outcome /\ sent.policy = p /\ sent.err = error
  BY DEF Outcome
<1> HIDE DEF sent
<1>3. outcomes \in Seq(Outcome)
  BY DEF Inv, TypeInv
<1>4. /\ outcomes' \in Seq(Outcome) /\ Len(outcomes') = Len(outcomes) + 1
      /\ DOMAIN outcomes' = 1 .. Len(outcomes) + 1
      /\ DOMAIN outcomes = 1 .. Len(outcomes) /\ Len(outcomes) \in Nat
      /\ \A k \in DOMAIN outcomes : outcomes'[k] = outcomes[k]
      /\ outcomes'[Len(outcomes) + 1] = sent
  BY <1>1, <1>2, <1>3
<1>5. phase = "collect"
  BY <1>1 DEF Inv, Phases
<1>6. TypeInv'
  BY <1>1, <1>4 DEF Inv, TypeInv
<1>7. ASSUME NEW k \in DOMAIN outcomes'
      PROVE  outcomes'[k].policy \notin running' /\ completed[outcomes'[k].policy] = NotReceived
  BY <1>1, <1>2, <1>4 DEF Inv, OneOutcomePerPolicy
<1>8. ASSUME NEW k \in DOMAIN outcomes', NEW l \in DOMAIN outcomes',
             outcomes'[k].policy = outcomes'[l].policy
      PROVE  k = l
  BY <1>1, <1>2, <1>4, <1>8 DEF Inv, OneOutcomePerPolicy
<1>9. OneOutcomePerPolicy'
  BY <1>1, <1>7, <1>8 DEF Inv, OneOutcomePerPolicy
<1>10. Phases'
  BY <1>1, <1>5 DEF Inv, Phases
<1>11. ASSUME NEW k \in DOMAIN outcomes'
       PROVE  Explained(outcomes'[k].policy, outcomes'[k].err)
  BY <1>2, <1>4 DEF Inv, ErrorsExplained
<1>12. ErrorsExplained'
  BY <1>1, <1>11 DEF Inv, ErrorsExplained, Explained, ContextEndedBy, BackfillFailed
<1> QED BY <1>6, <1>9, <1>10, <1>12 DEF Inv

\* The caller takes an outcome, and cancels the other run if backfill failed.
LEMMA CollectKeepsInv ==
  ASSUME Inv, CollectOne
  PROVE  Inv'
<1> DEFINE outcome == Head(outcomes)
           p == outcome.policy
<1>1. /\ phase = "collect" /\ outcomes # <<>>
      /\ completed' = [completed EXCEPT ![p] = outcome.err]
      /\ outcomes' = Tail(outcomes)
      /\ ctxErr' = IF CancelsSibling(outcome) THEN CanceledContext ELSE ctxErr
      /\ UNCHANGED <<callerErr, phase, running, returned, inputErr, own>>
  BY DEF CollectOne, Collect
<1>2. outcomes \in Seq(Outcome)
  BY DEF Inv, TypeInv
<1>3. outcome \in Outcome /\ outcome = outcomes[1] /\ 1 \in DOMAIN outcomes
  BY <1>1, <1>2
<1>4. p \in Policies /\ outcome.err \in Errors
  BY <1>3 DEF Outcome
<1> HIDE DEF outcome, p
<1>5. /\ outcomes' \in Seq(Outcome)
      /\ \A k \in DOMAIN outcomes' : k + 1 \in DOMAIN outcomes /\ k # 0
                                     /\ k \in Nat /\ outcomes'[k] = outcomes[k + 1]
  BY <1>1, <1>2
<1>6. /\ completed' \in [Policies -> Errors \cup {NotReceived}]
      /\ completed'[p] = outcome.err
      /\ \A q \in Policies \ {p} : completed'[q] = completed[q]
  BY <1>1, <1>4 DEF Inv, TypeInv
<1>7. p \notin running /\ completed[p] = NotReceived
  BY <1>3 DEF Inv, OneOutcomePerPolicy, p
<1>8. ctxErr' \in {"none"} \cup ContextErrors
  BY <1>1 DEF Inv, TypeInv, CanceledContext, ContextErrors
<1>9. TypeInv'
  BY <1>1, <1>5, <1>6, <1>8 DEF Inv, TypeInv
<1>10. ASSUME NEW k \in DOMAIN outcomes'
       PROVE  outcomes'[k].policy \in Policies \ {p}
  <2>1. k + 1 \in DOMAIN outcomes /\ k + 1 # 1 /\ outcomes'[k] = outcomes[k + 1]
    BY <1>5
  <2>2. outcomes[k + 1] \in Outcome
    BY <1>2, <2>1
  <2>3. outcomes[k + 1].policy # outcomes[1].policy
    BY <1>3, <2>1 DEF Inv, OneOutcomePerPolicy
  <2> QED BY <1>3, <2>1, <2>2, <2>3 DEF Outcome, p
<1>11. OneOutcomePerPolicy'
  BY <1>1, <1>5, <1>6, <1>7, <1>10 DEF Inv, OneOutcomePerPolicy, TypeInv
<1>12. Phases'
  BY <1>1 DEF Inv, Phases
<1>13. BackfillFailed => BackfillFailed'
  BY <1>6, <1>7 DEF BackfillFailed, Policies
<1>14. CancelsSibling(outcome) => BackfillFailed'
  BY <1>4, <1>6, ErrorsDiffer DEF CancelsSibling, BackfillFailed, p
<1>15. \A e : ContextEndedBy(e) => ContextEndedBy(e)'
  BY <1>1, <1>13 DEF ContextEndedBy
<1>16. \A q, e : Explained(q, e) => Explained(q, e)'
  BY <1>1, <1>15 DEF Explained
<1>17. ASSUME ctxErr' # "none" PROVE ContextEndedBy(ctxErr)'
  <2>1. CASE ctxErr' = ctxErr
    <3>1. ContextEndedBy(ctxErr)
      BY <1>1, <1>17, <2>1 DEF Inv, ErrorsExplained
    <3> QED BY <2>1, <3>1, <1>1, <1>13 DEF ContextEndedBy
  <2>2. CASE ctxErr' # ctxErr
    <3>1. ctxErr' = "canceled" /\ BackfillFailed'
      BY <1>1, <1>14, <2>2 DEF CanceledContext
    <3> QED BY <3>1 DEF ContextEndedBy
  <2> QED BY <2>1, <2>2
<1>18. ASSUME NEW k \in DOMAIN outcomes'
       PROVE  Explained(outcomes[k].policy, outcomes[k].err)'
  <2>1. Explained(outcomes[k + 1].policy, outcomes[k + 1].err)
    BY <1>5 DEF Inv, ErrorsExplained
  <2> QED BY <2>1, <1>1, <1>5, <1>13 DEF Explained, ContextEndedBy
<1>19. ASSUME NEW q \in Policies, completed'[q] # NotReceived
       PROVE  Explained(q, completed[q])'
  <2>1. CASE q = p
    <3>1. Explained(p, outcome.err)
      BY <1>3 DEF Inv, ErrorsExplained, p
    <3> QED BY <2>1, <3>1, <1>1, <1>6, <1>13 DEF Explained, ContextEndedBy
  <2>2. CASE q # p
    <3>1. Explained(q, completed[q])
      BY <1>6, <1>19, <2>2 DEF Inv, ErrorsExplained
    <3> QED BY <2>2, <3>1, <1>1, <1>6, <1>13 DEF Explained, ContextEndedBy
  <2> QED BY <2>1, <2>2
<1>20. ErrorsExplained'
  BY <1>17, <1>18, <1>19 DEF ErrorsExplained
<1> QED BY <1>9, <1>11, <1>12, <1>20 DEF Inv

LEMMA InvStep == Inv /\ [Next]_vars => Inv'
<1> SUFFICES ASSUME Inv, [Next]_vars PROVE Inv'
  OBVIOUS
<1> USE DEF Inv
<1>1. CASE Reject(inputErr) /\ UNCHANGED <<inputErr, own>>
  BY <1>1 DEF Reject, TypeInv, OneOutcomePerPolicy, Phases, ErrorsExplained,
              Explained, ContextEndedBy, BackfillFailed
<1>2. CASE Launch(inputErr) /\ UNCHANGED <<inputErr, own>>
  BY <1>2 DEF Launch, TypeInv, OneOutcomePerPolicy, Phases, ErrorsExplained, NilContext,
              Explained, ContextEndedBy, BackfillFailed
<1>3. CASE CollectOne
  BY <1>3, CollectKeepsInv
<1>4. CASE Answer
  <2>1. AllCollected
    BY <1>4 DEF Answer, Return
  <2>2. running = {}
    BY <2>1 DEF AllCollected, TypeInv, OneOutcomePerPolicy
  <2>3. outcomes = <<>>
    <3>1. \A k \in DOMAIN outcomes : outcomes[k] \in Outcome
      BY DEF TypeInv
    <3>2. DOMAIN outcomes = {}
      BY <2>1, <3>1 DEF AllCollected, OneOutcomePerPolicy, Outcome
    <3> QED BY <3>2 DEF TypeInv
  <2> QED BY <1>4, <2>2, <2>3
          DEF Answer, Return, TypeInv, OneOutcomePerPolicy, Phases, ErrorsExplained,
              Explained, ContextEndedBy, BackfillFailed, CanceledContext, ContextErrors
<1>5. ASSUME NEW p \in Policies, Simulated(p)
      PROVE  Inv'
  <2>1. UNCHANGED <<inputErr, own>>
    BY <1>5 DEF Simulated
  <2>2. CASE Send(p, own[p])
    <3>1. own[p] \in Errors /\ Explained(p, own[p])
      BY OwnErrorsDiffer DEF Explained
    <3> QED BY <2>1, <2>2, <3>1, SendKeepsInv
  <2>3. CASE ctxErr # "none" /\ Send(p, ctxErr)
    <3>1. ctxErr \in Errors
      BY DEF TypeInv, Errors
    <3>2. phase # "returned"
      BY <2>3 DEF Send, Phases
    <3> QED BY <2>1, <2>3, <3>1, <3>2, SendKeepsInv DEF ErrorsExplained, Explained
  <2> QED BY <1>5, <2>2, <2>3 DEF Simulated
<1>6. CASE EndContext /\ UNCHANGED <<inputErr, own>>
  BY <1>6 DEF EndContext, TypeInv, OneOutcomePerPolicy, Phases, ErrorsExplained, NilContext, ContextErrors,
              Explained, ContextEndedBy, BackfillFailed
<1>7. CASE Propagate /\ UNCHANGED <<inputErr, own>>
  BY <1>7 DEF Propagate, TypeInv, OneOutcomePerPolicy, Phases, ErrorsExplained,
              Explained, ContextEndedBy, BackfillFailed
<1>8. CASE UNCHANGED vars
  BY <1>8 DEF vars, comparisonVars, TypeInv, OneOutcomePerPolicy, Phases, ErrorsExplained,
              Explained, ContextEndedBy, BackfillFailed
<1> QED BY <1>1, <1>2, <1>3, <1>4, <1>5, <1>6, <1>7, <1>8
        DEF Next, Start, Environment, Returned

LEMMA InvCorrect == Spec => []Inv
BY InvInit, InvStep, PTL DEF Spec

(***************************************************************************)
(* When CompareSimulations returns, it has received both outcomes, so no   *)
(* goroutine runs and the channel is empty.                                *)
(***************************************************************************)
THEOREM NoGoroutineIsLeft == Spec => []NoGoroutineLeft
<1>1. Inv => NoGoroutineLeft
  BY DEF Inv, Phases, NoGoroutineLeft
<1> QED BY <1>1, InvCorrect, PTL

-----------------------------------------------------------------------------
\* A policy of the abstract specification fails by itself as here.
LEMMA FirstFailing ==
  ASSUME TypeInv
  PROVE  /\ Atomic!Failing = {p \in Policies : own[p] # "none"}
         /\ PolicyBackfill \in Policies /\ PolicyStrictFIFO \in Policies
         /\ PolicyBackfill # PolicyStrictFIFO
         /\ \A p \in Policies : p \in {PolicyBackfill, PolicyStrictFIFO}
BY DEF Atomic!Failing, Atomic!Policies, Policies, Atomic!PolicyBackfill,
       Atomic!PolicyStrictFIFO, PolicyBackfill, PolicyStrictFIFO

(***************************************************************************)
(* The answer is the verdict of the abstract specification, or one it      *)
(* allows when the caller's context has ended.                             *)
(***************************************************************************)
LEMMA AnswerIsAtomic ==
  ASSUME Inv, Answer
  PROVE  Atomic!Answer \/ Atomic!AnswerEnded
<1> DEFINE B == PolicyBackfill
           S == PolicyStrictFIFO
<1>1. /\ phase = "collect" /\ AllCollected /\ returned' = Selected
      /\ UNCHANGED <<inputErr, own, callerErr>>
  BY DEF Answer, Return
<1>2. returned = Atomic!NotYet /\ inputErr = "none" /\ callerErr # Atomic!NilContext
  BY <1>1 DEF Inv, Phases, NotYet, Atomic!NotYet, NilContext, Atomic!NilContext
<1>3. \A p \in Policies : completed[p] # NotReceived /\ Explained(p, completed[p])
  BY <1>1 DEF Inv, ErrorsExplained, AllCollected
<1>4. B \in Policies /\ S \in Policies /\ B # S
      /\ \A p \in Policies : p \in {B, S}
  BY FirstFailing DEF Inv
<1>5. \A p \in Policies : own[p] \notin ContextErrors
  BY OwnErrorsDiffer DEF Inv
<1>6. Atomic!Failing = {p \in Policies : own[p] # "none"}
  BY FirstFailing DEF Inv
<1>7. ASSUME NEW p \in Policies, callerErr # "none",
             \/ returned' = Failure(p, callerErr)
             \/ own[p] # "none" /\ returned' = Failure(p, own[p])
      PROVE  Atomic!AnswerEnded
  <2>1. p \in Atomic!Policies
    BY DEF Atomic!Policies, Policies, Atomic!PolicyBackfill, Atomic!PolicyStrictFIFO,
           PolicyBackfill, PolicyStrictFIFO
  <2>2. callerErr \in Atomic!ContextErrors
    BY <1>2, <1>7 DEF Inv, TypeInv, ContextErrors, Atomic!ContextErrors, NilContext,
                      Atomic!NilContext
  <2> QED BY <1>1, <1>2, <1>6, <1>7, <2>1, <2>2 DEF Atomic!AnswerEnded, Atomic!Failure, Failure
<1>8. ASSUME NEW p \in Policies, own[p] # "none", p = S => own[B] = "none",
             returned' = Failure(p, own[p])
      PROVE  Atomic!Answer
  <2>1. p \in Atomic!Failing /\ Atomic!FirstPolicy(Atomic!Failing) = p
    BY <1>4, <1>6, <1>8
       DEF Atomic!FirstPolicy, Atomic!PolicyBackfill, Atomic!PolicyStrictFIFO,
           PolicyBackfill, PolicyStrictFIFO
  <2>2. Atomic!Verdict = Failure(p, own[p])
    BY <1>2, <2>1 DEF Atomic!Verdict, Atomic!Failure, Failure
  <2> QED BY <1>1, <1>2, <1>8, <2>2 DEF Atomic!Answer
<1>9. CASE \A p \in Policies : completed[p] = "none"
  <2>1. \A p \in Policies : own[p] = "none"
    BY <1>3, <1>9 DEF Explained
  <2>2. returned' = Results
    BY <1>1, <1>9 DEF Selected
  <2>3. Atomic!Verdict = Results
    BY <1>2, <1>6, <2>1 DEF Atomic!Verdict, Atomic!Results, Results
  <2> QED BY <1>1, <1>2, <2>2, <2>3 DEF Atomic!Answer
<1>10. CASE \E p \in Policies : completed[p] # "none"
  <2>1. PICK p \in Policies :
          /\ completed[p] # "none" /\ returned' = Failure(p, completed[p])
          /\ completed[p] = "canceled" => completed[B] \in {"none", "canceled"}
          /\ p = S => \/ completed[B] = "none"
                      \/ completed[B] = "canceled" /\ completed[S] # "canceled"
    <3>1. CASE completed[B] \notin {"none", "canceled"}
      BY <1>1, <1>4, <3>1 DEF Selected, FirstPolicy
    <3>2. CASE completed[B] \in {"none", "canceled"} /\ completed[S] \notin {"none", "canceled"}
      BY <1>1, <1>4, <3>2 DEF Selected, FirstPolicy
    <3>3. CASE completed[B] = "canceled" /\ completed[S] \in {"none", "canceled"}
      BY <1>1, <1>4, <3>3 DEF Selected, FirstPolicy
    <3>4. CASE completed[B] = "none" /\ completed[S] \in {"none", "canceled"}
      BY <1>1, <1>4, <1>10, <3>4 DEF Selected, FirstPolicy
    <3> QED BY <3>1, <3>2, <3>3, <3>4
  <2>2. Explained(p, completed[p]) /\ Explained(B, completed[B])
    BY <1>3, <1>4
  <2>3. CASE completed[p] = callerErr
    BY <1>7, <2>1, <2>3
  <2>4. ~ (completed[p] = "canceled" /\ BackfillFailed)
    BY <2>1 DEF BackfillFailed
  <2>5. CASE completed[p] = own[p] /\ (p = S => own[B] = "none")
    BY <1>8, <2>1, <2>5
  <2>6. CASE completed[p] = own[p] /\ p = S /\ own[B] # "none"
    <3>1. completed[B] # "none"
      BY <2>2, <2>6 DEF Explained
    <3>2. completed[B] = "canceled"
      BY <2>1, <2>6, <3>1
    <3>3. callerErr = "canceled"
      BY <1>4, <1>5, <2>2, <3>2 DEF Explained, ContextEndedBy, BackfillFailed, ContextErrors
    <3> QED BY <1>7, <2>1, <2>6, <3>3
  <2> QED BY <2>2, <2>3, <2>4, <2>5, <2>6 DEF Explained, ContextEndedBy
<1> QED BY <1>9, <1>10

\* Every other step is one of the abstract specification or none to it.
LEMMA StepIsAtomic ==
  Inv /\ [Next]_vars => [Atomic!Next]_(Atomic!vars)
<1> SUFFICES ASSUME Inv, [Next]_vars PROVE [Atomic!Next]_(Atomic!vars)
  OBVIOUS
<1> USE DEF Atomic!vars
<1>1. CASE Reject(inputErr) /\ UNCHANGED <<inputErr, own>>
  <2>1. /\ returned = Atomic!NotYet /\ UNCHANGED <<inputErr, own, callerErr>>
        /\ returned' = Failure(NoPolicy, IF callerErr # "none" THEN callerErr ELSE inputErr)
        /\ callerErr # "none" \/ inputErr # "none"
    BY <1>1 DEF Reject, Inv, Phases, NotYet, Atomic!NotYet
  <2>2. CASE callerErr = NilContext
    BY <2>1, <2>2 DEF Atomic!Next, Atomic!Respond, Atomic!RefuseNil, Atomic!Failure, Failure,
                      Atomic!NoPolicy, NoPolicy, Atomic!NilContext, NilContext
  <2>3. CASE callerErr \in ContextErrors
    BY <2>1, <2>3, ErrorsDiffer
       DEF Atomic!Next, Atomic!Respond, Atomic!AnswerEnded, Atomic!Failure, Failure,
           Atomic!NoPolicy, NoPolicy, Atomic!ContextErrors, ContextErrors
  <2>4. CASE callerErr = "none" /\ inputErr # "none"
    BY <2>1, <2>4 DEF Atomic!Next, Atomic!Respond, Atomic!Answer, Atomic!Verdict,
                      Atomic!Failure, Failure, Atomic!NoPolicy, NoPolicy, Atomic!NilContext
  <2> QED BY <2>1, <2>2, <2>3, <2>4 DEF Inv, TypeInv
<1>2. CASE Launch(inputErr) /\ UNCHANGED <<inputErr, own>>
  BY <1>2 DEF Launch
<1>3. CASE CollectOne
  BY <1>3 DEF CollectOne, Collect
<1>4. CASE Answer
  BY <1>4, AnswerIsAtomic DEF Atomic!Next, Atomic!Respond
<1>5. CASE \E p \in Policies : Simulated(p)
  BY <1>5 DEF Simulated, Send
<1>6. CASE EndContext /\ UNCHANGED <<inputErr, own>>
  BY <1>6 DEF EndContext, Atomic!Next, Atomic!EndContext, ContextErrors, Atomic!ContextErrors
<1>7. CASE Propagate /\ UNCHANGED <<inputErr, own>>
  BY <1>7 DEF Propagate
<1>8. CASE UNCHANGED vars
  BY <1>8 DEF vars, comparisonVars
<1> QED BY <1>1, <1>2, <1>3, <1>4, <1>5, <1>6, <1>7, <1>8
        DEF Next, Start, Environment, Returned

LEMMA InitIsAtomic == Init => Atomic!Init
BY DEF Init, ComparisonInit, Atomic!Init, Atomic!InputErrors, Atomic!Policies, Policies,
       Atomic!PolicyBackfill, Atomic!PolicyStrictFIFO, PolicyBackfill, PolicyStrictFIFO,
       Atomic!NotYet, NotYet, Atomic!NilContext, NilContext

(***************************************************************************)
(* The safety part of ImplementsAtomic: whatever the order in which the    *)
(* simulations end and the caller's context does, CompareSimulations       *)
(* returns what it would had they been run one after the other, or, once   *)
(* the caller's context has ended, that error or one of theirs.            *)
(***************************************************************************)
THEOREM AnswersAtomically == Spec => Atomic!Init /\ [][Atomic!Next]_(Atomic!vars)
BY InitIsAtomic, InvCorrect, StepIsAtomic, PTL DEF Spec
=============================================================================
