----------------------------- MODULE QueuePolicies -----------------------------
(***************************************************************************)
(* The queue policies of src/internal/scheduler/scheduler.go, and what is  *)
(* wrong with the context of a caller that passes none.                    *)
(***************************************************************************)
PolicyStrictFIFO == "strict-fifo"
PolicyBackfill == "backfill"
Policies == {PolicyStrictFIFO, PolicyBackfill}

\* The first of a non-empty set of policies in the order of their names.
FirstPolicy(S) == IF PolicyBackfill \in S THEN PolicyBackfill ELSE PolicyStrictFIFO

NilContext == "nil context"
=============================================================================
