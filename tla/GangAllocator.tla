---------------------------- MODULE GangAllocator ----------------------------
(***************************************************************************)
(* What both schedulers promise about resources, without a queue, a clock  *)
(* or a placement algorithm: jobs start whole, on nodes of one topology    *)
(* domain that have room for all their replicas at once, keep what they    *)
(* were given while they run, and are given up only for want of room.      *)
(***************************************************************************)
EXTENDS Feasibility, QueuePolicies

CONSTANT Online   \* whether jobs end and release what they hold

VARIABLES
  nodes, jobs, policy,   \* the cluster, the jobs and the queue policy
  status,                \* where each job is in its life
  held                   \* the replicas of each job on each node

inputVars == <<nodes, jobs, policy>>
vars == <<inputVars, status, held>>

Nothing == [n \in DOMAIN nodes |-> 0]

\* What the jobs that run leave of each node.
Free ==
  [n \in DOMAIN nodes |-> [d \in Dim |->
     nodes[n].capacity[d]
       - SumFunctionOnSet([i \in DOMAIN jobs |->
           jobs[i].resourcesPerReplica[d] * held[i][n]], DOMAIN jobs)]]

Init ==
  /\ status = [i \in DOMAIN jobs |-> "waiting"]
  /\ held = [i \in DOMAIN jobs |-> Nothing]

Start(i) ==
  /\ status[i] = "waiting"
  /\ \E members \in EligibleSets(nodes, jobs[i].requiredTopology) :
       \E spread \in Spreads(members, Free, jobs[i]) :
         held' = [held EXCEPT ![i] =
                    [n \in DOMAIN nodes |-> IF n \in members THEN spread[n] ELSE 0]]
  /\ status' = [status EXCEPT ![i] = "running"]
  /\ UNCHANGED inputVars

End(i) ==
  /\ Online /\ status[i] = "running"
  /\ status' = [status EXCEPT ![i] = "finished"]
  /\ held' = [held EXCEPT ![i] = Nothing]
  /\ UNCHANGED inputVars

\* Only a job for which there is no room, now that nothing more will be
\* released, is given up; strict FIFO gives up those behind it as well.
GiveUp(i) ==
  /\ status[i] = "waiting"
  /\ Online => \A j \in DOMAIN jobs : status[j] # "running"
  /\ \E k \in DOMAIN jobs :
       /\ k = i \/ (policy = PolicyStrictFIFO /\ status[k] = "given up")
       /\ ~ Feasible(nodes, Free, jobs[k])
  /\ status' = [status EXCEPT ![i] = "given up"]
  /\ UNCHANGED <<inputVars, held>>

Next == \E i \in DOMAIN jobs : Start(i) \/ End(i) \/ GiveUp(i)

Spec == Init /\ [][Next]_vars
=============================================================================
