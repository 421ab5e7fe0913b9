----------------------------- MODULE Feasibility -----------------------------
(***************************************************************************)
(* What placement promises, stated without reference to the algorithm: a   *)
(* job fits when its replicas can be spread over nodes of one topology     *)
(* domain with no node charged beyond what it has left.  The definitions   *)
(* search all spreads, so they are for checking on small instances.        *)
(***************************************************************************)
EXTENDS TopoModel

\* The spreads of a job over a set of nodes that respect what remains.
Spreads(members, remaining, job) ==
  {spread \in [members -> 0 .. job.replicas] :
     /\ SumFunction(spread) = job.replicas
     /\ \A n \in members, d \in Dim :
          spread[n] * job.resourcesPerReplica[d] <= remaining[n][d]}

\* The sets of nodes that may host the whole job.
EligibleSets(nodes, key) ==
  IF key = NoTopology THEN {DOMAIN nodes}
  ELSE {{n \in DOMAIN nodes :
           Label(nodes[n].topology, key) = Label(nodes[m].topology, key)} :
          m \in DOMAIN nodes}

Feasible(nodes, remaining, job) ==
  \E members \in EligibleSets(nodes, job.requiredTopology) :
    Spreads(members, remaining, job) # {}
=============================================================================
