------------------------------ MODULE TopoModel ------------------------------
(***************************************************************************)
(* The input model of TopoQueue (src/internal/model): clusters, jobs and   *)
(* timed jobs, and the validation every entry point performs before it     *)
(* touches them.                                                           *)
(*                                                                         *)
(* The code compares node names and topology labels only for equality and  *)
(* in lexical order, so a string is represented by its rank: a natural     *)
(* number, 0 standing for the empty string.  Topology keys are compared    *)
(* for equality alone and stay strings, "" standing for "no requirement".  *)
(* An int64 is an integer of Int64; MaxInt64 is a parameter so that TLC    *)
(* can reach the boundary with small numbers.                              *)
(***************************************************************************)
EXTENDS Integers, FiniteSets, Sequences, FiniteSetsExt, Functions

CONSTANTS
  MaxInt64,       \* math.MaxInt64
  TopologyKeys    \* the topology keys nodes and jobs mention

ASSUME MaxInt64Assumption == MaxInt64 \in Nat \ {0}
ASSUME TopologyKeysAssumption == IsFiniteSet(TopologyKeys)

Int64 == (-MaxInt64 - 1) .. MaxInt64
NonNegInt64 == 0 .. MaxInt64
PosInt64 == 1 .. MaxInt64

EmptyName == 0
NoTopology == ""

(***************************************************************************)
(* Types.  Dim indexes the two fields of model.Resources.                  *)
(***************************************************************************)
Dim == {"cpu", "gpu"}
Resources == [Dim -> Int64]

\* map[string]string: a missing key and the empty label are different inputs.
MissingKey == -1
Topologies == [TopologyKeys -> Nat \cup {MissingKey}]

NodeInput == [name : Nat, topology : Topologies, capacity : Resources]

Job == [name : Nat, replicas : Int64, resourcesPerReplica : Resources,
        requiredTopology : TopologyKeys \cup {NoTopology},
        arrivalTick : Int64, durationTicks : Int64]

\* node.Topology[key]: indexing a Go map yields "" for a missing key.
Label(topology, key) ==
  IF topology[key] = MissingKey THEN EmptyName ELSE topology[key]

\* resourcesForReplicas: what k replicas of a request consume.
ResourcesForReplicas(perReplica, k) == [d \in Dim |-> perReplica[d] * k]

(***************************************************************************)
(* Validation.  Each predicate holds exactly when the function of the same *)
(* name returns a nil error; the running totals of ValidateCluster add     *)
(* non-negative terms, so they overflow iff the final total does.          *)
(***************************************************************************)
UniqueNames(records) ==
  /\ \A i \in DOMAIN records : records[i].name # EmptyName
  /\ \A i, j \in DOMAIN records : records[i].name = records[j].name => i = j

TotalCapacity(cluster, d) ==
  SumFunction([i \in DOMAIN cluster |-> cluster[i].capacity[d]])

\* Fault: the totals are not checked.
ValidateClusterUnbounded(cluster) ==
  /\ UniqueNames(cluster)
  /\ \A i \in DOMAIN cluster, d \in Dim : cluster[i].capacity[d] >= 0

ValidateCluster(cluster) ==
  /\ UniqueNames(cluster)
  /\ \A i \in DOMAIN cluster, d \in Dim : cluster[i].capacity[d] >= 0
  /\ \A d \in Dim : TotalCapacity(cluster, d) <= MaxInt64

ValidateJobs(jobs) ==
  /\ UniqueNames(jobs)
  /\ \A i \in DOMAIN jobs :
       LET request == jobs[i].resourcesPerReplica
       IN  /\ jobs[i].replicas > 0
           /\ \A d \in Dim : request[d] >= 0
           /\ \E d \in Dim : request[d] # 0
           /\ \A d \in Dim :
                request[d] > 0 => jobs[i].replicas <= MaxInt64 \div request[d]

ValidateTimedJobs(jobs) ==
  /\ ValidateJobs(jobs)
  /\ \A i \in DOMAIN jobs : jobs[i].arrivalTick >= 0 /\ jobs[i].durationTicks > 0

ValidateTopologyRequirements(cluster, jobs) ==
  \A i \in DOMAIN jobs, j \in DOMAIN cluster :
    jobs[i].requiredTopology # NoTopology =>
      Label(cluster[j].topology, jobs[i].requiredTopology) # EmptyName
=============================================================================
