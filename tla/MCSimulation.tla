----------------------------- MODULE MCSimulation -----------------------------
(***************************************************************************)
(* Instances of Simulation for TLC: small clusters, and every workload     *)
(* that can be put together from a catalogue of jobs.                      *)
(***************************************************************************)
EXTENDS SimulationProperties

MCTopologyKeys == {"zone"}

Node(name, zone, cpu, gpu) ==
  [name |-> name, topology |-> [k \in {"zone"} |-> zone],
   capacity |-> [cpu |-> cpu, gpu |-> gpu]]

\* A job is named when its place in the workload is known.
Spec1(replicas, cpu, gpu, key, arrival, duration) ==
  [replicas |-> replicas, resourcesPerReplica |-> [cpu |-> cpu, gpu |-> gpu],
   requiredTopology |-> key, arrivalTick |-> arrival, durationTicks |-> duration]

Named(spec, name) ==
  [name |-> name, replicas |-> spec.replicas,
   resourcesPerReplica |-> spec.resourcesPerReplica,
   requiredTopology |-> spec.requiredTopology,
   arrivalTick |-> spec.arrivalTick, durationTicks |-> spec.durationTicks]

WorkloadsOf(catalogue, sizes) ==
  UNION {{[i \in 1 .. size |-> Named(specs[i], i)] : specs \in [1 .. size -> catalogue]} :
         size \in sizes}

-----------------------------------------------------------------------------
(***************************************************************************)
(* Policies: two zones, the first of two nodes; five CPUs and two GPUs.    *)
(***************************************************************************)
ZonedCluster == << Node(2, 1, 2, 1), Node(1, 1, 1, 1), Node(3, 2, 2, 0) >>

PolicyCatalogue ==
  { Spec1(1, 2, 0, "", 0, 2),        \* one large replica
    Spec1(2, 1, 0, "zone", 1, 1),    \* fits either zone
    Spec1(3, 1, 0, "zone", 0, 1),    \* fits the first zone only
    Spec1(3, 1, 0, "zone", 1, 2),
    Spec1(2, 1, 1, "", 0, 1),        \* both GPUs
    Spec1(5, 1, 0, "", 1, 1),        \* every CPU
    Spec1(1, 0, 1, "", 2, 2),        \* late, GPU only
    Spec1(1, 1, 0, "zone", 0, 3),    \* small and long
    Spec1(4, 1, 0, "zone", 0, 1),    \* never: fragmented
    Spec1(3, 0, 1, "", 1, 1) }       \* never: insufficient

\* Two nodes alike but for the GPU, each a zone, named against the node order.
TiedCluster == << Node(1, 2, 2, 0), Node(2, 1, 2, 1) >>

\* Queues of four: jobs that end together, overtake and wait for one another.
QueueCatalogue ==
  { Spec1(2, 1, 0, "zone", 0, 2),
    Spec1(4, 1, 0, "", 0, 1),        \* every CPU of the tied cluster
    Spec1(3, 1, 0, "zone", 1, 1),    \* never on the tied cluster
    Spec1(1, 1, 1, "", 0, 1),
    Spec1(1, 1, 0, "zone", 1, 2) }

PolicyClusters == {ZonedCluster, TiedCluster}
PolicyWorkloads ==
  WorkloadsOf(PolicyCatalogue, {0, 3}) \cup WorkloadsOf(QueueCatalogue, {4})
BothPolicies == {"strict-fifo", "backfill"}

-----------------------------------------------------------------------------
(***************************************************************************)
(* Edges: arrivals, durations and delays up to MaxInt64 = 7, and inputs    *)
(* each of which one check of the validation rejects.                      *)
(***************************************************************************)
OneNode == << Node(1, 1, 2, 1) >>
EdgeClusters ==
  { << >>, OneNode,
    << Node(1, 1, 4, 0), Node(2, 1, 3, 7) >>,     \* the totals are MaxInt64
    << Node(1, 1, 4, 0), Node(2, 1, 4, 0) >>,     \* a total overflows
    << Node(1, 1, 1, 5), Node(2, 1, 1, 3) >>,
    << Node(1, 1, -1, 0) >>,
    << Node(0, 1, 1, 1) >>,
    << Node(1, 1, 1, 1), Node(1, 2, 1, 1) >>,     \* duplicate name
    << Node(1, 0, 2, 1) >>,                       \* empty label
    << Node(1, MissingKey, 2, 1) >> }

EdgeCatalogue ==
  { Spec1(2, 1, 0, "", 0, 4),        \* a queue of these delays one another
    Spec1(2, 1, 0, "", 0, 1),
    Spec1(1, 1, 0, "", 5, 2),        \* ends at MaxInt64
    Spec1(1, 1, 0, "zone", 5, 3),    \* would end beyond it
    Spec1(2, 0, 3, "", 7, 7),        \* so would this, but where does it fit?
    Spec1(7, 0, 1, "zone", 3, 1) }

InvalidCatalogue ==
  { Spec1(0, 1, 0, "", 0, 1), Spec1(1, -1, 1, "", 0, 1), Spec1(1, 0, 0, "", 0, 1),
    Spec1(4, 2, 0, "", 0, 1), Spec1(1, 1, 0, "", -1, 1), Spec1(1, 1, 0, "", 0, 0) }

EdgeWorkloads ==
  WorkloadsOf(EdgeCatalogue, {0, 1, 3}) \cup WorkloadsOf(InvalidCatalogue, {1})
    \cup {<< Named(spec, 1), Named(spec, name) >> : spec \in EdgeCatalogue, name \in {0, 1}}
EdgePolicyNames == BothPolicies \cup {"all"}

-----------------------------------------------------------------------------
(***************************************************************************)
(* Endings: a context that may be canceled at any moment.                  *)
(***************************************************************************)
EndingClusters == {OneNode, TiedCluster}
EndingWorkloads ==
  WorkloadsOf({ Spec1(2, 1, 0, "zone", 0, 2), Spec1(1, 1, 1, "", 1, 1),
                Spec1(3, 1, 0, "zone", 0, 1) }, {0, 1, 3})
=============================================================================
