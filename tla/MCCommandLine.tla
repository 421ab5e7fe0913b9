---------------------------- MODULE MCCommandLine ----------------------------
(***************************************************************************)
(* Instances of CommandLine for TLC: every command with every combination  *)
(* of a flag's values around one good invocation, and files that each      *)
(* check of the loaders rejects.                                           *)
(***************************************************************************)
EXTENDS CommandLine

MCTopologyKeys == {"zone"}

ClusterFile(content, zone) ==
  File(content, "nodes",
       << [name |-> 1, topology |-> [k \in {"zone"} |-> zone],
           capacity |-> [cpu |-> 2, gpu |-> 0]] >>)

Request(name, key, arrival, duration) ==
  [name |-> name, replicas |-> 1, resourcesPerReplica |-> [cpu |-> 1, gpu |-> 0],
   requiredTopology |-> key, arrivalTick |-> arrival, durationTicks |-> duration]

JobsFile(content, items) == File(content, "jobs", items)

Good == ClusterFile("single", 1)
Clusters == { Good, ClusterFile("single", 0), ClusterFile("unreadable", 1),
              File("single", "nodes", Null), File("single", "jobs", << >>) }

Ticks == {Absent, Null, 0, 1}
SomeJobs == {<< Request(1, "zone", arrival, duration) >> :
               arrival \in Ticks, duration \in Ticks}
              \cup { << Request(1, "", 0, 1), Request(2, "", Absent, 1) >>,
                     << Request(0, "", Absent, Absent) >>, << >>, Null }
JobsFiles == {JobsFile("single", items) : items \in SomeJobs}
               \cup {JobsFile(content, << >>) : content \in Contents} \cup {Good}

Args(command, flags, positional, cluster, jobs, policy, output) ==
  [command |-> command, flags |-> flags, positional |-> positional,
   cluster |-> cluster, jobs |-> jobs, policy |-> policy, output |-> output]

Policy == {"strict-fifo", "backfill", "all", "fair"}
AnyCommand == Commands \cup {"none", "help", "unknown"}
SomeFile(command) ==
  JobsFile("single", << IF command = "simulate" THEN Request(1, "zone", 0, 1)
                        ELSE Request(1, "zone", Absent, Absent) >>)

MCInvocations ==
  {Args(command, flags, positional, cluster, SomeFile(command), policy, output) :
     command \in AnyCommand, flags \in {"parsed", "help", "invalid"},
     positional \in BOOLEAN, cluster \in {Good, NoPath}, policy \in Policy,
     output \in {"text", "json", "xml"}}
    \cup
  {Args(command, "parsed", FALSE, cluster, jobs, "backfill", output) :
     command \in Commands, cluster \in Clusters, jobs \in JobsFiles \cup {NoPath},
     output \in {"text", "json"}}
=============================================================================
