------------------------------- MODULE Loading -------------------------------
(***************************************************************************)
(* The loaders of src/internal/model/load.go: one YAML document, decoded   *)
(* strictly and validated.  The YAML decoder is external: a file is        *)
(* represented by what it makes of it.  A loader is the first error it     *)
(* finds, "none" if the file is accepted.                                  *)
(***************************************************************************)
EXTENDS TopoModel

(***************************************************************************)
(* A file: what it contains, the field at the top of its first document,   *)
(* and that field's sequence, Null when the field is missing or null.  A   *)
(* tick of a job is Absent, Null or an int64.                              *)
(***************************************************************************)
CONSTANTS Null, Absent

\* os.ReadFile or the decoder fail on it, or it is a document, which may be
\* followed by another one or by something that is not YAML.
Contents == {"unreadable", "empty", "malformed", "single", "multiple", "trailing"}

\* An entry of the field "jobs"; either tick may be missing or null.
JobDocument ==
  [name : Nat, replicas : Int64, resourcesPerReplica : Resources,
   requiredTopology : TopologyKeys \cup {NoTopology},
   arrivalTick : Int64 \cup {Absent, Null}, durationTicks : Int64 \cup {Absent, Null}]

\* What the decoder can make of a file: a field it knows, or none, and its items.
IsDocument(file) ==
  /\ file.content \in Contents
  /\ \/ file.items = Null
     \/ file.field = "nodes" /\ file.items \in Seq(NodeInput)
     \/ file.field = "jobs" /\ file.items \in Seq(JobDocument)

File(content, field, items) == [content |-> content, field |-> field, items |-> items]

\* Fault: unknown fields are ignored.
DecodesAsLenient(file, field, known) == file.field = field

\* KnownFields(true): a field the destination does not have is an error.
DecodesAs(file, field, known) == file.field = field /\ known

LoadYAML(file, field, known) ==
  CASE file.content = "unreadable" -> "read"
    [] file.content = "empty" -> "file is empty"
    [] file.content = "malformed" -> "decode"
    [] file.content \in {"single", "multiple", "trailing"} ->
         IF ~ DecodesAs(file, field, known) THEN "decode"
         ELSE IF file.content = "multiple" THEN "multiple documents"
         ELSE IF file.content = "trailing" THEN "decode after first document" ELSE "none"

\* What a loader makes of a file that decodes with error yamlErr and whose
\* sequence is valid if it has one.
Load(file, yamlErr, valid) ==
  IF yamlErr # "none" THEN yamlErr
  ELSE IF file.items = Null THEN "required field"
  ELSE IF ~ valid THEN "invalid" ELSE "none"

\* The document of a jobs file has ticks, as the static loader may not.
Untimed(file) ==
  file.items = Null \/
    \A k \in DOMAIN file.items :
      file.items[k].arrivalTick = Absent /\ file.items[k].durationTicks = Absent

TicksGiven(jobs) ==
  \A k \in DOMAIN jobs : {jobs[k].arrivalTick, jobs[k].durationTicks} \cap {Absent, Null} = {}

ValidTimedDocument(jobs) == TicksGiven(jobs) /\ ValidateTimedJobs(jobs)

LoadCluster(file) == Load(file, LoadYAML(file, "nodes", TRUE), ValidateCluster(file.items))
LoadJobs(file) == Load(file, LoadYAML(file, "jobs", Untimed(file)), ValidateJobs(file.items))
LoadTimedJobs(file) ==
  Load(file, LoadYAML(file, "jobs", TRUE), ValidTimedDocument(file.items))
=============================================================================
