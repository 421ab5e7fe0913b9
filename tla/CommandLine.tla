----------------------------- MODULE CommandLine -----------------------------
(***************************************************************************)
(* The command (src/cmd/topoqueue/main.go): check the arguments, load the  *)
(* files, call a scheduler, render its result, exit.  A signal ends the    *)
(* context, which only the scheduler looks at; any write may fail.         *)
(*                                                                         *)
(* A call of a scheduler is reduced to its outcome.  On inputs the loaders *)
(* accept, Schedule and Compare fail only with the context's error (see    *)
(* FailsOnlyForCaller of module ScheduleProperties), and the simulations   *)
(* also with an overflow.                                                  *)
(***************************************************************************)
EXTENDS Loading, Rendering, SequencesExt

CONSTANTS
  Invocations,   \* the argument lists; a record of what the flags say
  NoPath         \* the value of a path flag that is not given

ASSUME InvocationsAssumption ==
  \A args \in Invocations : args.jobs = NoPath \/ IsDocument(args.jobs)

VARIABLES
  args,       \* os.Args, and the files it names
  ctxDone,    \* a signal has ended the context
  pc, err,    \* where the program is; the error run returns
  toWrite,    \* the sections still to be written to stdout
  stdout,     \* the sections written
  torn,       \* whether a part of the next section was written too
  exit        \* the exit status

vars == <<args, ctxDone, pc, err, toWrite, stdout, torn, exit>>

Commands == {"schedule", "compare", "simulate"}
HelpCommands == {"help", "-h", "--help"}
NotExited == -1
KilledByPipe == 141

Init ==
  /\ args \in Invocations
  /\ ctxDone = FALSE
  /\ pc = "dispatch" /\ err = "none"
  /\ toWrite = <<>> /\ stdout = <<>> /\ torn = FALSE /\ exit = NotExited

-----------------------------------------------------------------------------
Fail(error) ==
  /\ pc' = "report" /\ err' = error
  /\ UNCHANGED <<args, ctxDone, toWrite, stdout, torn, exit>>

Goto(step) ==
  /\ pc' = step
  /\ UNCHANGED <<args, ctxDone, err, toWrite, stdout, torn, exit>>

Write(sections) ==
  /\ toWrite' = sections /\ pc' = "write"
  /\ UNCHANGED <<args, ctxDone, err, stdout, torn, exit>>

\* run: the usage goes to stderr when there is no known command.
Dispatch ==
  /\ pc = "dispatch"
  /\ \/ args.command \in Commands /\ Goto("flags")
     \/ args.command \in HelpCommands /\ Write(RootUsage)
     \/ args.command \notin Commands \cup HelpCommands
          /\ \E error \in {"command", "write usage"} : Fail(error)

\* The flag package reports to stderr itself; asking for help is no error.
ParseFlags ==
  /\ pc = "flags"
  /\ \/ args.flags = "help" /\ Goto("report")
     \/ args.flags = "invalid" /\ Fail("flags")
     \/ args.flags = "parsed" /\ Goto("arguments")

KnownPolicy ==
  CASE args.command = "schedule" -> args.policy \in Policies
    [] args.command = "compare" -> TRUE   \* it has no such flag
    [] args.command = "simulate" -> args.policy \in Policies \cup {"all"}

ArgumentError ==
  IF args.positional THEN "positional arguments"
  ELSE IF args.cluster = NoPath THEN "--cluster"
  ELSE IF args.jobs = NoPath THEN "--jobs"
  ELSE IF ~ KnownPolicy THEN "policy"
  ELSE IF args.output \notin {"text", "json"} THEN "output" ELSE "none"

CheckArguments ==
  /\ pc = "arguments"
  /\ IF ArgumentError # "none" THEN Fail(ArgumentError) ELSE Goto("load")

\* loadInputs, loadSimulationInputs.
LoadJobsOf(command, file) ==
  IF command = "simulate" THEN LoadTimedJobs(file) ELSE LoadJobs(file)

LoadError ==
  IF LoadCluster(args.cluster) # "none" THEN LoadCluster(args.cluster)
  ELSE IF LoadJobsOf(args.command, args.jobs) # "none"
       THEN LoadJobsOf(args.command, args.jobs)
  ELSE IF ~ ValidateTopologyRequirements(args.cluster.items, args.jobs.items)
       THEN "topology" ELSE "none"

LoadInputs ==
  /\ pc = "load"
  /\ IF LoadError # "none" THEN Fail(LoadError) ELSE Goto("call")

\* A scheduler looks at the context before anything else.
CallScheduler ==
  /\ pc = "call"
  /\ IF ctxDone THEN Fail("canceled") ELSE Goto("scheduling")

PoliciesRun ==
  IF args.command = "compare" \/ args.policy = "all" THEN Policies ELSE {args.policy}

Scheduled ==
  /\ pc = "scheduling"
  /\ \/ Write(Rendering(args.command, PoliciesRun, args.output))
     \/ args.command = "simulate" /\ Fail("overflow")
     \/ ctxDone /\ Fail("canceled")

WriteSection ==
  /\ pc = "write" /\ toWrite # <<>>
  /\ stdout' = Append(stdout, Head(toWrite)) /\ toWrite' = Tail(toWrite)
  /\ UNCHANGED <<args, ctxDone, pc, err, torn, exit>>

\* Fault: an error of a write is not looked at.
WriteFailsUnnoticed ==
  /\ pc = "write" /\ toWrite # <<>>
  /\ toWrite' = Tail(toWrite)
  /\ UNCHANGED <<args, ctxDone, pc, err, stdout, torn, exit>>

\* A write fails after any part of the section.  On a pipe nobody reads, the
\* Go runtime kills the process instead.
WriteFails ==
  /\ pc = "write" /\ toWrite # <<>>
  /\ torn' \in BOOLEAN
  /\ \/ pc' = "report" /\ err' = "write" /\ UNCHANGED exit
     \/ pc' = "exited" /\ exit' = KilledByPipe /\ UNCHANGED err
  /\ UNCHANGED <<args, ctxDone, toWrite, stdout>>

Written == pc = "write" /\ toWrite = <<>> /\ Goto("report")

\* main: the error goes to stderr, where writing it may fail.
Report ==
  /\ pc = "report" /\ pc' = "exited"
  /\ IF err = "none" THEN exit' = 0 ELSE exit' \in {1, 2}
  /\ UNCHANGED <<args, ctxDone, err, toWrite, stdout, torn>>

\* The usage, what the flag package reports and the error go to stderr; on a
\* pipe nobody reads, writing any of them kills the process too.
WritesToStderr ==
  \/ pc = "dispatch" /\ args.command \notin Commands \cup HelpCommands
  \/ pc = "flags" /\ args.flags # "parsed"
  \/ pc = "report" /\ err # "none"

StderrBroken ==
  /\ WritesToStderr
  /\ pc' = "exited" /\ exit' = KilledByPipe
  /\ UNCHANGED <<args, ctxDone, err, toWrite, stdout, torn>>

Signal ==
  /\ ~ ctxDone /\ pc # "exited"
  /\ ctxDone' = TRUE
  /\ UNCHANGED <<args, pc, err, toWrite, stdout, torn, exit>>

Exited == pc = "exited" /\ UNCHANGED vars

Next ==
  \/ Dispatch \/ ParseFlags \/ CheckArguments \/ LoadInputs \/ CallScheduler \/ Scheduled
  \/ WriteSection \/ WriteFails \/ Written \/ Report \/ StderrBroken
  \/ Signal \/ Exited

Spec == Init /\ [][Next]_vars

-----------------------------------------------------------------------------
(***************************************************************************)
(* What is on stdout and the exit status agree, however a signal and write *)
(* failures fall: success means that the whole rendering is there, and a   *)
(* failure leaves no byte of it there unless a write failed.  A signal     *)
(* that comes once writing has begun cuts nothing off.                     *)
(***************************************************************************)
WholeOutput ==
  IF args.command \in HelpCommands THEN RootUsage
  ELSE IF /\ args.command \in Commands /\ args.flags = "parsed"
          /\ ArgumentError = "none" /\ LoadError = "none"
       THEN Rendering(args.command, PoliciesRun, args.output) ELSE <<>>

OutputMatchesExit ==
  pc = "exited" =>
    /\ exit = 0 => stdout = WholeOutput /\ ~ torn
    /\ exit # 0 /\ (stdout # <<>> \/ torn) =>
         /\ err = "write" \/ exit = KilledByPipe
         /\ IsStrictPrefix(stdout, WholeOutput)

(***************************************************************************)
(* No workload is taken for one of the other kind: a jobs file that        *)
(* schedules with either command has no jobs.  The ticks decide although   *)
(* the static loader does not read them.                                   *)
(***************************************************************************)
NoWorkloadMistaken ==
  args.jobs # NoPath =>
    (LoadJobs(args.jobs) = "none" /\ LoadTimedJobs(args.jobs) = "none"
       => args.jobs.items = <<>>)
=============================================================================
