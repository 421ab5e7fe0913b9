--------------------------- MODULE CommandLineProofs ---------------------------
(***************************************************************************)
(* Proofs about the command, for every invocation: what it has written and *)
(* its exit status agree, and no file is taken for another kind of         *)
(* workload.                                                               *)
(***************************************************************************)
EXTENDS CommandLine, TLAPS

Parts == {"usage", "command help", "json", "comparison", "separator", "heading", "decisions",
          "summary", "timeline heading", "timeline", "lifecycle heading", "lifecycles"}
SectionOutput == [policy : Policies \cup {""}, part : Parts]

\* What the program knows of its arguments, by how far it has come.
Accepted ==
  /\ pc \in {"flags", "arguments", "load", "call", "scheduling"} => args.command \in Commands
  /\ pc \in {"arguments", "load", "call", "scheduling"} => args.flags = "parsed"
  /\ pc \in {"load", "call", "scheduling"} => ArgumentError = "none"
  /\ pc \in {"call", "scheduling"} => LoadError = "none"

\* Nothing is written or wrong before the output is rendered.
NothingWritten ==
  pc \notin {"write", "report", "exited"} =>
    err = "none" /\ stdout = <<>> /\ ~ torn

\* What is written and what is left to write make up the whole output.
Writing ==
  pc = "write" =>
    /\ err = "none" /\ ~ torn
    /\ stdout \in Seq(SectionOutput) /\ toWrite \in Seq(SectionOutput)
    /\ stdout \o toWrite = WholeOutput

\* How run ends: with its output, with an error before any, or cut short.
RunResult ==
  \/ err = "none" /\ stdout = WholeOutput /\ ~ torn
  \/ err # "none" /\ stdout = <<>> /\ ~ torn
  \/ err = "write" /\ IsStrictPrefix(stdout, WholeOutput)

Ended ==
  /\ pc # "exited" => exit = NotExited
  /\ pc = "report" => RunResult
  /\ pc = "exited" =>
       \/ RunResult /\ IF err = "none" THEN exit = 0 ELSE exit \in {1, 2}
       \/ /\ exit = KilledByPipe
          /\ (stdout = <<>> /\ ~ torn) \/ IsStrictPrefix(stdout, WholeOutput)

Inv == args \in Invocations /\ Accepted /\ NothingWritten /\ Writing /\ Ended

-----------------------------------------------------------------------------
(***************************************************************************)
(* The output of every accepted invocation is a sequence of sections.      *)
(***************************************************************************)
LEMMA SectionType ==
  ASSUME NEW p \in Policies \cup {""}
  PROVE  \A part \in Parts : Section(p, part) \in SectionOutput
BY DEF Section, SectionOutput

LEMMA CommonSections ==
  Separator \in SectionOutput /\ \A part \in Parts : Whole(part) \in SectionOutput
BY SectionType DEF Separator, Whole, Parts

LEMMA PairType ==
  ASSUME NEW S, NEW a \in S, NEW b \in S
  PROVE  << a >> \in Seq(S) /\ << a, b >> \in Seq(S)
OBVIOUS

LEMMA TripleType ==
  ASSUME NEW S, NEW a \in S, NEW b \in S, NEW c \in S
  PROVE  << a, b, c >> \in Seq(S)
OBVIOUS

LEMMA ConcatType ==
  ASSUME NEW S, NEW s \in Seq(S), NEW t \in Seq(S)
  PROVE  s \o t \in Seq(S)
OBVIOUS

LEMMA PolicyTextType ==
  ASSUME NEW p \in Policies
  PROVE  /\ JobDecisions(p) \in Seq(SectionOutput)
         /\ PolicyText(p) \in Seq(SectionOutput)
         /\ SimulationText(p) \in Seq(SectionOutput)
<1>1. \A part \in Parts : Section(p, part) \in SectionOutput
  BY SectionType
<1>2. Separator \in SectionOutput
  BY CommonSections
<1>3. JobDecisions(p) \in Seq(SectionOutput)
  BY <1>1, PairType DEF JobDecisions, Parts
<1>4. PolicySummary(p) \in Seq(SectionOutput)
  BY <1>1, <1>2, PairType DEF PolicySummary, Parts
<1>5. PolicyText(p) \in Seq(SectionOutput)
  BY <1>3, <1>4, ConcatType DEF PolicyText
<1>6. SimulationSummary(p) \in Seq(SectionOutput)
  BY <1>1, <1>2, PairType DEF SimulationSummary, Parts
<1>7. SimulationEvents(p) \in Seq(SectionOutput)
  <2>1. /\ Section(p, "timeline heading") \in SectionOutput
        /\ Section(p, "timeline") \in SectionOutput
    BY <1>1 DEF Parts
  <2> QED BY <1>2, <2>1, TripleType DEF SimulationEvents
<1>8. SimulationLifecycles(p) \in Seq(SectionOutput)
  BY <1>1, PairType DEF SimulationLifecycles, Parts
<1>9. SimulationText(p) \in Seq(SectionOutput)
  BY <1>6, <1>7, <1>8, ConcatType DEF SimulationText
<1> QED BY <1>3, <1>5, <1>9

\* The two policies, in the order of their names.
LEMMA SortedPoliciesType ==
  /\ SortedPolicies[1] = PolicyBackfill /\ SortedPolicies[2] = PolicyStrictFIFO
  /\ PolicyBackfill \in Policies /\ PolicyStrictFIFO \in Policies
BY DEF SortedPolicies, FirstPolicy, Policies, PolicyBackfill, PolicyStrictFIFO

LEMMA ComparisonTextType ==
  ASSUME NEW text, \A p \in Policies : text[p] \in Seq(SectionOutput)
  PROVE  ComparisonText(text) \in Seq(SectionOutput)
<1>1. << Whole("comparison"), Separator >> \in Seq(SectionOutput)
  BY CommonSections, PairType DEF Parts
<1>2. << Separator >> \in Seq(SectionOutput)
  BY CommonSections, PairType
<1>3. text[SortedPolicies[1]] \in Seq(SectionOutput) /\ text[SortedPolicies[2]] \in Seq(SectionOutput)
  BY SortedPoliciesType
<1> QED BY <1>1, <1>2, <1>3, ConcatType DEF ComparisonText

LEMMA RenderingType ==
  ASSUME args \in Invocations, args.command \in Commands, ArgumentError = "none"
  PROVE  Rendering(args.command, PoliciesRun, args.output) \in Seq(SectionOutput)
<1>1. CASE args.output = "json"
  BY <1>1, CommonSections, PairType DEF Rendering, JSON, Parts
<1>2. CASE args.output # "json"
  <2>1. KnownPolicy
    BY DEF ArgumentError
  <2>3. CASE args.command = "schedule"
    <3>1. "all" \notin Policies
      BY DEF Policies, PolicyBackfill, PolicyStrictFIFO
    <3>2. PoliciesRun = {args.policy}
      BY <2>1, <2>3, <3>1 DEF PoliciesRun, KnownPolicy
    <3>3. (CHOOSE p \in PoliciesRun : TRUE) = args.policy
      BY <3>2
    <3>4. PolicyText(args.policy) \in Seq(SectionOutput)
      BY <2>1, <2>3, PolicyTextType DEF KnownPolicy
    <3> QED BY <1>2, <2>3, <3>3, <3>4 DEF Rendering
  <2>4. CASE args.command = "compare"
    <3>1. PoliciesRun = Policies
      BY <2>4 DEF PoliciesRun
    <3>2. ComparisonText([p \in Policies |-> JobDecisions(p)]) \in Seq(SectionOutput)
      <4>1. \A p \in Policies : [q \in Policies |-> JobDecisions(q)][p] \in Seq(SectionOutput)
        BY PolicyTextType
      <4> QED BY <4>1, ComparisonTextType
    <3> QED BY <1>2, <2>4, <3>1, <3>2 DEF Rendering
  <2>5. CASE args.command = "simulate"
    <3>1. CASE args.policy = "all"
      <4>1. PoliciesRun = Policies
        BY <3>1 DEF PoliciesRun
      <4>2. ComparisonText([p \in Policies |-> SimulationText(p)]) \in Seq(SectionOutput)
        <5>1. \A p \in Policies : [q \in Policies |-> SimulationText(q)][p] \in Seq(SectionOutput)
          BY PolicyTextType
        <5> QED BY <5>1, ComparisonTextType
      <4> QED BY <1>2, <2>5, <4>1, <4>2 DEF Rendering
    <3>2. CASE args.policy # "all"
      <4>1. PoliciesRun = {args.policy}
        BY <2>5, <3>2 DEF PoliciesRun
      <4>2. PoliciesRun # Policies
        BY <4>1 DEF Policies, PolicyBackfill, PolicyStrictFIFO
      <4>3. (CHOOSE p \in PoliciesRun : TRUE) = args.policy
        BY <4>1
      <4>4. SimulationText(args.policy) \in Seq(SectionOutput)
        BY <2>1, <2>5, <3>2, PolicyTextType DEF KnownPolicy
      <4> QED BY <1>2, <2>5, <4>2, <4>3, <4>4 DEF Rendering
    <3> QED BY <3>1, <3>2
  <2> QED BY <2>3, <2>4, <2>5 DEF Commands
<1> QED BY <1>1, <1>2

LEMMA WholeOutputType ==
  ASSUME args \in Invocations
  PROVE  WholeOutput \in Seq(SectionOutput)
<1>1. RootUsage \in Seq(SectionOutput)
  BY CommonSections, PairType DEF RootUsage, Parts
<1> QED BY <1>1, RenderingType DEF WholeOutput

-----------------------------------------------------------------------------
(***************************************************************************)
(* Some output is left to write: what is there is a strict prefix.         *)
(***************************************************************************)
LEMMA CutShort ==
  ASSUME NEW S, NEW s \in Seq(S), NEW t \in Seq(S), t # <<>>
  PROVE  IsStrictPrefix(s, s \o t)
<1>1. /\ Len(s) \in Nat /\ Len(t) \in Nat /\ Len(t) # 0
      /\ Len(s \o t) = Len(s) + Len(t)
      /\ \A k \in 1 .. Len(s) : (s \o t)[k] = s[k]
  OBVIOUS
<1>2. SubSeq(s, 1, Len(s)) = SubSeq(s \o t, 1, Len(s))
  <2>1. s \o t \in Seq(S) /\ 1 .. Len(s) \subseteq DOMAIN (s \o t)
    BY <1>1
  <2>2. /\ SubSeq(s, 1, Len(s)) = [k \in 1 .. Len(s) |-> s[k]]
        /\ SubSeq(s \o t, 1, Len(s)) = [k \in 1 .. Len(s) |-> (s \o t)[k]]
    BY <1>1, <2>1
  <2> QED BY <1>1, <2>2
<1>3. s # s \o t
  BY <1>1
<1> QED BY <1>1, <1>2, <1>3 DEF IsStrictPrefix, IsPrefix

\* Moving the first section left from one list to the other.
LEMMA OneSection ==
  ASSUME NEW S, NEW s \in Seq(S), NEW t \in Seq(S), t # <<>>
  PROVE  /\ Append(s, Head(t)) \in Seq(S) /\ Tail(t) \in Seq(S)
         /\ Append(s, Head(t)) \o Tail(t) = s \o t
<1>1. Head(t) \in S /\ Tail(t) \in Seq(S) /\ Append(s, Head(t)) \in Seq(S)
  OBVIOUS
<1>2. Len(Append(s, Head(t)) \o Tail(t)) = Len(s \o t)
  BY <1>1
<1>3. ASSUME NEW k \in 1 .. Len(s \o t)
      PROVE  (Append(s, Head(t)) \o Tail(t))[k] = (s \o t)[k]
  OBVIOUS
<1> QED BY <1>1, <1>2, <1>3

LEMMA InvInit == Init => Inv
BY DEF Init, Inv, Accepted, NothingWritten, Writing, Ended

\* The definitions that depend on the arguments alone.
LEMMA SameArguments ==
  ASSUME args' = args
  PROVE  /\ ArgumentError' = ArgumentError /\ LoadError' = LoadError
         /\ WholeOutput' = WholeOutput
BY DEF ArgumentError, KnownPolicy, LoadError, WholeOutput, PoliciesRun

LEMMA StrictPrefixKept ==
  ASSUME stdout' = stdout, args' = args, IsStrictPrefix(stdout, WholeOutput)
  PROVE  IsStrictPrefix(stdout, WholeOutput)'
BY SameArguments DEF IsStrictPrefix, IsPrefix

LEMMA InvStep == Inv /\ [Next]_vars => Inv'
<1> SUFFICES ASSUME Inv, [Next]_vars PROVE Inv'
  OBVIOUS
<1>1. args' = args
  BY DEF Next, vars, Dispatch, ParseFlags, CheckArguments, LoadInputs, CallScheduler,
         Scheduled, WriteSection, WriteFails, Written, Report, StderrBroken,
         Signal, Exited, Fail, Goto, Write
<1>2. /\ ArgumentError' = ArgumentError /\ LoadError' = LoadError
      /\ WholeOutput' = WholeOutput /\ args' \in Invocations
  BY <1>1, SameArguments DEF Inv
<1>3. CASE Dispatch
  <2>1. CASE args.command \in Commands /\ Goto("flags")
    BY <1>2, <1>3, <2>1 DEF Dispatch, Goto, Inv, Accepted, NothingWritten, Writing, Ended
  <2>2. CASE args.command \in HelpCommands /\ Write(RootUsage)
    <3>1. /\ pc' = "write" /\ err' = "none" /\ stdout' = <<>> /\ ~ torn'
          /\ toWrite' = WholeOutput /\ exit' = NotExited
      BY <1>3, <2>2 DEF Dispatch, Write, WholeOutput, Inv, NothingWritten, Ended
    <3>2. WholeOutput \in Seq(SectionOutput)
      BY WholeOutputType DEF Inv
    <3>3. Writing'
      <4>1. <<>> \in Seq(SectionOutput) /\ <<>> \o WholeOutput = WholeOutput
        BY <3>2
      <4> QED BY <1>2, <3>1, <3>2, <4>1 DEF Writing
    <3> QED BY <1>2, <3>1, <3>3 DEF Inv, Accepted, NothingWritten, Ended
  <2>3. CASE \E error \in {"command", "write usage"} : Fail(error)
    <3>1. pc' = "report" /\ err' # "none" /\ UNCHANGED <<stdout, torn, exit>>
      BY <2>3 DEF Fail
    <3>2. stdout = <<>> /\ ~ torn /\ exit = NotExited
      BY <1>3 DEF Dispatch, Inv, NothingWritten, Ended
    <3>3. RunResult'
      BY <3>1, <3>2 DEF RunResult
    <3> QED BY <1>2, <3>1, <3>2, <3>3 DEF Inv, Accepted, NothingWritten, Writing, Ended
  <2> QED BY <1>3, <2>1, <2>2, <2>3 DEF Dispatch
<1>4. CASE ParseFlags
  <2>1. CASE args.flags = "help" /\ Goto("report")
    <3>1. WholeOutput = <<>>
      BY <1>4, <2>1 DEF ParseFlags, WholeOutput, Inv, Accepted, Commands, HelpCommands
    <3> QED BY <1>2, <1>4, <2>1, <3>1
            DEF ParseFlags, Goto, Inv, Accepted, NothingWritten, Writing, Ended, RunResult
  <2>2. CASE args.flags = "invalid" /\ Fail("flags")
    BY <1>2, <1>4, <2>2
       DEF ParseFlags, Fail, Inv, Accepted, NothingWritten, Writing, Ended, RunResult
  <2>3. CASE args.flags = "parsed" /\ Goto("arguments")
    BY <1>1, <1>2, <1>4, <2>3
       DEF ParseFlags, Goto, Inv, Accepted, NothingWritten, Writing, Ended
  <2> QED BY <1>4, <2>1, <2>2, <2>3 DEF ParseFlags
<1>5. CASE CheckArguments
  <2>1. CASE ArgumentError # "none" /\ Fail(ArgumentError)
    BY <1>2, <1>5, <2>1
       DEF CheckArguments, Fail, Inv, Accepted, NothingWritten, Writing, Ended, RunResult
  <2>2. CASE ArgumentError = "none" /\ Goto("load")
    BY <1>1, <1>2, <1>5, <2>2
       DEF CheckArguments, Goto, Inv, Accepted, NothingWritten, Writing, Ended
  <2> QED BY <1>5, <2>1, <2>2 DEF CheckArguments
<1>6. CASE LoadInputs
  <2>1. CASE LoadError # "none" /\ Fail(LoadError)
    BY <1>2, <1>6, <2>1
       DEF LoadInputs, Fail, Inv, Accepted, NothingWritten, Writing, Ended, RunResult
  <2>2. CASE LoadError = "none" /\ Goto("call")
    BY <1>1, <1>2, <1>6, <2>2
       DEF LoadInputs, Goto, Inv, Accepted, NothingWritten, Writing, Ended
  <2> QED BY <1>6, <2>1, <2>2 DEF LoadInputs
<1>7. CASE CallScheduler
  <2>1. CASE Fail("canceled")
    BY <1>2, <1>7, <2>1
       DEF CallScheduler, Fail, Inv, Accepted, NothingWritten, Writing, Ended, RunResult
  <2>2. CASE Goto("scheduling")
    BY <1>1, <1>2, <1>7, <2>2
       DEF CallScheduler, Goto, Inv, Accepted, NothingWritten, Writing, Ended
  <2> QED BY <1>7, <2>1, <2>2 DEF CallScheduler
<1>8. CASE Scheduled
  <2>1. CASE Write(Rendering(args.command, PoliciesRun, args.output))
    <3>1. WholeOutput = Rendering(args.command, PoliciesRun, args.output)
      BY <1>8 DEF Scheduled, WholeOutput, Inv, Accepted, Commands, HelpCommands
    <3>2. /\ pc' = "write" /\ err' = "none" /\ stdout' = <<>> /\ ~ torn'
          /\ toWrite' = WholeOutput /\ exit' = NotExited
      BY <1>8, <2>1, <3>1 DEF Scheduled, Write, Inv, NothingWritten, Ended
    <3>3. WholeOutput \in Seq(SectionOutput)
      BY WholeOutputType DEF Inv
    <3>4. Writing'
      <4>1. <<>> \in Seq(SectionOutput) /\ <<>> \o WholeOutput = WholeOutput
        BY <3>3
      <4> QED BY <1>2, <3>2, <3>3, <4>1 DEF Writing
    <3> QED BY <1>2, <3>2, <3>4 DEF Inv, Accepted, NothingWritten, Ended
  <2>2. CASE Fail("overflow") \/ Fail("canceled")
    BY <1>2, <1>8, <2>2
       DEF Scheduled, Fail, Inv, Accepted, NothingWritten, Writing, Ended, RunResult
  <2> QED BY <1>8, <2>1, <2>2 DEF Scheduled
<1>9. CASE WriteSection
  <2>1. /\ pc = "write" /\ toWrite # <<>>
        /\ stdout' = Append(stdout, Head(toWrite)) /\ toWrite' = Tail(toWrite)
        /\ UNCHANGED <<pc, err, torn, exit>>
    BY <1>9 DEF WriteSection
  <2>2. /\ stdout \in Seq(SectionOutput) /\ toWrite \in Seq(SectionOutput)
        /\ stdout \o toWrite = WholeOutput /\ err = "none" /\ ~ torn
    BY <2>1 DEF Inv, Writing
  <2>3. /\ stdout' \in Seq(SectionOutput) /\ toWrite' \in Seq(SectionOutput)
        /\ stdout' \o toWrite' = WholeOutput'
    <3>1. /\ Append(stdout, Head(toWrite)) \in Seq(SectionOutput)
          /\ Tail(toWrite) \in Seq(SectionOutput)
          /\ Append(stdout, Head(toWrite)) \o Tail(toWrite) = stdout \o toWrite
      BY ONLY <2>1, <2>2, OneSection
    <3> QED BY <1>2, <2>1, <2>2, <3>1
  <2> QED BY <1>2, <2>1, <2>2, <2>3 DEF Inv, Accepted, NothingWritten, Writing, Ended
<1>10. CASE WriteFails
  <2>1. /\ pc = "write" /\ toWrite # <<>> /\ stdout' = stdout
        /\ \/ pc' = "report" /\ err' = "write" /\ exit' = exit
           \/ pc' = "exited" /\ exit' = KilledByPipe /\ err' = err
    BY <1>10 DEF WriteFails
  <2>2. IsStrictPrefix(stdout, WholeOutput)
    BY <2>1, CutShort DEF Inv, Writing
  <2>3. IsStrictPrefix(stdout, WholeOutput)'
    BY <1>1, <2>1, <2>2, StrictPrefixKept
  <2> QED BY <1>2, <2>1, <2>3 DEF Inv, Accepted, NothingWritten, Writing, Ended, RunResult
<1>11. CASE Written
  <2>1. /\ pc = "write" /\ toWrite = <<>> /\ pc' = "report"
        /\ UNCHANGED <<err, stdout, torn, exit>>
    BY <1>11 DEF Written, Goto
  <2>2. stdout = WholeOutput /\ err = "none" /\ ~ torn
    BY <2>1 DEF Inv, Writing
  <2> QED BY <1>2, <2>1, <2>2 DEF Inv, Accepted, NothingWritten, Writing, Ended, RunResult
<1>12. CASE Report
  <2>1. /\ pc = "report" /\ pc' = "exited" /\ UNCHANGED <<err, stdout, torn>>
        /\ IF err = "none" THEN exit' = 0 ELSE exit' \in {1, 2}
    BY <1>12 DEF Report
  <2>2. RunResult
    BY <2>1 DEF Inv, Ended
  <2>3. RunResult'
    BY <1>1, <1>2, <2>1, <2>2, StrictPrefixKept DEF RunResult
  <2> QED BY <1>2, <2>1, <2>3 DEF Inv, Accepted, NothingWritten, Writing, Ended
<1>13. CASE StderrBroken
  <2>1. /\ pc' = "exited" /\ exit' = KilledByPipe /\ UNCHANGED <<args, stdout, torn>>
        /\ pc \in {"dispatch", "flags"} \/ (pc = "report" /\ err # "none")
    BY <1>13 DEF StderrBroken, WritesToStderr
  <2>2. (stdout = <<>> /\ ~ torn) \/ IsStrictPrefix(stdout, WholeOutput)
    BY <2>1 DEF Inv, NothingWritten, Ended, RunResult
  <2>3. (stdout = <<>> /\ ~ torn)' \/ IsStrictPrefix(stdout, WholeOutput)'
    BY <2>1, <2>2, StrictPrefixKept
  <2> QED BY <1>2, <2>1, <2>3 DEF Inv, Accepted, NothingWritten, Writing, Ended
<1>14. CASE Signal \/ Exited \/ UNCHANGED vars
  <2>1. UNCHANGED <<args, pc, err, toWrite, stdout, torn, exit>>
    BY <1>14 DEF Signal, Exited, vars
  <2>2. IsStrictPrefix(stdout, WholeOutput) => IsStrictPrefix(stdout, WholeOutput)'
    BY <2>1, StrictPrefixKept
  <2>3. RunResult => RunResult'
    BY <1>2, <2>1, <2>2 DEF RunResult
  <2> QED BY <1>2, <2>1, <2>2, <2>3 DEF Inv, Accepted, NothingWritten, Writing, Ended
<1> QED BY <1>3, <1>4, <1>5, <1>6, <1>7, <1>8, <1>9, <1>10, <1>11, <1>12, <1>13,
           <1>14 DEF Next

LEMMA InvCorrect == Spec => []Inv
BY InvInit, InvStep, PTL DEF Spec

(***************************************************************************)
(* Whenever the process ends, its exit status says what is on stdout:      *)
(* status 0 means all of the output, and any other leaves nothing there    *)
(* unless a write failed, in which case it is a strict prefix.             *)
(***************************************************************************)
THEOREM ExitStatusIsTrue == Spec => []OutputMatchesExit
<1>1. Inv => OutputMatchesExit
  BY DEF Inv, Ended, RunResult, OutputMatchesExit, KilledByPipe
<1> QED BY <1>1, InvCorrect, PTL

-----------------------------------------------------------------------------
LEMMA NoElements ==
  ASSUME NEW S, NEW s \in Seq(S), DOMAIN s = {}
  PROVE  s = <<>>
OBVIOUS

LEMMA LoadedAs ==
  ASSUME NEW file, file.content \in Contents, NEW field, NEW known, NEW valid,
         Load(file, LoadYAML(file, field, known), valid) = "none"
  PROVE  file.field = field /\ known /\ file.items # Null /\ valid
<1>1. LoadYAML(file, field, known) = "none" /\ file.items # Null
  BY DEF Load
<1>2. valid
  BY DEF Load
<1>3. DecodesAs(file, field, known)
  BY <1>1 DEF LoadYAML, Contents
<1> QED BY <1>1, <1>2, <1>3 DEF DecodesAs

(***************************************************************************)
(* A jobs file that both loaders accept has no jobs: of a job's ticks the  *)
(* static loader accepts none and the simulation's loader needs both.      *)
(***************************************************************************)
THEOREM WorkloadKindsAreTold == Spec => []NoWorkloadMistaken
<1>1. ASSUME args \in Invocations, args.jobs # NoPath,
             LoadJobs(args.jobs) = "none", LoadTimedJobs(args.jobs) = "none"
      PROVE  args.jobs.items = <<>>
  <2> PICK file : file = args.jobs
    OBVIOUS
  <2>1. IsDocument(file) /\ file.content \in Contents
    BY <1>1, InvocationsAssumption DEF IsDocument
  <2>2. file.field = "jobs" /\ file.items # Null /\ Untimed(file)
    BY <1>1, <2>1, LoadedAs DEF LoadJobs
  <2>3. TicksGiven(file.items)
    BY <1>1, <2>1, LoadedAs DEF LoadTimedJobs, ValidTimedDocument
  <2>4. file.items \in Seq(JobDocument)
    BY <2>1, <2>2 DEF IsDocument
  <2>5. DOMAIN file.items = {}
    BY <2>2, <2>3 DEF Untimed, TicksGiven
  <2>6. file.items = <<>>
    BY ONLY <2>4, <2>5, NoElements
  <2> QED BY <2>6
<1>2. Inv => NoWorkloadMistaken
  BY <1>1 DEF Inv, NoWorkloadMistaken
<1> QED BY <1>2, InvCorrect, PTL
=============================================================================
