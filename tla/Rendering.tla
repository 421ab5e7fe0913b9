------------------------------ MODULE Rendering ------------------------------
(***************************************************************************)
(* The output of each command (src/internal/output), as the sequence of    *)
(* its sections.  A section is what is written between two points where    *)
(* the code looks at a write error; a table is buffered and flushed as     *)
(* one.  JSON is encoded into a buffer and written at once.                *)
(***************************************************************************)
EXTENDS QueuePolicies, Sequences

Section(policy, part) == [policy |-> policy, part |-> part]
Separator == Section("", "separator")
Whole(part) == Section("", part)

JSON == << Whole("json") >>
RootUsage == << Whole("usage"), Whole("command help") >>

\* sortedPolicyResults, sortedSimulationResults: by policy name.
SortedPolicies ==
  << FirstPolicy(Policies), FirstPolicy(Policies \ {FirstPolicy(Policies)}) >>

JobDecisions(p) == << Section(p, "heading"), Section(p, "decisions") >>
PolicySummary(p) == << Section(p, "summary"), Separator >>
PolicyText(p) == PolicySummary(p) \o JobDecisions(p)

SimulationSummary(p) == << Section(p, "summary"), Separator >>
SimulationEvents(p) == << Section(p, "timeline heading"), Section(p, "timeline"), Separator >>
SimulationLifecycles(p) == << Section(p, "lifecycle heading"), Section(p, "lifecycles") >>
SimulationText(p) == SimulationSummary(p) \o SimulationEvents(p) \o SimulationLifecycles(p)

\* The summary of both policies, then text, what is written for each.
ComparisonText(text) ==
  << Whole("comparison"), Separator >> \o text[SortedPolicies[1]]
    \o << Separator >> \o text[SortedPolicies[2]]

\* What a command writes about the policies it ran.
Rendering(command, policies, output) ==
  IF output = "json" THEN JSON
  ELSE CASE command = "schedule" -> PolicyText(CHOOSE p \in policies : TRUE)
         [] command = "compare" -> ComparisonText([p \in policies |-> JobDecisions(p)])
         [] command = "simulate" ->
              IF policies = Policies THEN ComparisonText([p \in policies |-> SimulationText(p)])
              ELSE SimulationText(CHOOSE p \in policies : TRUE)
=============================================================================
