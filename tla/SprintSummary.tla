---------------------------- MODULE SprintSummary -----------------------------
(***************************************************************************)
(* The aggregates of agents/summarize_agent.py: a sprint, its issues and   *)
(* the statuses of the project, each as Node had it when it was asked, in  *)
(* a text and, computed again, in the blocks that the UI renders.          *)
(***************************************************************************)
EXTENDS Integers, FiniteSets, Sums

CONSTANTS
  Statuses,    \* of the project, those deleted since included
  Other,       \* the label of a segment: issues whose status is none of the list
  Category,    \* of a status
  Priority,    \* of an issue
  Severities   \* the four priorities a summary counts

IsDone(row, columns) ==
  \/ row.status \in columns /\ Category[row.status] = "done"
  \/ row.completed

\* The labels that count something, with what they count.
Tally(counted) == [l \in {k \in DOMAIN counted : counted[k] # {}} |-> Cardinality(counted[l])]

\* issues is a partial function from issues to their rows.
\* Mutation: issues of an unknown status are left out.
StatusSegmentsKnown(issues, columns) ==
  Tally([l \in columns |-> {i \in DOMAIN issues : issues[i].status = l}])

StatusSegments(issues, columns) ==
  Tally([l \in columns \cup {Other} |->
           {i \in DOMAIN issues : IF l = Other THEN issues[i].status \notin columns
                                  ELSE issues[i].status = l}])

PrioritySegments(issues) ==
  Tally([l \in Severities |-> {i \in DOMAIN issues : Priority[i] = l}])

DoneOf(issues, columns) == Cardinality({i \in DOMAIN issues : IsDone(issues[i], columns)})

\* _format_sprint_summary; a sprint of no issues has no figures.
TextOf(sprint, issues, columns) ==
  [sprint |-> sprint, total |-> Cardinality(DOMAIN issues),
   done |-> DoneOf(issues, columns),
   status |-> StatusSegments(issues, columns), priority |-> PrioritySegments(issues)]

\* _summary_blocks, those after the headline.
ProgressBlock(issues, columns) ==
  [type |-> "progress", completed |-> DoneOf(issues, columns),
   total |-> Cardinality(DOMAIN issues)]
Breakdown(dimension, segments) ==
  IF segments = <<>> THEN {}
  ELSE {[type |-> "breakdown", dimension |-> dimension, segments |-> segments]}

BlocksOf(issues, columns) ==
  IF issues = <<>> THEN {[type |-> "prose"]}
  ELSE {ProgressBlock(issues, columns)}
       \cup Breakdown("status", StatusSegments(issues, columns))
       \cup Breakdown("priority", PrioritySegments(issues))

SumOf(segments) == Total(segments, DOMAIN segments)
=============================================================================
