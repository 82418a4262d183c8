# Verification of the Planiqo AI service

The repository is the Python AI service of a project-management tool: a FastAPI
process that turns chat messages into reads of, and writes to, the tool's Node API,
with a knowledge graph in Neo4j beside it. This directory holds TLA+ modules of
its logic, the TLC configurations that check them on small instances and the theorems TLAPS
proves about them.

## 1. Inventory

| Component | State it keeps | Operations | Hard behaviours | What makes it correct |
|---|---|---|---|---|
| Conversation pipeline `agents/supervisor.py` | none of its own; a request is a coroutine suspended at an await | `run`: quota gate, pending action, understanding, validation, preview, execution | requests of one thread interleave at every await; LLM, Node and Neo4j may fail or time out | a write is executed once, only as previewed, only after a timely yes; every request is answered |
| Conversation store `memory/store.py` | `_messages`, `_pending` per thread, in memory | `history`, `append`, `get_pending` (drops expired entries), `set_pending`, `clear_pending` | shared by overlapping requests; lost in a restart; trimmed | one prompt outstanding, the one shown last; a history of whole turns |
| Write executor `agents/write_executor.py` | none | create issue, update issue, create sprint | lookups before the write fail; a write's response is lost | posts what was previewed |
| Node API client `clients/node_api.py` | an HTTP pool | get, post, patch, 10 s timeout, `Idempotency-Key` on creates | a call may be applied although its caller gave up | a create is made once per key |
| Metering `metering/usage.py`, `metering/callback.py` | tokens and requests per org, tokens per request | `add`, `get`, `inc_request`, `on_llm_end` | handlers run in a thread pool, `add` is read-modify-write | never over-counts; cumulative |
| Understanding `chains/intent.py`, `pre_router.py`, `followup_resolver.py`, `yes_no.py` | none | LLM calls with safe defaults | failures, wrong answers | a write intent is never pre-routed |
| Preview, grounding, normalisation `agents/preview.py`, `chains/*` | none | entities to preview, to resolved ids, to request body | lookups fail between steps; the preview and the body are built from different data | preview = execution |
| Read agents and tools `agents/*_agent.py`, `agents/react_utils.py`, `tools/*` | none | an LLM chooses tools; write tools mirror to the graph; a caveat is appended when a call failed | write without confirmation; stale mirror rows; a failed call reported as an empty result | a failed call is admitted |
| Graph sync and events `graph/sync.py`, `graph/events.py` | the Neo4j graph | `full_sync`, one upsert per entity, tombstones, `apply_event` | syncs, events and mirrors overlap at every statement; stale lists; partial failure | the graph holds only what Node once said; a sync brings what Node's lists say; members only are suggested |
| Graph queries `graph/queries.py` | none | Cypher in two or three reads | the graph changes between them | only active members are suggested |
| Sprint summary `agents/summarize_agent.py` | none | four calls of Node, the aggregates, the same again as blocks | Node's data change between the calls; each may fail | the figures add up, and are Node's if it stood still |
| Latency `metering/metrics.py` | the last 1000 durations, count, sum, max | `record`, `snapshot` | interpolation in a small or full window | percentiles in order; a slow call leaves them |
| Render contract `chains/render_contract.py`, `chains/block_emitter.py` | none | validate blocks, replace them by prose | the model's blocks are absent or invalid | a reply always renders |
| Persona and presentation `chains/persona_resolver.py`, `chains/presentation.py` | a small cache | an LLM rewords a reply | the wording | |

How they interact: `/chat` calls `run`; `run` shares the store and the counters with every other
running request of the process; LLM calls call back into metering from other threads; the executor
and the agents' tools call Node; the graph is fed by `full_sync`, by Node's events and by the tools,
and read by validation and by the tools. Everything but Neo4j and Node's database is in
memory.

`PROJECT.json` lists every component with its status and, under `hazards`, each behaviour that is
hard to test, at its line, with the properties that cover it.

## 2. Modules

| Module | Models |
|---|---|
| `Metering` | `UsageStore`, `RequestTokens`, `UsageCallback.on_llm_end` and the quota gate |
| `ConfirmationGate` | abstract: what the confirmation gate promises |
| `Conversation` | `run`, the store, the executor's control flow and the calls to Node; uses `Metering` for its counters |
| `Entities` | pure operators: normalisation, grounding, title cleaning, previews and request bodies |
| `WriteFlow` | one write from the extracted entities to Node's request: `_validate_intent`, the proposal, `write_executor` |
| `GraphMirror` | abstract: what the graph promises its readers |
| `GraphSync` | `full_sync`, `apply_event`, the tools that mirror to the graph and the queries behind them, statement by statement (labels and dependencies included), and Node's data |
| `Sums` | the sum of a function's values over a finite set |
| `SprintSummary`, `Latency` | pure operators: a summary's aggregates and blocks; recording durations and their percentiles |
| `ReadTurn` | a turn that reads, from the intent to `/chat`'s reply; uses the two above |
| `MCMetering`, `MCConversation`, `MCWriteFlow`, `MCGraphSync`, `MCReadTurn` | instances for TLC |
| `ConversationProofs`, `GateProofs`, `TranscriptProofs` | theorems about `Conversation`; the two refinements are in `GateProofs` |
| `WriteFlowProofs`, `GraphSyncProofs`, `MeteringProofs`, `ReadTurnProofs` | theorems about the module named |
| `SumProofs` | lemmas about sums, and induction over the subsets of a finite set |

### Conversation

A request is a member of `Requests`. The code between two awaits runs without interruption (one
asyncio thread), so it is one action, and `pc[r]` names the await a request is suspended in:
`followup`, `routing`, `classifying`, `shaping` and `answering` are LLM calls, `validating` and
`preparing` lookups in Neo4j or Node, `posting` the write itself. A final value of `pc[r]` is the status
the reply carries, or `lost` when the process died.

| Action | Code |
|---|---|
| `RejectOverQuota` … `DropProposal` (the disjuncts of `Arrive`) | `run` up to its first await: counting, quota, the branches on the pending action |
| `FollowupResolved`, `PreRouted`, `ClassifyFailed`, `NeedsInput`, `Classified` | `run` from one LLM call to the next |
| `ValidationFailed`, `Validated` | `_validate_intent` and its outcome |
| `Propose`, `Ask`, `AnswerRead` | the three ways a turn ends: preview and proposal, a reply that asks something, a plain reply |
| `ToolCall` | a ReAct agent calls one of its write tools |
| `GiveUp`, `SendWrite`, `WriteAnswered`, `WriteTimedOut` | the executor: nothing sent, sent, answered, not answered |
| `NodeApply`, `NodeReject` | Node (external): may serve a call that was sent at any later time, or never |
| `OnLlmEnd` | one half of `UsageStore.add` in a pool thread |
| `Tick`, `Restart` | the clock; the process is restarted |

The store is `pending` and `log`. A request is also the name of the proposal it makes and of the key
minted for it; `confirms[r]` is the proposal `r` executes. `shown[r]` (when and in which process a
preview or question was shown) and `told[r]` are recorded for the properties only. Texts, entities and
the LLM are abstracted: a message is `yes`, `no` or `other` to `chains/yes_no.py`, and the LLM sees any
intent in it. What the branches of `run` rely on is stated in `IndInv`.

### Metering

`on_llm_end` is a synchronous handler; LangChain runs it in a thread pool when a chain is driven with
`ainvoke`, so `UsageStore.add`, a read followed by a write without a lock, is the two actions `AddRead` and
`AddWrite`. The LLM call returns only after its handler ended (`Settled`). `Conversation` runs the same
operators; `ImplementsMetering` shows that the pipeline's use of them is a behaviour of `Metering`.

### ConfirmationGate

An offer stands in a thread, at most one; a standing offer is granted once or withdrawn; a granted
write is made at most once. `Conversation` maps the standing proposal of a thread to the offer, the
proposals some request executes to the granted ones, and counts the writes Node applied for each. `Safe` is what a user may
rely on.
What an agent's tool writes is not the gate's; the run `unconfirmed` shows that such writes exist.

### Entities and WriteFlow

`Conversation` knows when a proposal may be executed but not what is in it; `WriteFlow` follows one write
and what is in it. `Entities` holds the pure part: entities are a function from the keys the LLM filled to
their values, so that a missing key, a null and a value differ as they do in the code (`in` against
`.get`). `WriteFlow` is the state machine:

| Action | Code |
|---|---|
| `AskToRephrase`, `Prepare` | `run` before validation: confidence, conventions, grounding, the missing title |
| `CheckIssue`, `SkipName`, `ResolveName`, `CheckName` | one await each of `_validate_intent`: issue number, ids, the first lookup of a name, the second |
| `Refuse`, `Propose`, `Decline`, `Confirm` | validation's error, the preview, the answer, the merge of ids into entities |
| `ExecuteCreateIssue`, `ExecuteUpdateIssue`, `ExecuteCreateSprint` | the executor, one disjunct per early return |
| `Change` | external: a member, a sprint or an issue is removed |

`stage` is the await the write is suspended in or the outcome; `resolved`, `preview` and `body` are the ids
found, the pairs of label and value the user read, and the fields sent. `outage` records that a lookup failed.
Every lookup may fail, whatever the project holds.

Abstractions. A title is the set of its parts, the kinds of tokens that `clean_title`, `is_grounded` and
`strip_novel` tell apart: leading verb, topic, trailing meta and quoted words of the user's; `novel` tokens, invented
altogether; `mixed` tokens, with an invented word and another ("auth-service" of a message that has "auth" only);
`filler`, which has no content word (stopwords, single characters, other scripts) and is never called invented.
`IsGrounded` fails for `novel` and `mixed`, `StripNovel` drops `novel` only. Every part but verb and filler is at least
`MIN_TITLE_AFTER_STRIP` long. A name is a model value and `Within` the containment of names once prefixes
are dropped. An issue number is an integer in one of three forms (`42`, `"#42"`, other text). A message's
keywords are the set of cues they stand for. When a proposal may be confirmed (TTL, thread, once) is left to
`Conversation`, the persona's rewording of a preview is left out, and a body counts as sent whether or not
Node answers.

### GraphSync and GraphMirror

The graph is a set of facts, `[rel, from, to]`: an edge, or a property of a node with its value. One Cypher
statement is atomic; everything else interleaves. An upsert is a sequence of statements, a statement the set of
facts it writes; one that the code skips is left out (`IfGiven`: no assignee, no sprint) or writes the empty set (an entry that
is no label). `upsert_issue` is `RowWrites`, the fields every row has, followed by `LinkWrites`, the loops over `labels`, `blocks`
and `blockedBy`: these three keys come with events only (`IssueWrites`), never with the lists `full_sync` reads nor with
what a tool mirrors (`sync.py:112-113`, `127-129`). So `ListsOf` is what Node's lists say and `FactsOf` that and what its events
say besides; the mirror may hold either, a sync brings the former. `Put` is what
`MERGE` and `SET` do to the graph: facts are added, a property is replaced, and a membership that is merged
loses its mark `removed_at` (`REMOVED` is the marked edge). No statement writes `embedding`: `upsert_issue` has it among its
parameters and in no clause (finding `vectors`).

A job is a call of `full_sync` (`Syncs`), of `apply_event` (`Events`) or of a tool (`Tools`). `at[j]` is what it
awaits next or how it ended, `todo[j]` what is left of the upsert it is in and `left[j]` of the list it goes
through.

| Action | Code |
|---|---|
| `StartSync`, `NextProject`, `ListMembers`, `Tombstone`, `ListSprints`, `ListIssues`, `EndSync` | `full_sync` from one call to the next; the lists are Node's at that moment |
| `Write` | one statement of any upsert |
| `Announce`, `EventApplied` | `apply_event` for users, projects and sprints; for issues and memberships it is started by the change itself (`Published`), and its statements come whenever the job proceeds |
| `FindIssue`, `PatchIssue`, `PostIssue`, `Mirrored` | the update and create tools: find, write to Node, mirror |
| `Suggest`, `ReadResolved`, `ReadLoad` | `suggest_assignee`: its reads, each of the graph as it then is |
| `Search`, `Rank` | the search for similar issues: words, then vectors |
| `Fail` | any await of a job raises; what was written stays |
| `Join`, `Leave`, `Save`, `Delete` | external: Node's data change. Of a member who leaves and an issue that is deleted no event exists in `_HANDLERS` |

`said` is all that was ever true in Node, `steady[s]` says that since `s` began Node's data did not change and
no statement contradicted them, `fresh` that such a sync has ended and that this still holds. `GraphMirror` is the abstract
specification: nothing but what Node said once, one value of each property, nothing forgotten but for a newer value; `Sound` is
what follows for a reader. That the graph
is *not* promised to hold Node's present data is the point: events carry no version, mirrors write rows read before a
`PATCH`, and edges are never deleted.

### SprintSummary, Latency and ReadTurn

`ReadTurn` follows one turn: `at` is what it awaits, `trace` what its calls came back with, `reply` the
result as far as it is made. A text is what it says of the server: `admits` it was not reached, `mentions`
one of the words the check takes for an admission, `plain`, or `absent` ("no sprint").

| Action | Code |
|---|---|
| `Begin` | `_execute` for a read intent, the routes without an agent included |
| `CallTool`, `AgentAnswers`, `AgentRaises` | the ReAct agents: a tool call, the answer through `finalize` (the sprint agent has none), the provider's failure |
| `FetchSprints`, `FetchActive`, `FetchIssues`, `FetchStatuses`, `FetchFails` | `summarize_agent.run`, one call each, and its `except` branches |
| `Emit`, `Edge` | `emit_blocks`; `attach_render_blocks` and the `finally` of `chat` |
| `AnotherCallEnds` | any other call of `/chat`, which only touches the latencies |
| `ChangeIssue`, `ChangeSprint`, `ChangeStatus` | external: Node's data between two calls of a summary; an issue is created, moved, edited or deleted |

Durations are natural numbers and percentiles multiplied by 100, so that interpolation is exact. `Sorted` says what
`sorted` returns, not how: the k-th is the least sample that k samples are not above.

## 3. Runs

| Run | Instance | Shows |
|---|---|---|
| `metering` | 3 requests, 2 orgs, costs 1 and 2, quota 2, restarts | `IndInv`, `NeverOvercharged` under overlapping adds |
| `metering_race` | 2 requests of an org | finding: `Cumulative` fails |
| `four` | 4 requests of a thread, 4 messages kept | `IndInv`, `ExecutedAtMostOnce`, `HistoryInWholeTurns`, `TranscriptInv`, `ImplementsGate` |
| `answered` | 2 requests that create, read with tools or ask; TTL 0 and a clock to 1, LLM calls up to the quota, one restart; fair | `ExecutedAsPreviewed`, `PendingIsLatestPrompt`, `EveryRequestAnswered`, `ImplementsMetering` |
| `unconfirmed` | 1 thread | finding: a write nobody confirmed |
| `retry` | 3 requests of a thread | finding: a retried yes does not reuse the key |
| `writes` | every intent; titles, assignees, sprints, numbers, priorities and cues in the combinations the code tells apart; 2 members and 2 sprints with names inside one another; one change of the project | `IndInv`, `PostedAsPreviewed`, `TitleIsPruned`, `GivenPriorityWins`, `ValidationDecides`, `ResolvedAsPreviewed` |
| `shown`, `dropped` | the same, a project that does not change | findings, below |
| `graph` | a sync, an event and a tool; a project, a user, an issue with a label, two titles; two changes; fair | `IndInv`, `FreshIsExact`, `SuggestsMembers`, `OnlyOverlapBuries`, `ImplementsMirror`, `SyncsRepair` |
| `vectors` | a tool | finding: a mirrored issue has no vector |
| `reads` | a turn after the other; 2 sprints, issues and statuses; each call fails or not; two changes; a window of 2 durations and 3 calls | `IndInv`, `ThreeSilences`, `SummaryAddsUp`, `SteadySummaryIsTrue`, `PercentilesInOrder`, `EveryReadRenders` |

Bounds. A race for a proposal needs a request that proposes and two that affirm (three), a second
proposal a fourth. A trim needs more turns than `MaxStored / 2`: four turns and four messages. Two requests are
what an overlap of two prompts in a thread needs; that a proposal never leaves its thread is proved
(`ConfirmedExecution`). Expiry needs a clock past the TTL (1 over 0) and the loss of a thread one restart. A quota is
reached by calls of cost one. `MaxTokens`, `MaxClock` and `MaxBoots` cap counters in the guards of `AddRead`, `Tick`
and `Restart`. `MaxChanges` bounds the changes of Node's data: in `WriteFlow` one removal at any await is what makes a checked name or number
stale; in `GraphSync` two are a change and its reversal, so that an old row, an old list or a late event contradicts a
newer one; in `ReadTurn` two put a change before and after a call. Two names of which one is inside the other are what
substring matching needs to go wrong. `graph` has a single user, who joins, leaves and joins again, during a sync
or not, which is what tombstones are about, a label, which comes with events only, and no sprints nor dependencies: candidates that
compete, sprints and dependencies are in the theorems (`MembersSuggested`, `SyncedIsExact`, `MirrorImplemented`), which hold for
every value of the constants. A
window of two durations is the smallest in which percentiles interpolate, and the third call is the first to push
one out. `MaxCalls` and `MaxRecords` bound the tools of a turn and the calls of `/chat`.
Requests are symmetric in the runs without liveness. Deadlock is not checked where everything may be over: when every
request has been answered and the clock has reached its bound, or the one write has ended.

Fairness. `answered`: weak fairness of `Proceed(r)` and `OnLlmEnd(r)`: every await of `run` is wrapped or caught, so
a suspended request is resumed once its await returns or raises. That it does is the code's doing for Node (`node_api.py:14`, 10
seconds); for the LLM and for Neo4j it is an assumption on their libraries, as `neo4j_client.py:13-17` sets no
timeout on a query and the model clients are built without one. Node is not assumed to serve anything, users are not assumed to write, and a restart may happen.
`graph`: weak fairness of `Proceed(s)` for syncs alone: an await of one returns or raises, by the HTTP client's timeout
or, for a statement, by the same assumption on the driver of Neo4j. Events and tools may stop anywhere. `reads`: weak fairness of the turn's own steps, from
the same assumptions; an agent makes `MaxCalls` calls at most, its recursion limit.

## 4. Findings

- `Cumulative` (`metering/usage.py:3`): overlapping `add`s lose updates, and an org's total may drop.
- `WritesAreConfirmed` (`supervisor.py:7-9`): the issue and sprint agents write through their tools in a turn
  classified as a query.
- `RetriedConfirmationReusesKey` (`supervisor.py:802-804`): the key is dropped with the pending action
  before the first attempt, so it is never used twice.
- `ExecutedAsShown` (`preview.py:92-93`, `write_executor.py:6-7`): the run shows a sprint's goal that is posted
  and was not previewed. The property also fails on a title (previewed cleaned, posted raw), on a status (previewed,
  never set: only `status_id` is read) and on a sprint's exact name (the first sprint that contains it is taken).
- `NothingDropped` (`supervisor.py:209-211`): after a failed lookup the previewed assignee or sprint is left out,
  or the name itself posted as an id, and no error is shown.
- `VectorsStored` (`graph/sync.py:45-48`): the vector of a title is computed and passed, and no clause of
  the query writes it, so the semantic search ranks an empty index.

What does hold of "preview == execution by construction" is `PostedAsPreviewed` and `ResolvedAsPreviewed`.

Met while modelling, where the code and what is said of it differ without a run of its own:

- Refusals after the yes: `supervisor.py:948-950` says that failures short-circuit before the proposal, but a title
  returned under `name` is previewed and then refused as missing (`write_executor.py:85` reads only `title`), and so are
  `"#42"`, an update without a number, one of a status alone and a sprint without a name.
- Outages told as empty results: `react_utils.py:1-17` says that a failed tool call is always admitted. `sprint_agent` does
  not call `finalize`; a word such as "unavailable" or "try again" anywhere in the answer, in the title of an issue say, counts as
  an admission; `summarize_agent` takes a failed `get_active_sprint` for a project without one. `ThreeSilences` states that there
  are no other ways.
- `summarize_agent.py:47-48` says that `completedAt` decides when a status is not mapped; the code also counts an issue as done
  whose mapped status is not, if it has `completedAt`. `SummaryAddsUp` therefore bounds `done` from below only.
- `preview.py:41-43` says that title content the user never typed is pruned. `strip_novel` drops a token only if all
  its content words are invented (`extract_guard.py:61-63` says so), so "auth-service" is created from a message with "auth", and
  stopwords, single characters and words in other scripts are never counted as invented. `TitleIsPruned` states what
  is pruned and what stays.
- No sync brings labels or dependencies: those of an event that was lost or that failed half-way are not made up for
  (`sync.py:112-113`, `127-129`). `FreshIsExact` claims what the lists say, and nothing of these.
- `metrics.py:56-66` calls itself nearest-rank and interpolates.
- An edge `ASSIGNED_TO` or `IN_SPRINT` is never deleted, so `suggest_assignee` counts an issue towards the load of each of its former
  assignees. `FreshIsExact` leaves edges out for this reason.
- `supervisor.py:612-617` describes a rewording of the reply to an unknown intent, which `presentation.py` skips.

## 5. Proofs

`tlapm` checks the following for every value of the constants, from `ConversationAssumption` (an org per thread,
a TTL in `Nat`, an even transcript bound of at least two) and `NoneAssumption` (`None` is none of the
values it stands in for).

- `TypeCorrect`, `AtMostOneExecution`, `ConfirmedExecution`: `Spec => []` of `TypeOK`,
  `ExecutedAtMostOnce`, `ExecutedAsPreviewed`, all from
- `GateInvariant`: `Spec => []IndInv`. Neither safety property is inductive: a state in which the standing
  proposal is already being executed satisfies both and its next `Confirm` violates the first. `IndInv`
  therefore adds `StandingPrompt` (the pending action of a thread was made by an answered request of
  that thread, shown at its timestamp in this process, and nobody executes it), `TurnState` (where a
  request stands tells whether it executes a proposal or sent a write) and `Arrived`. Three lemmas
  per kind of step (types, prompts, turns) make up the induction.
- `GateImplemented` (`GateProofs`): `Spec => ImplementsGate`. Using `IndInv`, each action is mapped:
  `Confirm` grants, `Propose` offers, `NodeApply` makes, everything else withdraws or stutters. `PipelineIsSafe` proves `Safe`
  of the abstract gate and carries it over: `Spec => []Gate!Safe`.
- `LatestPromptIsPending`, `WindowsAreWholeTurns`: `PendingIsLatestPrompt` and `HistoryInWholeTurns`, from
  `TranscriptsInvariant`: `Spec => []TranscriptInv`. What a trimmed window holds depends on the whole stored
  transcript, so `TranscriptInv` says that the transcript is whole turns (kept because a turn is appended whole and
  `ConversationAssumption` has the stored and the read number of messages even), that its turns are of answered
  requests only, and that a request shows nothing before it is answered: the reply just stored is then the last
  prompt, and none stored before changes.

About `WriteFlow`, from `NamesAssumption` (names and ids are distinct, the project is a list of members and
of sprints and a set of numbers) and `MessagesAssumption` (a message is an intent, cues and any extraction: no
assumption on which keys the LLM fills, nor on the values of those that are not titles):

- `WriteTypeCorrect`: `Spec => []TypeOK`.
- `PreviewIsExecuted`, `TitlesArePruned`, `GivenPrioritiesArePosted`: `Spec => []` of `PostedAsPreviewed`,
  `TitleIsPruned`, `GivenPriorityWins`, from `WriteInvariant`: `Spec => []IndInv`. The three
  speak of a write that was sent and say nothing of the states before, so `IndInv` carries what `Prepare`
  established to the executor: `Pruned` (the key that is posted has the title of the message, pruned, or nothing), `PriorityKept`, and
  `PreviewStands` (the preview still says what the entities say after the yes merged ids into them). The lemmas
  say what each operator of `Entities` puts under each key; one lemma per action makes up the
  induction.

About `GraphSync`, from `GraphAssumption` (users and issues are finitely many, an issue and a sprint have a project, an
issue a reporter and lists of labels, of issues it blocks and of issues that block it; `None` is nothing else; no job is of two kinds), for any data and any number of overlapping
syncs, events and tools, with no bound on their statements:

- `GraphTypeCorrect`: `Spec => []TypeOK`.
- `MirrorImplemented`: `Spec => ImplementsMirror`. A `Write` adds what Node said and replaces older values, a tombstone
  marks, everything else stutters. It needs that whatever is on its way has been said: `Sourced`, which for the update
  tool is a fact about two rows (the row found, patched, and Node's row, patched: `PatchedFacts`), and that no step leaves a
  property with two values (`OneValue(graph)`). `GraphIsSound` proves `Sound` of `GraphMirror` and carries it over.
- `SyncedIsExact`, `OverlapBuries`, `MembersSuggested`: `FreshIsExact`, `OnlyOverlapBuries` and `SuggestsMembers`,
  from `GraphInvariant`: `Spec => []IndInv`. "After a sync" says nothing of the states during one, so `IndInv` has
  `Repairs(s)`: of a project the sync is past or at, each list it is past is in the graph or on its way there,
  and `active_ids` is the list Node still has. What a list says is its rows without labels and dependencies. It is kept by the statements of all other jobs because a
  statement that agrees with Node never takes a fact that does (`AgreeingPut`), which rests on `OneValue`: Node says
  one value of each property. The last step of a sync turns `Repairs` into `Covered` (all of `ListsOf` is in the graph), and `Covered` with `OneValue` into
  exactness. That somebody is suggested is that a finite set of scores has a greatest (`SomebodyIsBest`).

About `Metering`, from `MeteringAssumption` (a quota and costs that are numbers, positive the latter), for any number
of requests and orgs:

- `OrgsNeverOvercharged`, `MeterTypeCorrect`: `Spec => []` of `NeverOvercharged` and `TypeOK`, from `MeterInvariant`.
  `NeverOvercharged` is not inductive, as an add may have read any total: `IndInv` adds that no pending add has seen more than
  the org's requests have spent. Other adds only raise what is spent, so this survives every overlap, and a lost update can
  only lower the charge. `Spent` is a sum over the requests that have arrived, which are finitely many at any time.
- `MeteringImplemented` (`GateProofs`): `Spec => ImplementsMetering` for the pipeline: `Arrive` is `Admit` or `Block`, the
  steps between two awaits stutter, an answer is `Finish`. With it `PipelineNeverOvercharges` carries the bound over:
  `Spec => []Usage!NeverOvercharged` of `Conversation`.

About the lookups of `WriteFlow`, from the same assumptions as its other theorems:

- `ValidationIsRight`, `FoundIdsArePosted`: `ValidationDecides` and `ResolvedAsPreviewed`. Each says of the end of validation
  what was true at each lookup: `MissesTheUnknown` (an error names what the project does not have), `FindsTheKnown` (what the
  loop is past has an id or was missed, if no lookup failed), and `FindsTheNamed` (an id that was found is one of the name that is
  previewed, and stays it until the merge of ids into entities), by where the loop stands (`OnCourse`).

About `ReadTurn`, from `ReadAssumption` (statuses, severities and the issues at the start are finitely many, every status has a
category, durations are numbers, the window is not empty), for any number of sprints, issues and statuses, any window and any
bounds:

- `ReadInvariant`: `Spec => []IndInv`, and from it `ReadTypeCorrect` and
- `OnlyThreeSilences`: `ThreeSilences`. `FailuresAdmitted` says it of a reply as soon as there is one, and `TurnSoFar` that a
  summary which still awaits something has had no failure.
- `SteadySummariesAreTrue`: `SteadySummaryIsTrue`, from what has been read so far being what Node still has (`SteadySoFar`).
- `SummariesAddUp`: `SummaryAddsUp`. A sum over the segments is the size of the union of disjoint sets of issues
  (`SumOfSizes`), those of a status and those of `Other`; nothing is assumed on how the lists of issues and of
  statuses agree, so it holds whatever changed between the calls.
- `PercentilesAreInOrder`: `PercentilesInOrder`. The samples are bounded by the maximum and the total by count times
  maximum (`StatsAddUp`); sorted samples do not fall (`SortedFacts`), an interpolation lies between its ends (`Between`), and
  the 95th percentile interpolates as far after the same sample as the 50th, or after a later one (`FurtherOn`).
  `SortedRearranges` shows of `Sorted`, for any samples, that it rearranges them: of no value more or fewer.

Sums are folds, about which the library proves nothing that the provers here can use: `SumProofs` first shows, by
induction over the subsets of a finite set (`SubsetInduction`, from the well-foundedness of the subset ordering), that a function
which gives the sum of every subset exists and is unique, then what sums do when a set grows or a value does.

Only model-checked: what is out of the prover's reach, liveness (`EveryRequestAnswered`, `SyncsRepair`, `EveryReadRenders`).
Every invariant and every refinement that a run checks is also a theorem.

## 6. Plan

1. Done: `Metering`, `ConfirmationGate`, `Conversation` and their proofs.
2. Done: `Entities`, `WriteFlow` and the proofs of what is posted.
3. Done: `GraphMirror`, `GraphSync` and their proofs.
4. Done: `SprintSummary`, `Latency`, `ReadTurn`.
5. Done: the proofs about `Metering`, the lookups of `WriteFlow` and `ReadTurn`.
6. Done: what the abstract specifications promise, told of the modules that implement them (`PipelineIsSafe`,
   `PipelineNeverOvercharges`, `GraphIsSound`).

## 7. Not modelled

The labels and dependencies of an issue are constants: an event may carry them late or twice, but they do not change, and a
label keeps its name (`upsert_label` sets it). No sync repairs them in the code, and nothing here says that one does.
Wording and layout of replies, persona, the LLM's content, embeddings, Cypher evaluation, FastAPI and
authentication, `PostgresUsageStore` (wired to nothing), configuration, scripts and tests. The reasons are
in `PROJECT.json`.
