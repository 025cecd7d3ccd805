# Verification of the buli engine

TLA+ models of buli's runtime, the TLC runs that check them on small instances
and the theorems about them that TLAPS checks for every instance. Paths are
relative to `src/`; `engine/` stands for `packages/engine/src/`, `openai/` for
`packages/openai/src/`, `controller/` for `packages/chat-app-controller/src/`.

## What is here

| File | Contents |
| --- | --- |
| `ConversationTurn.tla` | one session: runtime, turn, provider stream, serial tool calls, approval, interruption, compactor, history |
| `ConversationSession.tla` | what that session promises the application, the abstract specification |
| `HistoryProjection.tla` | which entries of the history a request shows the model |
| `HistoryProjection_proofs.tla` | what an entry appended to a history does to that, and which tool entries of a stopped turn are shown, for any history |
| `ConversationTurn_proofs.tla` | theorems about `ConversationTurn`: its steps, the history they leave, and its refinement of `ConversationSession` |
| `ReadOnlyToolCallLimiter.tla` | the limiter of read-only tool calls, with a total limit and one per category |
| `ReadOnlyBatches.tla` | the batches of read-only calls of a turn, through the limiter, with what the model gets to see of their results |
| `ReadOnlyBatches_proofs.tla` | theorems about the limiter, the batches that go through it, and their advisories |
| `ReadCoverage.tla`, `ToolResultReplay.tla` | line-range arithmetic of the overlap advisory; how a request shows earlier results |
| `ConcurrentTasks.tla` | a concurrent group of task tool calls: merged streams, subagent limiter, consumer |
| `ProviderProtocol.tla` | protocol client and provider host, two processes and two pipes |
| `ProviderTurns.tla` | what a provider turn is to the engine that reads it, the abstract specification |
| `OpenAiRateLimitCoordinator.tla` | the slots, the adaptive limit and the cool-down the turns of a provider share |
| `OpenAiTurns.tla` | a turn of the OpenAI adapter and one of a subagent, with the engine that reads them |
| `ChatApp.tla` | the chat application between the keys and the engine |
| `ChatTranscript.tla` | what the events of a turn do to the chat's state, what a change set says of it, and what the screen draws again |
| `TranscriptRelay.tla` | the relay that queues, coalesces and delivers the events of a turn |
| `SessionStore.tla` | the sessions in their database, and the processes that share it |
| `ChatApp_proofs.tla` | theorems about `TranscriptRelay` and about `ChatApp` |
| `ProviderProtocol_proofs.tla`, `OpenAiTurns_proofs.tla`, `SessionStore_proofs.tla`, `ConcurrentTasks_proofs.tla` | theorems about the modules of these names |
| `MC*.tla`, `*.cfg` | instances for TLC |
| `PROJECT.json` | the index: components, runs, mutants, map to the source, findings, hazards, theorems |

Run a configuration with `tlc -config ConversationTurn.cfg MCConversationTurn.tla`
and the proofs with `tlapm ConversationTurn_proofs.tla`. `PROJECT.json` names the
module of every configuration.

## The system

buli is a coding assistant for the terminal. The user writes a prompt; the
engine runs it as a *conversation turn* against a model provider, executes the
tool calls the model requests, asks the user about risky ones and records
everything as entries of the conversation session.

| Component | State | Operations | What is hard | What makes it correct |
| --- | --- | --- | --- | --- |
| Conversation turn (`engine/runtime.ts`, `runtimeConversationTurn*.ts`) | current turn, interruption flag and abort signal, flags of the session recorder, entries before the attempt | start, stream, interrupt, finish, recover | an interruption or an error at every yield and await; two nested catch blocks; a retry that rewrites the history | every turn closes once, as what the consumer was told; the history reads as turns; turns end |
| Provider stream (`runtimeProviderStreamProcessor.ts`) | pending read, batch of tool calls, event read ahead | read, batch window, execute, translate | an event kept over the execution of a batch; end of stream against interruption | no event lost or handled twice |
| Serial tool calls and approval (`runtimeToolCallExecution.ts`, `runtimeBashToolCallExecution.ts`, `runtimePendingToolApprovalController.ts`) | the slot of the pending approval and its promise | create, approve, deny, interrupt, clear | answers to requests that are gone; interruption between the yields | no risky command runs unapproved; every call of a finished turn has a result; only an open request can hold a turn |
| History (`conversationHistory.ts`) | entries | append, replace | replaced during recovery only | entries are never lost |
| Compactor (`conversationCompaction/`) | running flag, selected source | compact, auto-compact, recover | source selected before an await | the history stands still meanwhile; excludes turns |
| Concurrent tool calls (`runtimeAssistantResponseEventStreamMerge.ts`, `runtimeReadOnlyToolCallExecution.ts`) | one generator and one pending promise per call | merge, close | races between streams; one failing | every event once, in its stream's order; all streams closed |
| Limiters (`runtimeReadOnlyToolCallConcurrencyLimiter.ts`, `runtimeSubagentConversationConcurrencyLimiter.ts`) | running counts, queues | acquire or wait, release | hand-over on release, two limits at once; a waiting call cannot be withdrawn | limits hold, no slot lost or idle, waiters get served |
| Read coverage, coalescing (`readOnlyToolCall*.ts`) | covered line ranges per file | add, cover, coalesce | inclusive bounds | covered exactly what was read |
| History projection (`conversationHistoryProjection.ts`, contracts) | none | entries to model context | compaction summaries, retained entries | what the model sees answers every call |
| Provider protocol (`providerProtocolClient.ts`, `openai/provider/providerProtocolHost.ts`) | turns, sequence numbers, pending acknowledgements | start, submit, cancel, close, fail all | cancel before start; late acknowledgement | no event of a closed turn; every request settles |
| OpenAI turn (`openai/provider/turnSession.ts`, retry, rate limits, auth) | pending tool results, retries, tokens | submit, wait, retry, refresh | results before the wait; abort; concurrent refresh | each result used once; waits end |
| Application controller (`controller/`) | queued prompts, pending auto-compaction, status flags | submit, stream, interrupt, compact, follow-up | prompts and keys while a turn or a compaction is under way | prompts keep their order; flags tell the truth; automatic turns are bounded |
| Relay and screen (`relayAssistantResponseRunnerEvents.ts`, `chatAppRenderStore.ts`, `packages/chat-session-state`) | queued events, a timer, the chat's state, listeners per part of the screen | queue, flush, deliver, close, draw | coalescing; timers without a handle; a delivery that throws; two ways to build a change set | every event takes effect, in order; nothing on the screen is stale; turns end closed |
| Session store (`apps/cli/src/conversationSession/`, its bindings) | rows and entries in SQLite, the active session; in each process its own copy | append, switch, create, delete, load | several processes; a death or a failing append between two entries | a restart tells the same story; entries stay in their session |
| Session state, TUI, rest of the CLI, MCP, contracts, performance, fixtures | UI state, connections | reducers, rendering | | see `PROJECT.json` for what is left out and why |

How they interact: the controller calls `startConversationTurn`, iterates the
async generator `streamAssistantResponseEvents` and calls `interrupt`,
`approvePendingToolCall`, `denyPendingToolCall` and `compactConversationSession`
from event handlers, so at any moment the generator is suspended at a yield or
an await. The generator pulls the provider's generator, which may be the
protocol client's queue fed by a host process. Runtime, turn, tool calls and
compactor share one `InMemoryConversationHistory`.

## Plan

Done, in this order: `ConversationTurn` with `ConversationSession` and its
theorems; the limiter with its theorems; `ConcurrentTasks`; `ProviderProtocol`
with `ProviderTurns`; the coordinator and `OpenAiTurns`; `ChatApp`;
`HistoryProjection`, composed with `ConversationTurn` and `SessionStore`;
`SessionStore`; `ReadOnlyBatches` with `ReadCoverage` and `ToolResultReplay`;
`ChatTranscript` and `TranscriptRelay`; theorems on all but the last two; theorems
on the history of `ConversationTurn` with its refinement of `ConversationSession`,
on `ConcurrentTasks`, on the folds of `HistoryProjection` with the story a
restart and a request tell, on the batches of `ReadOnlyBatches` with the limiter and
the provider's requests, and on `TranscriptRelay`.

Left: the pages of stored entries that the transcript is filled from when a session
is opened or scrolled.

## ConversationTurn

**Atomicity.** JavaScript runs to the next `yield` or `await`. `pc` names that
point (`y...` or `a...`), and one action is everything from one point to the
next, including the entries appended on the way. `Interrupt`, `Decide`,
`StartTurn` and `CompactStart` are synchronous calls that land between two
actions; `Abandon` is the consumer's `return()`, possible at a yield only.

| Variables | Code |
| --- | --- |
| `history` | entries of `InMemoryConversationHistory` |
| `compaction`, `selected` | `isCompactingConversationSession`, the number of entries listed before the await |
| `turn`, `outcome` | `currentPendingConversationTurn`; the terminal event the consumer received |
| `pc` | the suspension point of the generator and those it delegates to |
| `interrupted` | `hasInterruptedConversationTurn` (and the abort signal, set in the same call) |
| `promptRecorded`, `terminalRecorded` | the two flags of the attempt's session recorder |
| `approval`, `decision` | the controller's slot; what the awaited promise resolved to |
| `granted` | history variable: calls the user approved and that have not run |
| `batch`, `carry` | calls of `PendingProviderRequestedToolCallBatch` not finished; the translation read ahead |
| `observed` | `assistantMessageText` is not empty or `assistantResponseEventCount` has grown in this attempt |
| `snapshot`, `retried` | `conversationSessionEntriesBeforeAttempt`, `hasRetriedAfterContextWindowOverflow` |
| `closing` | kind of the terminal event to be emitted |

A turn runs `StreamStart`, `ResumeStarted` (head of the retry loop),
`PromptReady` or `PromptFails`, then provider events (`ReceiveEvents`,
`ReceiveCall`, `ReceiveTerminal`, `ProviderEnds`, `ProviderThrows`). Tool calls
are collected until `WindowElapsed` or `ReadAhead`, then executed one by one
(`StartCall`, the approval steps, `ResumeRunning`, `ToolReturns` or
`ToolThrows`, `SubmitDone` or `SubmitFails`). An error goes through `Throw`: an
overflow that may be recovered starts `Recover`, anything else `Close`s the turn.
`ResumeTerminal` or `Abandon` run the finally block (`Finish`).

**Abstractions.** An entry is its turn, kind and tool call. Entries of text,
reasoning, sticky notes, hosted web searches and workspace patches are left
out, so is everything else that has no part in the control flow. `Gate`
(a constant) is how the policy treats a call: the classification of shell
commands is data. File mutations differ from an `auto` call by one more await
and are not modelled apart; groups of read-only calls and of tasks have modules
of their own.
Providers are external: they may send any event, end or fail at any time, and
a tool may return or throw. Fields of a turn that is over have their initial
values, so `Finish` resets them.

**Properties.** Each is stated with its definition; in short:

* `HistoryIsInOrder` (`HistoryReadsAsTurns` and `ClosedTurnsAreRecorded`),
  `FinishedTurnsAnswerTheirCalls`: what the history looks like after any mix of
  completion, errors, interruption, retry and abandonment.
* `RequestsTellTheStory`: what `HistoryProjection` makes of that history for the
  next request, compared with a definition that does not scan but asks of each
  turn how it ended. `Lists` says that the request has the entries at certain
  positions in their order; no entry stands in a history twice, so it has each once.
* `ApprovalGate`: README.md:453, "Runtime gates enforce approval flow instead of
  relying only on prompt wording".
* `CompactionSeesWholeHistory`, `OnlyRecoveryDropsEntries`: nothing slips in
  while a summary is awaited, and nothing is taken away but by a recovery.
* `ReadAheadIsHandled`: the event read ahead of a batch is kept over all that the
  batch does, approvals and submissions included, and then handled once.
* `ImplementsConversationSession`: the turn refines `ConversationSession`.
* `OnlyAnApprovalHoldsATurn`: progress.

`HistoryProjection` is a scan over the entries with a fold, as in
`conversationHistoryProjection.ts`; the provider makes the same choice of entries
in `createOpenAiResponsesInputItems` and words them differently, so one module
stands for both.

## ReadOnlyToolCallLimiter

One limiter per runtime serves the read-only calls of the turn, of its subagents
and of custom tools. `Acquire`, `Enqueue` (`acquireReadOnlyToolCallSlot`) and
`Settle` (the `finally` of `run`) are one synchronous stretch each; `Start` is the
microtask in which a call goes on once it has its slot, so a call may hold a slot
(`granted`) and not run yet. `activeCount`, `activeOf` and `pending` are the
fields of the class; `stage` is where each `run()` is. A call in `Runs` may be
made again after it settled, so the behaviours are unbounded although the set
is finite. The category (`inferReadOnlyToolCallConcurrencyCategory`) is the
constant `CategoryOf`.

`Settle` serves one waiting call, whereas the code loops. One is all the loop can
serve: before a release no waiting call fits (`NoIdleSlot`, an invariant and a
theorem), and a release makes room for one.

* `SlotsAreUsed`: the counters are the calls that hold slots, within limits
  (`SlotsAreCounted`); and although a new call looks at the limits and never at
  the queue, and a release may free a slot for the other category, no waiting
  call ever fits into what is free (`NoIdleSlot`).
* `FirstComeFirstServed`: no call overtakes an older one of its category. Across
  categories it may; `CallStarts` shows that this starves nobody.

These are checked in the composition with the batches.

## ReadOnlyBatches

`streamAssistantResponseEventsForAutoApprovedReadOnlyToolCalls` runs the
inspections of one execution group: it asks for slots for all that are not
duplicates of another, waits for whichever settles first, records its result,
and submits all results in the order in which they were recorded. The module has
the steps of a turn around that: `Groups` splits the calls of a step at the calls
that change the workspace, `BuildRequest` shows what the next request makes of
the results.

| Variables | Code |
| --- | --- |
| `stage`, `activeCount`, `activeOf`, `pending` | the limiter, as above |
| `step`, `group`, `phase` | the response step, the group in it, the point of the batch |
| `toStart` | calls of the batch for which `run` has not been called |
| `found`, `answer` | what an operation came to; the result as the model gets it |
| `coverage` | `SameTurnReadCoverageTracker` |
| `items`, `counts`, `request` | the tool results of the turn, how many each request had, and how the last one shows them |
| `crossStep` | the switch `BULI_OPENAI_CROSS_STEP_TOOL_RESULT_REFERENCES`, off by default, either way in the model |
| `seen`, `told` | history variables: lines shown since the last change; in how many requests a result's text was |

* `EvidenceIsReachable`: a result may be replaced by a reference in three ways
  that know nothing of each other (duplicate call, same text in the request,
  earlier request); following them always ends at a text the model has or had.
* `AdvisoriesAreTrue`: what the advisory says of the lines already shown, which the
  code finds by sorting, merging and subtracting ranges, is what `seen`, kept line
  by line, says.
* `EveryBatchEnds`: a batch ends, and so do the waits of other calls.

`Answer` takes any settled call where `Promise.race` prefers the first. The batch
starts in one go in the code; here it is one step per call during which nothing
else moves. Submissions of a batch settle together. With `crossStep` an advisory
may speak of lines whose earlier result is by then a reference to an earlier
request: they were shown, as it says, but not in this request. Left out: denial
by policy, the feedback on a repeated call, the evidence notebook (text for the
prompt), a consumer that leaves at a yield, groups mixed with tasks.

## ConcurrentTasks

`mergeAssistantResponseEventStreams` reads the generators of the task calls of a
group; each of them, past its announcement, runs a subagent conversation under
`RuntimeSubagentConversationConcurrencyLimiter`.

| Variables | Code |
| --- | --- |
| `activeCount`, `waiters` | the fields of the limiter; a waiter is the call whose resolver it is |
| `task` | where the generator is: before its first yield, at the announcement, waiting for a slot, running the conversation, at a progress event, with an outcome, at the result event, submitting, over |
| `answer` | whether the result entry is recorded, whether the provider took it |
| `reading` | what `nextEventPromise` of the call is: none, pending, or settled |
| `opening`, `active` | `pendingInitialAssistantResponseEventStreams`, `activeAssistantResponseEventStreams` |
| `group` | the merge: not started, at its race, at its yield, in its `finally`, over |
| `yielded`, `delivered` | history variables: events given by a call, and handed to the consumer |

A step of the merge is the stretch from one settled race to the next yield or
race. It asks a call for its successor event *before* it yields the event it has
(`Resume` within `TakeNext`, merge line 102), so the provider is sent a result
before the consumer has been shown it, and `NoEventLost` is not a matter of
course.

**Abstractions.** A subagent conversation is up to `MaxProgress` progress events
and an end; all ends that give an outcome, failures included, are `Conclude`
(`streamTaskSubagentConversationProgress` turns errors into outcomes unless the
turn is aborted). `Promise.race` prefers the read that settled first; the model
takes any settled one. The call of a subagent that may not spawn another
(`canSpawnSubagent`) needs no slot and is left out; so are groups with
read-only calls. `NextGroup` starts the next group with the same limiter, in this
turn or a later one, so what one group leaks another would miss.

**What it shows about waiting calls.** A call that waits for a slot cannot be told
to return: `return()` of a generator that is awaiting is queued. When a group
fails or is interrupted, such calls get their slot, start their conversation and
end at its first event; `GroupsEndSettled` and `GroupEnds` show that the group waits
for them and that this ends.

## ProviderProtocol

The engine may run its provider in a process of its own. `request` has what became
of each request of the client (start, submit, cancel, list models); `toHost` and
`toClient` are the pipes, in order and without loss until a process dies
(`HostDies`, at any time; what it has written is still read). `Route` is the pump
of the client, `HandleRequest` the request loop of the host, the `Stream` steps
its stream of a turn. `TimesOut` may happen to any request that waits.
`TooLong` names the kinds of lines that may exceed the limit of 1,048,576
characters, which the decoder refuses and the encoder does not look at.

* `RequestsStayAnswerable`: whatever overtakes what, while the pump runs and the host
  lives a request that is waited for is in a pipe or its answer is, so it ends by its
  answer or with the pump, which refuses all that wait. The pump does not start again:
  once a line that is too long has ended it, a later request is answered into a pipe
  nobody reads, and its time limit alone ends the wait. That this is enough is what
  `NothingIsLeftRunning` and `ListEnds` say.
* `AcknowledgedResultsArrive`: no acknowledgement without delivery.
* `StreamsLikeAProvider`: refinement of `ProviderTurns`, which any provider in the
  same process also is: the events in order and each once, and an end of the kind
  the stream came to.
* `NothingIsLeftRunning`, `ListEnds`: the engine's turns, the model list and the
  host come to an end, whatever dies.

Seen while modelling, and not counted as errors: a consumer that stops reading,
or a start that times out, sends no cancellation, so the host's turn runs on;
when both promises of `listAvailableAssistantModels` are rejected before the
acknowledgement, one rejection has no handler; the host entry point
(`openAiProviderHostEntrypoint.ts:69-84`) copies a request field by field and
omits six of its fields, among them `providerTurnKind`. Left out:
acknowledgements of the wrong kind or turn, which this host does not send.

## OpenAiTurns

A turn is a generator: it runs only while its reader waits for `next()`, and stands
at the event it has handed over. `pc`, `asked` and `inbox` are that rendezvous;
`Generator(t)` are the steps of `turnSession.ts` and of the HTTP retries,
`Reader(t)` and `Execution(t, c)` those of the engine: it asks for one more event
before it executes a batch of calls (`runtimeProviderStreamProcessor.ts:226-246`),
and a task call runs a subagent's turn to its end. `OpenAiRateLimitCoordinator`
holds the parts of those steps that act on the shared coordinator: slots, a limit
that shrinks and grows, a cool-down, sleepers that look again when told.

* `SlotsAreHandedOn`: the counter is the number of turns within a response step,
  and nobody sleeps without a timer while there is a slot to take
  (`NoSleeperIsForgotten`): a wake-up between a check and going to sleep would be
  missed for good.
* `RequestsAnswerTheirCalls`: each request has an output for each call it replays,
  although results may be submitted before anybody waits for them.
* `UsageCountsEveryStep`: retries and failed steps neither add nor lose tokens.
* `TurnsEnd`: only a turn that stands still with a slot in its hands holds up
  another, and an interruption ends that too.

Every tool call comes to a result (approvals are in `ConversationTurn`), the turns
share one abort signal, the cool-down is a Boolean, the content of results is
left out.

## ChatApp

Everything in the application runs on one thread, so a step is what happens between
two waits that last: those for a turn and for a compaction. The session store
answers within the same task (`interactiveChatConversationSessionBindings.ts:60-145`),
which makes switching, deleting and clearing one step each and the flag of a
pending switch unobservable. `loop` is
`streamAssistantResponseForSubmittedPrompt`: the turn, the compaction after it, the
retry or continuation that may follow, the next queued prompt. The keys read
references that are always current, except the status of compactions, which is
what React last rendered (`shownStatus`, `Render`).

`mishaps` records two things that can go wrong and are visible in the properties
rather than hidden by a guard: "barged", a skill command that starts a second loop
while the engine is busy (finding 3), and "stale", a prompt queued while the
rendering still shows a compaction that has ended. Left out: approvals, drafts,
pickers of models and skills; the transcript and errors of event delivery are in
`TranscriptRelay`. `StreamingIsInterruptible` and `QueueDrains` are therefore about
deliveries that succeed: one that throws ends the loop, the queue is not taken and
the status may stay "streaming" without a turn.

* `PromptsKeepTheirOrder`: typed prompts reach the engine once each and in order.
* `FlagsTellTheTruth`: five flags say what is going on, and it is.
* `AutomaticTurnsAreCapped`: the depth of continuations is bounded per typed prompt,
  except that the retry after an overflow starts again at depth 0.
* `SessionStaysDuringWork`, `InterruptionIsConfirmed`, `WorkSettles`.

## ChatTranscript and TranscriptRelay

The events of a turn reach the user in three stages: the relay queues them, the
reducers apply them to the chat's state, and the render store draws the parts of the
screen that the change set of a delivery names. `ChatTranscript` has the reducers,
the change sets and the drawing as operators over a state (`chat`) with the status,
the pending approval, the origin of the shown usage, the messages and their parts.
`TranscriptRelay` has one relay per turn:

| Variables | Code |
| --- | --- |
| `chat`, `screen` | the state in the render store; what each part of the screen showed when it was drawn last |
| `relay` | `queuedAssistantResponseEvents`, whether `scheduledFlushTimeout`, `currentAssistantResponseMessageId`, a terminal event and a delivery error are there, and how far the loop is |
| `timers` | timers that wait, also those whose handle a flush has dropped: it sets `scheduledFlushTimeout` without clearing the timer |
| `asked`, `halted` | calls an approval was asked for; turns interrupted by a delivery that failed in a timer |
| `direct` | history variable: the state if every event were applied when it comes |

`Receive` queues an event and flushes at once, or holds it if it is an update of
streaming text or reasoning (whether 48 ms have passed is a choice). `TurnEvent` has
the orders of events the runtime sends. `DeliveryThrows` is a listener of the render store that throws
(`failures`), in the loop, in a timer or while a turn is closed. `StreamEnds` is also
a stream that ends or throws without a terminal event, which the relay makes up for
(`Synthetic`).

* `CoalescingIsInvisible`: at every moment, what has been delivered and what is
  queued make the state all events make.
* `ScreenShowsTheChat`: after each delivery and each change of the controller no part
  of the screen is stale, although it draws only what the change sets name.
* `FinishedTurnsAreClosed`: a turn whose deliveries worked is closed in the
  transcript when its relay is done, whatever its stream did, and the user can go on.
* `FinishedTurnsStay`: nothing reaches a turn after that, through a timer that still fires.
* `EventsAreShown`: what is held back is shown in the end.

The code compares objects by identity, the model by value: the screen of the model
draws less than that of the program, so a part that is never stale in the model is
never stale in the program. The controller's own state is drawn at once, while React
may draw it later. Left out: texts, the usage in the summary part of a message,
transcript pages. After a delivery that throws in the loop nothing closes the turn in
the transcript: the chat stays "streaming", so the next prompts are queued. No
document says otherwise, and no listener of the repository throws on purpose;
`FinishedTurnsAreClosed` excludes that case by name.

## SessionStore

Each operation of the store is one immediate transaction, thus one step; several
processes share the database, and each has its own copy of the entries, which its
turns read. An append goes to the copy first and then to the database, where it may
fail (session deleted by another process, database locked, disk full); a recovery
takes entries back in the copy only; a process may die at any moment.

* `RestartTellsTheSameStory`: as long as a process alone wrote its session and no
  append failed (`clean`), the entries in the database make the same next request
  as those in memory, at every moment, although the database still has the
  entries of an overflowed attempt. It holds because the summary of the recovery
  hides them, and because a turn without a terminal entry is not shown.
* `EntriesStayInTheirSession`: the session a process appends to was fixed when its
  turn began, whatever the others make active.

Two processes in one session mix their turns; `clean` excludes that, and nothing
in the code prevents it. A failed append leaves its entry in memory only. Left
out: the model selection of a session, ties of `updated_at`,
`replaceConversationSessionEntriesForSession` (no caller). The recovery test
`apps/cli/test/conversationSessionStore.test.ts:711` is one case of the first
property.

## Runs

| Run | Instance | Shows |
| --- | --- | --- |
| `turn_safety` | 2 turns, 1 compaction, an asking and a forbidden call | the properties of `ConversationTurn`, safety, refinement and progress |
| `concurrent_tasks` | 3 tasks, 2 slots, 1 progress event each; 142,340 states | the properties of a group |
| `read_only_batches` | 7 inspections and a change in 3 steps, a subagent's search, 2 slots, 1 for searches; 195,748 states | the batches and the limiter in composition |
| `provider_protocol` | two scenarios (`MCProviderProtocol`): 1 turn with a tool call, 2 events, a start request that may be too long; 1 turn without events beside 1 list, answers that may be too long; 363,154 states | the protocol, safety, refinement and progress |
| `openai_turns` | the main turn with a task and a read, its subagent with a call, 2 slots, 2 steps, 1 retry; 103,387 states | slots, results, usage, progress |
| `chat_app` | 2 sessions, 2 typed prompts, continuation depth 2; 311,184 states | the properties of the application |
| `transcript_relay` | 2 turns, one with text and reasoning of up to 3 updates, one with a tool call and its approval, 2 timers a turn, 1 failing delivery, 1 change of the help; 634,712 states | the relay, the change sets and the screen |
| `session_store` | 2 processes, 2 sessions, 2 turns or compactions, 1 fault; 2,547,363 states | the two promises of the store |
| `cancel_before_start`, `subagent_waits_for_slot`, `queued_prompts_wait` | small | counterexamples, see below |

**Bounds.** `MaxTurns` and `MaxCompactions` of `ConversationTurn` bound starts,
nothing else. Two turns are the least in which entries of different turns could mix,
a recovery has older entries to go back to (it needs a non-empty snapshot) and an
old answer could meet a new request; one compaction may come before, between or
after them, and each turn may add one by recovery. An asking call, once approved,
does what an automatic one does, so with a forbidden one they make all ways of a call and
batches of up to two in either order; call ids are unique among the entries,
which bounds the calls of a behaviour.

In `concurrent_tasks` one of three calls waits while two run, which is enough for a
hand-over in every way a group can end, and one progress event is enough to have a
call suspended with a slot, read ahead, and go on. The batch of
`read_only_batches` has more calls of each category than fit, so that both limits
bind; its ranges touch, overlap, contain each other, reach the threshold of five
lines and miss it, and a change lies between two reads of the same lines; three
steps are the least in which a result is old enough for a reference to an earlier
request. The protocol needs one turn for each race between its own requests, since
the host awaits each write and turns share nothing but the pipe; two events let
one come before a tool result and one after. `openai_turns` needs two slots
because with one the finding below hides everything behind it. In `chat_app` two
prompts can be in each other's way, and depth 2 is the least that tells a counter
from a flag. In `session_store`, two processes and two sessions are the least in which
one may take the active session from under the other; one fault is a death or a
failed append anywhere. In `transcript_relay`, two streaming parts are the least in which updates of
one lie between those of the other, and three lengths make two updates of which the
later one counts; a second timer is one that outlives its handle beside the one that
has it; `MaxTimers` keeps events from being held back when both wait.

Deadlock is checked where nothing may stop: in `ConversationTurn` (`Rest` idles only
in an idle session), `ConcurrentTasks`, `ReadOnlyBatches` and `SessionStore`. The
protocol, the provider turns, the relay and the application stop when all is done or closed.

Type invariants are theorems. Only the run of `ConcurrentTasks` checks its own as
well: it bounds the counter of the limiter.

**Fairness.** `ConversationTurn`: `WF(TurnStep)`, promises the engine awaits settle
(prompt loading reads files, tools have a timeout or end on abort, submissions
resolve) and the controller keeps iterating; `WF(CompactorStep)`, the summary
arrives or fails; `SF(ProviderStops)`, a provider may stream for long but not for
ever, strong because yields and tool batches interrupt its being enabled. Nothing is
assumed of the user.
Limiter and batches: microtasks run, operations settle (file reads and searches)
and the provider says what became of a submission; nobody need ask for a call. The
fairness of the loop of a batch is stated of its control alone (`LoopMoves`), so
that it says nothing about what the steps do to the results.
`ConcurrentTasks`: the engine goes on, conversations and submissions settle, the
consumer asks for the next event or leaves.
`ProviderProtocol`: both processes go on with their work, timers fire, a cancelled
stream throws, and the engine gives up a turn when a submission of it fails; the
host need not live. `OpenAiTurns`: ready continuations run, requests and
silent streams have time limits in the code, a cool-down ends. `ChatApp`: turns and
compactions end and React renders; the user need do nothing. `TranscriptRelay`: a
timer that waits fires or is cleared; the stream of a turn need not go on.

**Mutants.** The operators marked as seeded faults or mutants are bugs
of the kind that could slip into the line they vary; with each the named
property fails.

## Where code and documents disagree

1. *A cancellation before the start is lost* (`cancel_before_start`). With a signal
   that has already fired, the cancel request is written before the start request
   (`engine/providerProtocolClient.ts:135`); the host answers that it knows no such
   turn, then starts it, and nobody can abort it any more. It happens: a task
   call that was waiting for a slot starts its conversation after the interruption.
2. *A subagent waits for ever for a slot* (`subagent_waits_for_slot`). With a limit
   of one, which throttling leads to, the main turn stands at the event the engine
   read ahead with the only slot, and its task call runs a subagent that needs it.
   Only an interruption ends that.
3. *Queued prompts do not wait for a compaction* (`queued_prompts_wait`). A skill
   command during an automatic compaction starts a second loop; the engine refuses
   its turn, and the loop then takes every queued prompt to the same refusal.

Four more are in `ConversationTurn`, without a run because no document decides
them: an overflow after a tool has run without visible text is recovered from, as
tool-call events do not count as events of the attempt (`runtime.ts:640-652`), so the
call and its result leave the memory, though not the database, and the repeated
attempt is not told that the tool has run; a call is recorded after the interruption (`runtimeToolCallExecution.ts:173`);
an approval request can be created after it, and then holds the interrupted turn
until the user answers (`runtimeBashToolCallExecution.ts:176`); an interrupted turn
ends as failed when the provider closes its stream normally just then
(`runtimeProviderStreamProcessor.ts:256`).

## Proofs

Eight modules of theorems, for every value of the constants that the named
assumptions allow. Each rests on one inductive invariant, checked action by action;
the theorems then follow from it.

| Theorems | From | Argument |
| --- | --- | --- |
| `ConversationTurn_proofs`: `TypeCorrect`, `CompactionIsExclusive`, `HistoryOnlyGrows`, `ReadAheadHandled`, `GateEnforced` | `BoundsAssumption`, `CallsAssumption`, `GateAssumption` | `TypeOK` is not inductive: starting a call takes the head of the batch and closing a turn uses its recorded kind, so `TypeInv` adds `Shape`, which says where these exist. `TurnEffect` sums up the steps of a turn in six kinds; with it a compaction that waits sees no history step (`CompactionIsExclusive`), and what a step takes away is what the snapshot of its attempt lacks (`SnapshotInv`). An event read ahead exists only while a batch is executed (`CarryInv`). `GateEnforced` needs that the slot of the approval and the resolved decision belong to the call the generator stands at (`SlotInv`, `DecisionInv`). |
| `ConversationTurn_proofs`: `HistoryInOrder`, `FinishedTurnsAnswered`, `TurnRefinesSession` | the same three | The point where the generator stands says what the history ends in: the entries from before the turn, the turn's prompt and tool entries behind them, or these and its terminal entry (`StageInv`; `snapshot`, taken before the prompt, is where the turn begins). Of the turn's calls, only the one being executed lacks its result, and no call still to be read of the batch is named in the history (`CallsInv`). What a consumer saw end is what is recorded (`OutcomeInv`), and a turn recorded as finished never has a call without result. A compaction only adds its summary, at a point where the turn has nothing in the history yet; a manual one is refused on an empty history (`CompactedInv`), so a summary never comes first. The refinement maps each kind of step to one of `ConversationSession` or to a stutter: the prompt begins a turn, the terminal entry closes it, a recovery takes it back. |
| `ConversationTurn_proofs`: `RequestsTold` | the same three; the lemmas of `HistoryProjection_proofs` | A history is written entry by entry (`Grammar`): a prompt begins its turn behind all earlier turns, a result directly follows its call and a call the prompt or a result, a terminal entry ends its turn. Each step of the engine goes on this way (`TurnGoesOn`): a call is recorded when all others are answered, a result when its call is the last entry, and what a recovery leaves is a prefix. And of every history written this way, whatever steps led to it, the pass over its entries tells what it should (`GrammarTells`, by induction on its length): so far shown are the entries `Tells` names, and pending is the open turn with its tool entries, of which a terminal entry shows all but an unanswered last call (`SerialIsShown`). |
| `ConcurrentTasks_proofs`: `TypeCorrect`, `EventsReachTheConsumer`, `GroupsLeaveNothingBehind` | `TasksAssumption`, `SlotsAssumption`, `ProgressAssumption` | The count of the limiter is the cardinality of the set of calls that run, and its line lists exactly those that wait (`LimiterInv`); of each call, where its generator may stand while its reader holds an event, waits or is done (`CallInv`); every call is still to announce itself, is being read, or is done (`MergeInv`). `NoEventLost` is itself a conjunct: the merge resumes a call only after it has taken the call's last event. |
| `ReadOnlyBatches_proofs`: `TypeCorrect`, `SlotsStayUsed`, `OrderIsKept` | `RunsAssumption`, `CategoryAssumption`, `LimitsAssumption` | The limiter by itself. The invariant says that the queue lists exactly the calls that wait, that the counters count the holders, and that nothing waiting fits. A release makes room for at most one call, and the hand-over fills it. |
| `ReadOnlyBatches_proofs`: `BatchesUseTheLimiter`, `BatchTypesCorrect`, `EvidenceReachable` | the same three, `CallsAssumption`, `AskedAssumption`, `FindsAssumption` | Every step of a batch is a step of the limiter or leaves it alone, and the fairness of the batches includes the limiter's, so its theorems hold of the composition. Steps are cut into groups that are one change or inspections only, which hold the calls the model asked for in their order (`IsGrouping`, by induction over the calls). The calls of the groups behind the turn are answered, those before it are not (`PlaceInv`, `AnswerInv`), and the request lists the calls of the steps behind it, each with its own result and none twice (`SourceInv`, `ItemsInv`). What `Shown` makes of a list of results is found by induction over them (`ShowsWell`): a reference within the request goes back to an exact text, and one across requests to a text that two requests gave (`RequestInv`, with `told`). |
| `ReadOnlyBatches_proofs`: `AdvisoriesTellTheTruth` | the same six | The tracker's ranges cover exactly the lines of `seen` (`SeenInv`). The rest is arithmetic of ranges, by induction over them. Ranges are put in order (`SortedFacts`); merged, they have the same lines and a line between any two (`MergeFacts`), so adding up their lengths counts each line once (`LinesAreCounted`). The pass over the merged ranges leaves the lines none of them has: all that is behind it is in a gap or covered, and the next range begins behind the last one's end, so no gap reaches into it (`SubtractFacts`). |
| `ProviderProtocol_proofs`: `TypeCorrect`, `ProtocolRefinesStream`, `AcknowledgementsAreTrue`, `NoRequestIsForgotten` | `BoundsAssumption`, `NamesAssumption` | A start request is in the pipe at most once (`StartInv`). A close frame carries the number of events, and follows the normal end of the stream or an error frame of the same turn (`FrameInv`, `HostInv`). What the engine was handed and what is queued are the events before the next expected one, with at most one item behind them that says how the turn ended (`QueueInv`). Hence a normal end reaches the engine only with everything before it, which is the refinement's hard step (`ClosedIsComplete`). `ResultInv` and `WaitInv` extend the last two properties to what is still in the pipes. |
| `OpenAiTurns_proofs`: `TypeCorrect`, `SlotsHandedOn`, `UsageIsComplete`, `RequestsAreAnswered` | `MaxSlotsAssumption`, `TurnsAreFinite`, `TurnsAssumption`, `TextsAssumption` | `CoordinatorInv`: the counter is the cardinality of the set of turns in a response step, so acquiring and releasing are facts about finite sets. `NumberInv`: within a step the usage counts the steps before it. `AnswerInv`: outside the wait for results, the outputs of a turn are those of the calls in its input. |
| `ChatApp_proofs`: `NothingIsLostByCoalescing`, `TheScreenIsNeverStale`, `TurnsAreClosed`, `TurnsStayAsTheyEnded` | `TurnsAssumption`, `KindsAssumption` | Of `TranscriptRelay`. `RelayInv` says that turns are relayed one at a time; that a queue that holds anything holds updates of parts that exist, of the turn's own message, and brings the chat to where it would be with every event applied at once (`HeldInv`); and that a turn that has told its end has a closed message and left nothing to wait for (`EndInv`). Why superseded updates may be left out: along the queue, the two states differ in at most the parts that a later update in the same run of updates still replaces (`CompactedIsEnough`, `Pending`). The screen: the change set of every event, and of the setter, covers what it does to the state (`Covers`), merged change sets cover both steps, and drawing what a covering set names makes the screen show the state (`DrawnIsScreen`). Each event is about one message (`Touches`), so a message whose turn is done keeps its row. |
| `ChatApp_proofs`: `TypeCorrect`, `FlagsAreTrue`, `ContinuationsAreCapped`, `SessionStays`, `InterruptionsAreConfirmed`, `PromptsInOrder` | `ChatAppAssumption` | `LoopInv` ties the point of the loop to the flags, `ExclusionInv` says that two activities exclude each other unless a skill command barged in. That the session stays follows from the flag of work in flight, the confirmation from the interruption being armed only while a turn runs. `PromptsInOrder` needs that somebody takes the queue whenever it is not empty (`TakerInv`). |
| `SessionStore_proofs`: `TypeCorrect`, `EntriesStay` | `NoSessionAssumption`, `BoundsAssumption` | Every entry in a database row, in a process's copy or in the snapshot of an attempt belongs to a turn begun in that session (`HomeInv`); a turn's session is the one its process had open when it began (`TurnInv`). |
| `SessionStore_proofs`: `RestartsTellTheSame` | the same two; the lemmas of `HistoryProjection_proofs` | The database and a process's copy differ at most by an attempt that was taken back: it is still in the database, an open turn at its end (`StoryInv`). Reading either gives the same items and the same open prompt otherwise, and what is written next, a prompt or a summary, makes the reader discard the open turn, so the difference cannot show. |

`BoundsAssumption` and the like only give constants their types; `NamesAssumption`
keeps apart names that the model uses for different things (`NoTurn` is no turn, a
list of models is not called "exited"). `CallsAssumption`, `AskedAssumption` and
`FindsAssumption` of `ReadOnlyBatches` say that a call has an id of its own in the
turn, as the engine's calls have, and that a read that shows lines shows a range of
them. `TurnsAssumption` and `KindsAssumption` of `TranscriptRelay` say that turns are
numbered and that each streamed part is text, reasoning or a tool call. The prover needs no bound: numbers of turns,
calls, prompts, processes and attempts are arbitrary.

## Only model-checked

All progress properties: the prover has neither fairness nor ENABLED. Every safety
property and action property of a passing run has a theorem.

Folds over data are proved about in a way around two limits: the library's induction
theorems take an operator, which the provers cannot instantiate, and its `FoldLeft`
comes without theorems. In `HistoryProjection_proofs` induction is stated with a set
of numbers (`AllNaturals`), and the function behind a fold is shown to exist
(`RecursionExists`, for a step given as a function) and to go on by one entry
(`ProjectedAppend`, `SerialStep`). What a step does is part of these lemmas, so each
module with folds of its own has its own: those of `ChatApp_proofs` turn the folds of
the relay into paths of states, one for each event (`StatePath`, `ApplicationPath`,
`CompactedPath`), those of `ReadOnlyBatches_proofs` the folds over ranges (`Course`).
`ReadCoverage` is written for this: it sorts by insertion and filters by a fold, since
the provers can expand neither `SortSeq` nor `SelectSeq`.

## Not modelled

* *Transcript pages* (`conversationTranscriptReducer.ts`, `conversationTranscriptPageLoader.ts`):
  filling the transcript from stored entries is a conversion of each entry, and
  which page is shown depends on scrolling. *Drafts, selections and slash commands*: text
  editing.
* *Automatic compaction policy*: one comparison of token estimates; `ChatApp` lets
  the environment decide.
* *Built-in tools, bash policy, prompt context, skills, workspace snapshots*: text,
  files, git and processes; each call is one step of `ConversationTurn` with any
  outcome.
* *Request formats, stream parsing, authentication* (the rest of `openai/`):
  conversions of JSON, and external services.
* *MCP*: connections kept by an external library; a call is a tool call like others.
* *Terminal interface, design tokens, contracts*: layout and type definitions without
  state of their own to go wrong over several steps.
* *Performance tooling, evaluations, fixtures, Python helpers*: they do not run in
  the application.
