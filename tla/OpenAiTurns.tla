------------------------------ MODULE OpenAiTurns ------------------------------
(***************************************************************************)
(* Provider turns of the OpenAI adapter (turnSession.ts) with their HTTP   *)
(* retries (openAiHttpRetry.ts) and the engine that reads them             *)
(* (runtimeProviderStreamProcessor.ts, runtimeTaskToolCallExecution.ts).   *)
(*                                                                         *)
(* A turn is a generator: it runs only while its reader has asked for an   *)
(* event, and stands still at the event it hands over.  A response step    *)
(* builds a request out of all items so far, takes a slot, sends the       *)
(* request with retries, streams, gives the slot back, and waits for the   *)
(* results of the tool calls it asked for.  The engine that reads the main *)
(* turn asks for one more event before it executes a batch of calls, and   *)
(* for no more until the whole batch has its results; a task call runs a   *)
(* turn of its own (the subagent's) to the end.                            *)
(***************************************************************************)
EXTENDS OpenAiRateLimitCoordinator

CONSTANTS
    Main,           \* the turn that answers the user
    CallsOf,        \* the tool calls each turn may ask for, over all its steps
    Subagent,       \* the turn each task call runs
    MaxSteps,       \* maxResponseStepsPerTurn
    MaxRetries,     \* maximumRetryCount
    MaxTexts        \* bound: events other than calls that each turn streams

ASSUME TurnsAssumption == Main \in Turns /\ MaxSteps \in Nat \ {0} /\ MaxRetries \in Nat
ASSUME TextsAssumption == MaxTexts \in [Turns -> Nat]
ASSUME TaskCallsAssumption == \A c \in DOMAIN Subagent : Subagent[c] \in Turns \ {Main}

Calls == UNION {CallsOf[t] : t \in Turns}

VARIABLES
    \* the generators
    pc,         \* where the generator of the turn is
    step,       \* responseStepIndex
    attempt,    \* requestAttemptIndex of the request under way, 0 if there is none
    texts,      \* events other than calls the turn has streamed
    calls,      \* the calls of the current step the stream has shown
    asked,      \* whether the reader's next() waits for the generator
    inbox,      \* the event the generator handed over and the reader has not taken
    input,      \* calls whose function_call items are in the conversation input
    outputs,    \* calls whose function_call_output items are
    queued,     \* queuedToolResultSubmissionByToolCallId
    pending,    \* pendingToolResultSubmissionWaitByToolCallId
    usage,      \* accumulatedOpenAiTurnUsage, one unit for each step
    \* the engine
    reader,     \* whether the engine reads the turn
    batch,      \* calls taken and not yet executed
    executing,  \* calls being executed
    aborted     \* the abort signal of the conversation turn

conversation == <<input, outputs, queued, pending, usage>>
generators == <<pc, step, attempt, texts, calls, asked, inbox, conversation>>
engine == <<reader, batch, executing, aborted>>
vars == <<coordinator, generators, engine>>

Event(kind, cs) == [kind |-> kind, calls |-> cs]
Nothing == Event("nothing", {})
Empty(t) == inbox[t].kind = "nothing"

Init ==
    /\ CoordinatorInit
    /\ pc = [t \in Turns |-> "building"]
    /\ step = [t \in Turns |-> 0]
    /\ attempt = [t \in Turns |-> 0]
    /\ texts = [t \in Turns |-> 0]
    /\ calls = [t \in Turns |-> {}]
    /\ asked = [t \in Turns |-> FALSE]
    /\ inbox = [t \in Turns |-> Nothing]
    /\ input = [t \in Turns |-> {}]
    /\ outputs = [t \in Turns |-> {}]
    /\ queued = [t \in Turns |-> {}]
    /\ pending = [t \in Turns |-> {}]
    /\ usage = [t \in Turns |-> 0]
    /\ reader = [t \in Turns |-> IF t = Main THEN "reading" ELSE "none"]
    /\ batch = [t \in Turns |-> {}]
    /\ executing = [t \in Turns |-> {}]
    /\ aborted = FALSE

-----------------------------------------------------------------------------
(* The generator of a turn. *)

Runs(t, where) == asked[t] /\ pc[t] = where

\* The generator hands an event over and goes on at "next" when asked again.
Yield(t, event, next) ==
    /\ asked' = [asked EXCEPT ![t] = FALSE]
    /\ inbox' = [inbox EXCEPT ![t] = event]
    /\ pc' = [pc EXCEPT ![t] = next]

\* The generator throws: the reader's next() is rejected.
Throw(t) == Yield(t, Event("error", {}), "done")

Goes(t, next) ==
    /\ pc' = [pc EXCEPT ![t] = next]
    /\ UNCHANGED <<asked, inbox>>

\* A new response step sends all input items of the conversation.
BuildRequest(t) ==
    /\ Runs(t, "building")
    /\ step[t] < MaxSteps
    /\ step' = [step EXCEPT ![t] = @ + 1]
    /\ calls' = [calls EXCEPT ![t] = {}]
    /\ StartAcquiring(t)
    /\ Goes(t, "acquiring")
    /\ UNCHANGED <<attempt, texts, conversation, engine>>

ReachStepLimit(t) ==
    /\ Runs(t, "building")
    /\ step[t] = MaxSteps
    /\ Throw(t)
    /\ UNCHANGED <<coordinator, step, attempt, texts, calls, conversation, engine>>

AcquireSlot(t) ==
    /\ Runs(t, "acquiring")
    /\ ~aborted
    /\ TakeSlot(t)
    /\ Goes(t, "requesting")
    /\ attempt' = [attempt EXCEPT ![t] = 1]
    /\ UNCHANGED <<step, texts, calls, conversation, engine>>

WaitForSlot(t) ==
    /\ Runs(t, "acquiring")
    /\ \/ ~aborted /\ FallAsleep(t)
       \/ TimerFires(t)
    /\ UNCHANGED <<generators, engine>>

SlotWaitInterrupted(t) ==
    /\ Runs(t, "acquiring")
    /\ aborted
    /\ GiveUp(t)
    /\ Throw(t)
    /\ UNCHANGED <<step, attempt, texts, calls, conversation, engine>>

\* requestOpenAiHttpResponseWithRetries: every response that arrives is observed.
RequestAnswered(t) ==
    /\ Runs(t, "requesting")
    /\ \E signal \in Signals \ {"throttled"} : Observe(signal)
    /\ Goes(t, "streaming")
    /\ attempt' = [attempt EXCEPT ![t] = 0]
    /\ UNCHANGED <<step, texts, calls, conversation, engine>>

\* A transport error, or a response with a status that may pass: a delay,
\* announced to the reader, then another attempt.  The slot is kept.
RequestRetried(t) ==
    /\ Runs(t, "requesting")
    /\ attempt[t] <= MaxRetries
    /\ \E signal \in Signals \ {"plenty"} : Observe(signal)
    /\ Yield(t, Event("retry", {}), "delaying")
    /\ UNCHANGED <<step, attempt, texts, calls, conversation, engine>>

\* Another status, no attempts or time left, the fetch's time limit, an abort.
RequestFails(t) ==
    /\ Runs(t, "requesting")
    /\ \E signal \in Signals \ {"plenty"} : ObserveAndRelease(signal)
    /\ Throw(t)
    /\ attempt' = [attempt EXCEPT ![t] = 0]
    /\ UNCHANGED <<step, texts, calls, conversation, engine>>

RetryDelayEnds(t) ==
    /\ Runs(t, "delaying")
    /\ attempt' = [attempt EXCEPT ![t] = @ + 1]
    /\ Goes(t, "requesting")
    /\ UNCHANGED <<coordinator, step, texts, calls, conversation, engine>>

RetryDelayInterrupted(t) ==
    /\ Runs(t, "delaying")
    /\ aborted
    /\ Release
    /\ Throw(t)
    /\ attempt' = [attempt EXCEPT ![t] = 0]
    /\ UNCHANGED <<step, texts, calls, conversation, engine>>

StreamText(t) ==
    /\ Runs(t, "streaming")
    /\ texts[t] < MaxTexts[t]
    /\ texts' = [texts EXCEPT ![t] = @ + 1]
    /\ Yield(t, Event("text", {}), "streaming")
    /\ UNCHANGED <<coordinator, step, attempt, calls, conversation, engine>>

\* Calls are handed over when their arguments are complete, before the step ends.
StreamCalls(t) ==
    /\ Runs(t, "streaming")
    /\ \E cs \in (SUBSET (CallsOf[t] \ (input[t] \cup calls[t]))) \ {{}} :
         /\ calls' = [calls EXCEPT ![t] = @ \cup cs]
         /\ Yield(t, Event("calls", cs), "streaming")
    /\ UNCHANGED <<coordinator, step, attempt, texts, conversation, engine>>

\* A stream that breaks, stays silent too long, ends early, is aborted, goes
\* over the limit of calls, or leaves out an item needed to replay a call.
StreamFails(t) ==
    /\ Runs(t, "streaming")
    /\ Release
    /\ Throw(t)
    /\ UNCHANGED <<step, attempt, texts, calls, conversation, engine>>

\* Only the usage of the last step counts.
CountUsageAtTheEnd(t) == usage' = [usage EXCEPT ![t] = IF calls[t] = {} THEN @ + 1 ELSE @]

CountUsage(t) == usage' = [usage EXCEPT ![t] = @ + 1]

\* A step without function calls ends the turn, completed or incomplete.
FinalStepEnds(t) ==
    /\ Runs(t, "streaming")
    /\ calls[t] = {}
    /\ Release
    /\ CountUsage(t)
    /\ Yield(t, Event("final", {}), "done")
    /\ UNCHANGED <<step, attempt, texts, calls, input, outputs, queued, pending, engine>>

\* Waits that do not look at the queue.
StillAwaitedAnyway(t) == calls[t]

\* waitForToolResultSubmissions: results that came early are in the queue.
StillAwaited(t) == calls[t] \ queued[t]

\* A step with function calls, maybe only ones that are not valid.
CallStepEnds(t) ==
    /\ Runs(t, "streaming")
    /\ Release
    /\ CountUsage(t)
    /\ input' = [input EXCEPT ![t] = @ \cup calls[t]]
    /\ queued' = [queued EXCEPT ![t] = @ \ calls[t]]
    /\ IF aborted /\ StillAwaited(t) # {}
       THEN Throw(t) /\ UNCHANGED pending
       ELSE Goes(t, "awaiting") /\ pending' = [pending EXCEPT ![t] = StillAwaited(t)]
    /\ UNCHANGED <<step, attempt, texts, calls, outputs, engine>>

\* A wait without an abort listener.
ResultWaitNotInterrupted(t) == FALSE /\ UNCHANGED vars

ResultWaitInterrupted(t) ==
    /\ Runs(t, "awaiting")
    /\ aborted
    /\ pending[t] # {}
    /\ pending' = [pending EXCEPT ![t] = {}]
    /\ Throw(t)
    /\ UNCHANGED <<coordinator, step, attempt, texts, calls, input, outputs, queued, usage, engine>>

HasSomeResult(t) == pending[t] # calls[t]

HasResults(t) == pending[t] = {}

\* The outputs of the step follow its calls; then the next step, or an
\* incomplete end when the context is nearly full.
AnswerCalls(t) ==
    /\ Runs(t, "awaiting")
    /\ HasResults(t)
    /\ outputs' = [outputs EXCEPT ![t] = @ \cup (calls[t] \ pending[t])]
    /\ \/ Goes(t, "building")
       \/ Yield(t, Event("final", {}), "done")
    /\ UNCHANGED <<coordinator, step, attempt, texts, calls, input, queued, pending, usage, engine>>

\* return() of a generator that stands at a yield runs its finally block.
Holding == {"requesting", "delaying", "streaming"}
CloseGenerator(t) ==
    /\ reader[t] = "left"
    /\ ~asked[t]
    /\ pc[t] # "done"
    /\ IF pc[t] \in Holding THEN Release ELSE UNCHANGED coordinator
    /\ attempt' = [attempt EXCEPT ![t] = 0]
    /\ Goes(t, "done")
    /\ UNCHANGED <<step, texts, calls, conversation, engine>>

-----------------------------------------------------------------------------
(* The engine. *)

Idle(t) == reader[t] = "reading" /\ executing[t] = {}

\* next(), for the main turn also while a batch is being collected.
Ask(t) ==
    /\ Idle(t)
    /\ ~asked[t]
    /\ Empty(t)
    /\ asked' = [asked EXCEPT ![t] = TRUE]
    /\ UNCHANGED <<coordinator, pc, step, attempt, texts, calls, inbox, conversation, engine>>

Takes(t, kinds) ==
    /\ Idle(t)
    /\ ~aborted
    /\ inbox[t].kind \in kinds
    /\ inbox' = [inbox EXCEPT ![t] = Nothing]
    /\ UNCHANGED <<coordinator, pc, step, attempt, texts, calls, asked, conversation, aborted>>

TakeEvent(t) ==
    /\ batch[t] = {}
    /\ Takes(t, {"text", "retry"})
    /\ UNCHANGED <<reader, batch, executing>>

\* The main turn's reader collects a batch, a subagent's executes at once.
TakeCalls(t) ==
    /\ Takes(t, {"calls"})
    /\ IF t = Main
       THEN batch' = [batch EXCEPT ![t] = @ \cup inbox[t].calls] /\ UNCHANGED executing
       ELSE executing' = [executing EXCEPT ![t] = inbox[t].calls] /\ UNCHANGED batch
    /\ UNCHANGED reader

\* The end of the turn; an error that arrives in the batch window drops the batch.
TakeEnd(t) ==
    /\ inbox[t].kind = "error" \/ batch[t] = {}
    /\ Takes(t, {"final", "error"})
    /\ reader' = [reader EXCEPT ![t] = "left"]
    /\ batch' = [batch EXCEPT ![t] = {}]
    /\ UNCHANGED executing

\* The window elapses with the next() outstanding, or another event closes it.
Execute(t) ==
    /\ Idle(t)
    /\ batch[t] # {}
    /\ asked[t] \/ inbox[t].kind \notin {"nothing", "calls"}
    /\ executing' = [executing EXCEPT ![t] = batch[t]]
    /\ batch' = [batch EXCEPT ![t] = {}]
    /\ UNCHANGED <<coordinator, generators, reader, aborted>>

StartSubagent(t, c) ==
    /\ c \in executing[t] \cap DOMAIN Subagent
    /\ reader[Subagent[c]] = "none"
    /\ ~aborted
    /\ reader' = [reader EXCEPT ![Subagent[c]] = "reading"]
    /\ UNCHANGED <<coordinator, generators, batch, executing, aborted>>

\* submitToolResult, for a task call once its subagent's turn is over.
SubmitResult(t, c) ==
    /\ c \in executing[t]
    /\ c \in DOMAIN Subagent => reader[Subagent[c]] = "left"
    /\ executing' = [executing EXCEPT ![t] = @ \ {c}]
    /\ pending' = [pending EXCEPT ![t] = @ \ {c}]
    /\ queued' = IF c \in pending[t] THEN queued ELSE [queued EXCEPT ![t] = @ \cup {c}]
    /\ UNCHANGED <<coordinator, pc, step, attempt, texts, calls, asked, inbox, input, outputs, usage,
                   reader, batch, aborted>>

Leaves(t) ==
    /\ reader' = [reader EXCEPT ![t] = "left"]
    /\ inbox' = [inbox EXCEPT ![t] = Nothing]
    /\ batch' = [batch EXCEPT ![t] = {}]
    /\ executing' = [executing EXCEPT ![t] = {}]
    /\ UNCHANGED <<coordinator, pc, step, attempt, texts, calls, asked, conversation, aborted>>

\* throwIfConversationTurnInterrupted, at the next event or in a tool call.
LeaveInterrupted(t) ==
    /\ aborted
    /\ reader[t] = "reading"
    /\ ~Empty(t) \/ executing[t] # {}
    /\ Leaves(t)

\* A subagent that asks for tools again after its checkpoint is not read on.
LeaveAfterCheckpoint(t) ==
    /\ t # Main
    /\ Idle(t)
    /\ inbox[t].kind = "calls"
    /\ Leaves(t)

Interrupt ==
    /\ ~aborted
    /\ aborted' = TRUE
    /\ UNCHANGED <<coordinator, generators, reader, batch, executing>>

CoolDown == CooldownEnds /\ UNCHANGED <<generators, engine>>

-----------------------------------------------------------------------------
Generator(t) ==
    \/ BuildRequest(t) \/ ReachStepLimit(t)
    \/ AcquireSlot(t) \/ WaitForSlot(t) \/ SlotWaitInterrupted(t)
    \/ RequestAnswered(t) \/ RequestRetried(t) \/ RequestFails(t)
    \/ RetryDelayEnds(t) \/ RetryDelayInterrupted(t)
    \/ StreamText(t) \/ StreamCalls(t) \/ StreamFails(t)
    \/ FinalStepEnds(t) \/ CallStepEnds(t)
    \/ ResultWaitInterrupted(t) \/ AnswerCalls(t)
    \/ CloseGenerator(t)

Reader(t) ==
    \/ Ask(t) \/ TakeEvent(t) \/ TakeCalls(t) \/ TakeEnd(t) \/ Execute(t)
    \/ LeaveInterrupted(t) \/ LeaveAfterCheckpoint(t)

Execution(t, c) == StartSubagent(t, c) \/ SubmitResult(t, c)

Next ==
    \/ \E t \in Turns : Generator(t) \/ Reader(t)
    \/ \E t \in Turns : \E c \in CallsOf[t] : Execution(t, c)
    \/ Interrupt
    \/ CoolDown

Spec == Init /\ [][Next]_vars

\* The event loop runs what is ready; requests and silent streams have time
\* limits, a cool-down ends, and every tool call comes to a result.
FairSpec ==
    /\ Spec
    /\ \A t \in Turns : WF_vars(Generator(t)) /\ WF_vars(Reader(t))
    /\ \A t \in Turns : \A c \in CallsOf[t] : WF_vars(Execution(t, c))
    /\ WF_vars(CoolDown)

-----------------------------------------------------------------------------
(* Properties. *)

\* Every variable stays in its range; in particular the adaptive limit stays
\* between one and the configured maximum.
TypeOK ==
    /\ CoordinatorTypeOK
    /\ pc \in [Turns -> Holding \cup {"building", "acquiring", "awaiting", "done"}]
    /\ step \in [Turns -> 0 .. MaxSteps]
    /\ attempt \in [Turns -> 0 .. MaxRetries + 1]
    /\ \A t \in Turns : texts[t] \in 0 .. MaxTexts[t]
    /\ asked \in [Turns -> BOOLEAN]
    /\ inbox \in [Turns -> [kind : {"nothing", "text", "retry", "calls", "final", "error"}, calls : SUBSET Calls]]
    /\ usage \in [Turns -> 0 .. MaxSteps]
    /\ reader \in [Turns -> {"none", "reading", "left"}]
    /\ {calls, input, outputs, queued, pending, batch, executing} \subseteq [Turns -> SUBSET Calls]
    /\ aborted \in BOOLEAN

\* The coordinator counts exactly the turns inside a response step, whatever
\* way they leave it: a failed, retried or abandoned step that kept its slot,
\* or gave it back twice, would change how many streams run for good.
SlotsAreCounted == active = Cardinality({t \in Turns : pc[t] \in Holding})

\* No slot is lost on the way from one turn to the next: those in use are counted,
\* and nobody sleeps while another could be taken.
SlotsAreHandedOn == SlotsAreCounted /\ NoSleeperIsForgotten

\* A request holds an output for every function call it replays, and only
\* outputs that were submitted, whichever order calls and results came in.
RequestsAnswerTheirCalls ==
    \A t \in Turns : pc[t] \in Holding \cup {"acquiring"} =>
        outputs[t] = input[t] /\ pending[t] = {}

\* The turn reports the tokens of all its steps, of each one once, whether it
\* completes, is incomplete or is stopped by the context guard.
UsageCountsEveryStep ==
    \A t \in Turns : inbox[t].kind = "final" => usage[t] = step[t]

Over(t) == reader[t] = "none" \/ (pc[t] = "done" /\ reader[t] = "left")
Stalled == \E t \in Turns : pc[t] \in Holding /\ ~asked[t]

\* Every turn comes to an end, unless some turn stands still for ever at an
\* event with the slot in its hands: nothing else keeps a turn waiting, neither
\* a result that came early nor a cool-down, a retry or a lowered limit.
OnlyAStalledStreamHoldsTurns == (\A t \in Turns : <>[]Over(t)) \/ <>[]Stalled

\* An interruption ends every turn and frees every slot, also the one a turn
\* holds that stands still.
InterruptionFreesEverySlot == aborted ~> (active = 0 /\ \A t \in Turns : Over(t))

\* What ends a turn: its own end, unless a stalled stream holds it, and in any
\* case an interruption.
TurnsEnd == OnlyAStalledStreamHoldsTurns /\ InterruptionFreesEverySlot

\* A turn that waits for a slot gets it, or is told that it will not.  (A turn
\* that stands still with a slot breaks this when there is one slot.)
SlotWaitEnds == \A t \in Turns : (waiting[t] # "no") ~> (waiting[t] = "no")
=============================================================================
