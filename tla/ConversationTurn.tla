-------------------------- MODULE ConversationTurn --------------------------
(***************************************************************************)
(* One conversation session of the engine: AssistantConversationRuntime,   *)
(* the conversation turn it runs, the turn's provider stream, serial tool  *)
(* calls, pending tool approval and interruption, and the session          *)
(* compactor, all of them writing the one InMemoryConversationHistory.     *)
(*                                                                         *)
(* streamAssistantResponseEvents is an async generator, so between two     *)
(* atomic steps it is either suspended at a yield (the consumer may resume *)
(* it or call return() on it) or awaiting a promise.  `pc' names that      *)
(* point: y... for a yield, a... for an await.  Everything from one such   *)
(* point to the next is one action, because nothing else runs in between.  *)
(* Interrupt, Decide and the compaction entry points are calls from        *)
(* outside that land at any of these points.                               *)
(***************************************************************************)
EXTENDS Integers, Sequences, SequencesExt, HistoryProjection

CONSTANTS
    MaxTurns,        \* bound: turns started in a behaviour
    MaxCompactions,  \* bound: manual compactions started in a behaviour
    Calls,           \* tool call ids a provider may request
    NoCall,          \* no call; not a member of Calls
    Gate             \* how the policy treats each call, see GateKinds

GateKinds ==
    { "auto",         \* runs without asking
      "approval",     \* asks the user first
      "forbidden" }   \* denied by the agent's tool policy or read-only mode

ASSUME BoundsAssumption == MaxTurns \in Nat /\ MaxCompactions \in Nat
ASSUME CallsAssumption == NoCall \notin Calls
ASSUME GateAssumption == Gate \in [Calls -> GateKinds]

VARIABLES
    history,           \* the conversation session entries, oldest first
    compaction,        \* which compaction is collecting its summary
    selected,          \* entries there were when that compaction selected its source
    compactions,       \* manual compactions started
    turn,              \* number of the latest turn
    outcome,           \* how each turn ended for the consumer of its events
    pc,                \* where the current turn's generator stands
    interrupted,       \* lifecycle: hasInterruptedConversationTurn and its abort signal
    promptRecorded,    \* session recorder of the current attempt
    terminalRecorded,
    approval,          \* pendingToolApprovalController: the call in its slot
    decision,          \* what the approval promise resolved to
    granted,           \* history variable: calls the user approved and that have not run yet
    batch,             \* requested tool calls not finished yet, the head executing
    carry,             \* provider event read ahead while the batch was collected
    observed,          \* the attempt has shown text or emitted a counted event
    snapshot,          \* the entries before the attempt
    retried,           \* hasRetriedAfterContextWindowOverflow
    closing            \* kind of the terminal event about to be emitted

session    == <<history, promptRecorded, terminalRecorded>>
compactor  == <<compaction, selected, compactions>>
ledger     == <<turn, outcome>>
gatekeeper == <<approval, decision, granted>>
stream     == <<batch, carry>>
attempt    == <<snapshot, retried, observed>>
vars == <<session, compactor, ledger, gatekeeper, stream, attempt,
          pc, interrupted, closing>>

Turns == 1 .. MaxTurns
TerminalKinds == {"completed", "incomplete", "failed", "interrupted"}
EntryKinds == TerminalKinds \union
    {"user_prompt", "tool_call", "tool_result", "compaction_summary"}
Decisions == {"none", "approved", "denied", "interrupted"}
Errors == {"overflow", "other"}      \* isContextWindowOverflowError, or any other

Yields == {"yStarted", "yEvents", "yFlush", "yPendingPart", "yRequested",
           "yCleared", "yRunning", "yResult", "yFinal", "yClosing", "yTerminal"}
Awaits == {"aPrompt", "aProvider", "aBatch", "aDecision", "aTool", "aSubmit",
           "aRecovery"}
ProgramPoints == Yields \union Awaits \union {"none", "created"}

\* A session entry; turn 0 is a compaction summary's, which belongs to no turn.
Entries == [turn : Turns \union {0}, kind : EntryKinds, call : Calls \union {NoCall}]
Entry(t, k, c) == [turn |-> t, kind |-> k, call |-> c]
Recorded(k) == Entry(turn, k, NoCall)
CallEntry(k, c) == Entry(turn, k, c)
Summary == Entry(0, "compaction_summary", NoCall)

Init ==
    /\ history = <<>>
    /\ compaction = "idle"
    /\ selected = 0
    /\ compactions = 0
    /\ turn = 0
    /\ outcome = [t \in Turns |-> "none"]
    /\ pc = "none"
    /\ interrupted = FALSE
    /\ promptRecorded = FALSE
    /\ terminalRecorded = FALSE
    /\ approval = NoCall
    /\ decision = "none"
    /\ granted = {}
    /\ batch = <<>>
    /\ carry = "none"
    /\ observed = FALSE
    /\ snapshot = <<>>
    /\ retried = FALSE
    /\ closing = "none"

-----------------------------------------------------------------------------
(* Ways in which a synchronous stretch of the generator ends.              *)

\* What the finalizers emit: the events that flush open text, which there can
\* be only if the attempt showed something, and then the terminal event.
EmitTerminal(k) ==
    /\ closing' = k
    /\ pc' \in {"yTerminal"} \union (IF observed THEN {"yClosing"} ELSE {})
    /\ batch' = <<>>
    /\ carry' = "none"

\* finalizeInterruptedConversationTurn and finalizeFailedConversationTurn, for a
\* turn whose entries so far are h.
Close(h, k) ==
    LET opened == IF promptRecorded THEN h
                                    ELSE Append(h, Recorded("user_prompt"))
    IN /\ history' = IF terminalRecorded THEN opened
                                         ELSE Append(opened, Recorded(k))
       /\ promptRecorded' = TRUE
       /\ terminalRecorded' = TRUE
       /\ EmitTerminal(k)

\* finalizeProviderStreamEndedBeforeCompletion, which does not look at the
\* interruption flag.
EndBeforeCompletion ==
    /\ history' = IF promptRecorded /\ ~terminalRecorded
                  THEN Append(history, Recorded("failed")) ELSE history
    /\ terminalRecorded' = (promptRecorded \/ terminalRecorded)
    /\ EmitTerminal("failed")
    /\ UNCHANGED promptRecorded

CanRecover ==
    /\ ~retried
    /\ snapshot # <<>>
    /\ ~observed
    /\ ~terminalRecorded

\* Overflow recovery: the entries become h, a new session recorder (promptSeen)
\* takes over, and a compaction of the session starts inside the turn.
RecoverFrom(h, promptSeen) ==
    /\ history' = h
    /\ promptRecorded' = promptSeen
    /\ terminalRecorded' = FALSE
    /\ retried' = TRUE
    /\ batch' = <<>>
    /\ carry' = "none"
    /\ compaction' = "recovery"
    /\ selected' = Len(h)
    /\ pc' = "aRecovery"
    /\ UNCHANGED <<compactions, snapshot, observed, closing>>

\* Seeded faults: the recorder of the failed attempt stays in use; the history
\* is cleared.
RecoverKeepingRecorder == RecoverFrom(snapshot, promptRecorded)
RecoverFromNothing == RecoverFrom(<<>>, FALSE)

Recover == RecoverFrom(snapshot, FALSE)

\* An error reaches the catch blocks of streamAssistantResponseEvents.
Throw(e) ==
    IF e = "overflow" /\ CanRecover
    THEN Recover
    ELSE /\ Close(history, IF interrupted THEN "interrupted" ELSE "failed")
         /\ UNCHANGED <<compactor, attempt>>

\* The head of the retry loop, entered with entries h: the snapshot is taken and
\* startAcceptedRuntimeConversationTurn first looks at the interruption flag.
BeginAttempt(h) ==
    /\ snapshot' = h
    /\ observed' = FALSE
    /\ UNCHANGED retried
    /\ IF interrupted
       THEN Close(h, "interrupted")
       ELSE /\ history' = h
            /\ pc' = "aPrompt"
            /\ UNCHANGED <<promptRecorded, terminalRecorded, closing, stream>>

\* Where each kind of call first suspends.
FirstYield == [auto |-> "yRunning", approval |-> "yPendingPart", forbidden |-> "yResult"]

\* The next serial tool call is recorded, whatever the interruption flag says;
\* a forbidden one gets its denied result at once.
StartCall(b) ==
    LET c == Head(b)
        started == Append(history, CallEntry("tool_call", c))
    IN /\ batch' = b
       /\ history' = IF Gate[c] = "forbidden"
                     THEN Append(started, CallEntry("tool_result", c)) ELSE started
       /\ pc' = FirstYield[Gate[c]]
       /\ UNCHANGED <<promptRecorded, terminalRecorded, closing>>

\* Seeded fault: the loop over translations is left where it should go on.
AfterBatchReadingOn ==
    /\ pc' = "aProvider"
    /\ batch' = <<>>
    /\ carry' = "none"
    /\ UNCHANGED <<session, attempt, closing>>

\* The batch is done: the event that was read ahead is handled, if there is one.
AfterBatch ==
    \/ /\ carry = "none"
       /\ pc' = "aProvider"
       /\ batch' = <<>>
       /\ UNCHANGED <<session, attempt, carry, closing>>
    \/ /\ carry = "events"
       /\ pc' = "yEvents"
       /\ observed' = TRUE
       /\ batch' = <<>>
       /\ carry' = "none"
       /\ UNCHANGED <<session, snapshot, retried, closing>>
    \/ /\ carry \in {"completed", "incomplete"}
       /\ pc' = "yFinal"
       /\ closing' = carry
       /\ observed' = TRUE
       /\ batch' = <<>>
       /\ carry' = "none"
       /\ UNCHANGED <<session, snapshot, retried>>
    \/ /\ carry = "end"
       /\ EndBeforeCompletion
       /\ UNCHANGED attempt

\* finally: the approval slot is cleared and the runtime drops the turn, which
\* its consumer saw end as o.  Without a turn its fields have initial values.
Finish(o) ==
    /\ outcome' = [outcome EXCEPT ![turn] = o]
    /\ pc' = "none"
    /\ interrupted' = FALSE
    /\ promptRecorded' = FALSE
    /\ terminalRecorded' = FALSE
    /\ approval' = NoCall
    /\ decision' = "none"
    /\ granted' = {}
    /\ batch' = <<>>
    /\ carry' = "none"
    /\ observed' = FALSE
    /\ snapshot' = <<>>
    /\ retried' = FALSE
    /\ closing' = "none"
    /\ UNCHANGED <<history, compactor, turn>>

-----------------------------------------------------------------------------
(* Calls from outside: the user interface and the application.             *)

\* Seeded fault: a turn starts whatever the compactor is doing.
StartTurnDuringCompaction ==
    /\ pc = "none"
    /\ turn < MaxTurns
    /\ turn' = turn + 1
    /\ pc' = "created"
    /\ UNCHANGED <<session, compactor, outcome, gatekeeper, stream, attempt,
                   interrupted, closing>>

\* startConversationTurn; rejected while a turn or a compaction runs.
StartTurn ==
    /\ pc = "none"
    /\ compaction = "idle"
    /\ turn < MaxTurns
    /\ turn' = turn + 1
    /\ pc' = "created"
    /\ UNCHANGED <<session, compactor, outcome, gatekeeper, stream, attempt,
                   interrupted, closing>>

\* Seeded fault: the slot is emptied and its promise never settled.
InterruptForgettingDecision ==
    /\ pc # "none"
    /\ ~interrupted
    /\ interrupted' = TRUE
    /\ approval' = NoCall
    /\ UNCHANGED <<session, compactor, ledger, decision, granted, stream,
                   attempt, pc, closing>>

\* RuntimeConversationTurnLifecycle.interrupt
Interrupt ==
    /\ pc # "none"
    /\ ~interrupted
    /\ interrupted' = TRUE
    /\ decision' = IF approval # NoCall THEN "interrupted" ELSE decision
    /\ approval' = NoCall
    /\ UNCHANGED <<session, compactor, ledger, granted, stream, attempt, pc, closing>>

\* Seeded fault: the id of the answered request is not compared with the slot.
DecideWithoutIdCheck(c, d) ==
    /\ approval # NoCall
    /\ approval' = NoCall
    /\ decision' = d
    /\ granted' = IF d = "approved" THEN granted \union {c} ELSE granted
    /\ UNCHANGED <<session, compactor, ledger, stream, attempt, pc, interrupted, closing>>

\* approvePendingToolCall and denyPendingToolCall, answering the request for c.
Decide(c, d) ==
    /\ approval = c
    /\ approval' = NoCall
    /\ decision' = d
    /\ granted' = IF d = "approved" THEN granted \union {c} ELSE granted
    /\ UNCHANGED <<session, compactor, ledger, stream, attempt, pc, interrupted, closing>>

\* The consumer leaves its loop: return() at a yield runs only the finally blocks.
Abandon ==
    /\ pc \in Yields \ {"yTerminal"}
    /\ Finish("abandoned")

\* Seeded fault: the running turn is not looked at.
CompactStartDuringTurn ==
    /\ compactions < MaxCompactions
    /\ history # <<>>
    /\ compaction = "idle"
    /\ compaction' = "manual"
    /\ selected' = Len(history)
    /\ compactions' = compactions + 1
    /\ UNCHANGED <<session, ledger, gatekeeper, stream, attempt, pc, interrupted, closing>>

\* compactConversationSession, started by the user or by the auto-compaction
\* policy; rejected while a turn or a compaction runs or without entries.
CompactStart ==
    /\ compactions < MaxCompactions
    /\ history # <<>>
    /\ pc = "none"
    /\ compaction = "idle"
    /\ compaction' = "manual"
    /\ selected' = Len(history)
    /\ compactions' = compactions + 1
    /\ UNCHANGED <<session, ledger, gatekeeper, stream, attempt, pc, interrupted, closing>>

CompactDone ==
    /\ compaction = "manual"
    /\ history' = Append(history, Summary)
    /\ compaction' = "idle"
    /\ UNCHANGED <<promptRecorded, terminalRecorded, selected, compactions, ledger,
                   gatekeeper, stream, attempt, pc, interrupted, closing>>

CompactFails ==
    /\ compaction = "manual"
    /\ compaction' = "idle"
    /\ UNCHANGED <<session, selected, compactions, ledger, gatekeeper, stream,
                   attempt, pc, interrupted, closing>>

-----------------------------------------------------------------------------
(* The generator, from where it stands to its next yield or await.         *)

\* The consumer starts to iterate: assistant_turn_started is yielded.
StreamStart ==
    /\ pc = "created"
    /\ pc' = "yStarted"
    /\ UNCHANGED <<session, compactor, ledger, gatekeeper, stream, attempt,
                   interrupted, closing>>

ResumeStarted ==
    /\ pc = "yStarted"
    /\ BeginAttempt(history)
    /\ UNCHANGED <<compactor, ledger, gatekeeper, interrupted>>

\* The prompt context is loaded: the prompt is recorded, the provider started.
PromptReady ==
    /\ pc = "aPrompt"
    /\ IF interrupted
       THEN Throw("other")
       ELSE /\ history' = Append(history, Recorded("user_prompt"))
            /\ promptRecorded' = TRUE
            /\ pc' = "aProvider"
            /\ UNCHANGED <<terminalRecorded, closing, stream, attempt, compactor>>
    /\ UNCHANGED <<ledger, gatekeeper, interrupted>>

PromptFails ==
    /\ pc = "aPrompt"
    /\ Throw("other")
    /\ UNCHANGED <<ledger, gatekeeper, interrupted>>

\* An event read from the provider stream is translated only after a look at the
\* interruption flag; the next three actions are the translations.
ReceiveAfterInterrupt ==
    /\ pc \in {"aProvider", "aBatch"}
    /\ interrupted
    /\ Throw("other")
    /\ UNCHANGED <<ledger, gatekeeper, interrupted>>

ReceiveEvents ==
    /\ pc = "aProvider"
    /\ ~interrupted
    /\ observed' = TRUE
    /\ pc' = "yEvents"
    /\ UNCHANGED <<session, compactor, ledger, gatekeeper, stream, snapshot, retried,
                   interrupted, closing>>

ReceiveTerminal(k) ==
    /\ pc = "aProvider"
    /\ ~interrupted
    /\ observed' = TRUE
    /\ closing' = k
    /\ pc' = "yFinal"
    /\ UNCHANGED <<session, compactor, ledger, gatekeeper, stream, snapshot, retried,
                   interrupted>>

\* Call ids are unique among the entries.
Fresh(c) == /\ \A i \in DOMAIN history : history[i].call # c
            /\ \A i \in DOMAIN batch : batch[i] # c

\* A tool call opens a batch, or joins the one being collected.
ReceiveCall(c) ==
    /\ pc \in {"aProvider", "aBatch"}
    /\ ~interrupted
    /\ Fresh(c)
    /\ batch' = Append(batch, c)
    /\ pc' = "aBatch"
    /\ UNCHANGED <<session, compactor, ledger, gatekeeper, carry, attempt,
                   interrupted, closing>>

ProviderEnds ==
    /\ pc = "aProvider"
    /\ EndBeforeCompletion
    /\ UNCHANGED <<compactor, ledger, gatekeeper, attempt, interrupted>>

ProviderThrows(e) ==
    /\ pc \in {"aProvider", "aBatch"}
    /\ Throw(e)
    /\ UNCHANGED <<ledger, gatekeeper, interrupted>>

\* The batch is executed: first the events that complete open text, if any.
ExecuteBatch ==
    \/ /\ StartCall(batch)
       /\ UNCHANGED <<snapshot, retried>>
    \/ /\ observed
       /\ pc' = "yFlush"
       /\ UNCHANGED <<session, batch, snapshot, retried, closing>>

\* The zero-millisecond window for adjacent tool calls passes.
WindowElapsed ==
    /\ pc = "aBatch"
    /\ ExecuteBatch
    /\ UNCHANGED <<compactor, ledger, gatekeeper, carry, observed, interrupted>>

\* Within the window an event that is no tool call arrives, and is kept until
\* the batch is done.  Text counts as the attempt's from here on.
ReadAhead(k) ==
    /\ pc = "aBatch"
    /\ k # "end" => ~interrupted
    /\ carry' = k
    /\ observed' \in {observed} \union (IF k = "events" THEN {TRUE} ELSE {})
    /\ ExecuteBatch
    /\ UNCHANGED <<compactor, ledger, gatekeeper, interrupted>>

ResumeFlush ==
    /\ pc = "yFlush"
    /\ StartCall(batch)
    /\ UNCHANGED <<compactor, ledger, gatekeeper, carry, attempt, interrupted>>

ResumeEvents ==
    /\ pc = "yEvents"
    /\ pc' = "aProvider"
    /\ UNCHANGED <<session, compactor, ledger, gatekeeper, stream, attempt,
                   interrupted, closing>>

\* createPendingToolApproval fills the slot, whatever the interruption flag says.
ResumePendingPart ==
    /\ pc = "yPendingPart"
    /\ approval' = Head(batch)
    /\ decision' = "none"
    /\ pc' = "yRequested"
    /\ UNCHANGED <<session, compactor, ledger, granted, stream, attempt,
                   interrupted, closing>>

ResumeRequested ==
    /\ pc = "yRequested"
    /\ pc' = "aDecision"
    /\ UNCHANGED <<session, compactor, ledger, gatekeeper, stream, attempt,
                   interrupted, closing>>

DecisionArrives ==
    /\ pc = "aDecision"
    /\ decision # "none"
    /\ pc' = "yCleared"
    /\ UNCHANGED <<session, compactor, ledger, gatekeeper, stream, attempt,
                   interrupted, closing>>

\* After the wait: an interruption is thrown, a denied call gets its result
\* (entries h) without running, an approved call is announced as running.
ActOnDecision(h) ==
    /\ pc = "yCleared"
    /\ \/ /\ decision = "interrupted"
          /\ Throw("other")
       \/ /\ decision = "denied"
          /\ history' = h
          /\ pc' = "yResult"
          /\ UNCHANGED <<promptRecorded, terminalRecorded, stream, closing, attempt, compactor>>
       \/ /\ decision = "approved"
          /\ pc' = "yRunning"
          /\ UNCHANGED <<session, stream, closing, attempt, compactor>>
    /\ UNCHANGED <<ledger, gatekeeper, interrupted>>

\* Seeded fault: the denial is submitted to the provider and not recorded.
ResumeClearedForgettingDenial == ActOnDecision(history)

ResumeCleared == ActOnDecision(Append(history, CallEntry("tool_result", Head(batch))))

\* The tool starts, unless the turn was interrupted while the part was shown.
ResumeRunning ==
    /\ pc = "yRunning"
    /\ IF interrupted
       THEN Throw("other")
       ELSE /\ pc' = "aTool"
            /\ UNCHANGED <<session, stream, closing, attempt, compactor>>
    /\ UNCHANGED <<ledger, gatekeeper, interrupted>>

\* The tool returns, completed or failed: its result is recorded.
ToolReturns ==
    /\ pc = "aTool"
    /\ IF interrupted
       THEN Throw("other")
       ELSE /\ history' = Append(history, CallEntry("tool_result", Head(batch)))
            /\ pc' = "yResult"
            /\ UNCHANGED <<promptRecorded, terminalRecorded, stream, closing, attempt, compactor>>
    /\ granted' = granted \ {Head(batch)}
    /\ UNCHANGED <<ledger, approval, decision, interrupted>>

ToolThrows ==
    /\ pc = "aTool"
    /\ Throw("other")
    /\ UNCHANGED <<ledger, gatekeeper, interrupted>>

ResumeResult ==
    /\ pc = "yResult"
    /\ pc' = "aSubmit"
    /\ UNCHANGED <<session, compactor, ledger, gatekeeper, stream, attempt,
                   interrupted, closing>>

\* submitToolResult resolves: the next call of the batch, or what follows it.
SubmitDone ==
    /\ pc = "aSubmit"
    /\ IF Tail(batch) # <<>>
       THEN StartCall(Tail(batch)) /\ UNCHANGED <<carry, attempt>>
       ELSE AfterBatch
    /\ UNCHANGED <<compactor, ledger, gatekeeper, interrupted>>

SubmitFails ==
    /\ pc = "aSubmit"
    /\ Throw("other")
    /\ UNCHANGED <<ledger, gatekeeper, interrupted>>

\* The compaction of the recovery ends; on success the attempt is repeated.
RecoveryDone ==
    /\ pc = "aRecovery"
    /\ compaction' = "idle"
    /\ BeginAttempt(Append(history, Summary))
    /\ UNCHANGED <<selected, compactions, ledger, gatekeeper, interrupted>>

RecoveryFails ==
    /\ pc = "aRecovery"
    /\ compaction' = "idle"
    /\ Close(history, IF interrupted THEN "interrupted" ELSE "failed")
    /\ UNCHANGED <<selected, compactions, attempt, ledger, gatekeeper, interrupted>>

\* The terminal entry of a finished stream, then its terminal event.
ResumeFinal ==
    /\ pc = "yFinal"
    /\ history' = IF terminalRecorded THEN history
                  ELSE Append(history, Recorded(closing))
    /\ terminalRecorded' = TRUE
    /\ pc' = "yTerminal"
    /\ UNCHANGED <<promptRecorded, compactor, ledger, gatekeeper, stream, attempt,
                   interrupted, closing>>

ResumeClosing ==
    /\ pc = "yClosing"
    /\ pc' = "yTerminal"
    /\ UNCHANGED <<session, compactor, ledger, gatekeeper, stream, attempt,
                   interrupted, closing>>

ResumeTerminal ==
    /\ pc = "yTerminal"
    /\ Finish(closing)

-----------------------------------------------------------------------------
ProviderStops ==
    \/ \E k \in {"completed", "incomplete"} : ReceiveTerminal(k)
    \/ ProviderEnds
    \/ \E e \in Errors : ProviderThrows(e)

\* The steps of the turn that need no user: engine, provider, tool and consumer.
TurnStep ==
    \/ StreamStart \/ ResumeStarted \/ PromptReady \/ PromptFails
    \/ ReceiveAfterInterrupt \/ ReceiveEvents \/ ProviderStops
    \/ \E c \in Calls : ReceiveCall(c)
    \/ WindowElapsed
    \/ \E k \in {"events", "completed", "incomplete", "end"} : ReadAhead(k)
    \/ ResumeFlush \/ ResumeEvents \/ ResumePendingPart \/ ResumeRequested
    \/ DecisionArrives \/ ResumeCleared \/ ResumeRunning \/ ToolReturns \/ ToolThrows
    \/ ResumeResult \/ SubmitDone \/ SubmitFails \/ RecoveryDone \/ RecoveryFails
    \/ ResumeFinal \/ ResumeClosing \/ ResumeTerminal

UserDecides == \E c \in Calls, d \in {"approved", "denied"} : Decide(c, d)

CompactorStep == CompactDone \/ CompactFails

\* Nobody is obliged to start another turn.
Rest == pc = "none" /\ compaction = "idle" /\ UNCHANGED vars

Next ==
    \/ TurnStep
    \/ StartTurn \/ Interrupt \/ UserDecides \/ Abandon
    \/ CompactStart \/ CompactorStep
    \/ Rest

(***************************************************************************)
(* Fairness: promises the engine awaits settle and its consumer keeps       *)
(* iterating; a provider stream that keeps producing events stops some day.*)
(* Nothing makes the user answer, interrupt, start or compact, or makes the*)
(* consumer leave.                                                         *)
(***************************************************************************)
Fairness ==
    /\ WF_vars(TurnStep)
    /\ WF_vars(CompactorStep)
    /\ SF_vars(ProviderStops)

Spec == Init /\ [][Next]_vars
FairSpec == Spec /\ Fairness

-----------------------------------------------------------------------------
TypeOK ==
    /\ history \in Seq(Entries)
    /\ compaction \in {"idle", "manual", "recovery"}
    /\ selected \in Nat
    /\ compactions \in 0 .. MaxCompactions
    /\ turn \in 0 .. MaxTurns
    /\ outcome \in [Turns -> TerminalKinds \union {"none", "abandoned"}]
    /\ pc \in ProgramPoints
    /\ interrupted \in BOOLEAN
    /\ promptRecorded \in BOOLEAN
    /\ terminalRecorded \in BOOLEAN
    /\ approval \in Calls \union {NoCall}
    /\ decision \in Decisions
    /\ granted \in SUBSET Calls
    /\ batch \in Seq(Calls)
    /\ carry \in {"none", "events", "completed", "incomplete", "end"}
    /\ observed \in BOOLEAN
    /\ snapshot \in Seq(Entries)
    /\ retried \in BOOLEAN
    /\ closing \in TerminalKinds \union {"none"}

-----------------------------------------------------------------------------
(* Safety properties.                                                      *)

Closed(t) == outcome[t] \in TerminalKinds
Positions(t) == {i \in DOMAIN history : history[i].turn = t}

\* A turn that ended for its consumer with a terminal event is in the history as
\* a prompt, then its other entries, then exactly one terminal entry, of the kind
\* the consumer was told; whichever of completion, provider error, early end of
\* the stream, interruption and overflow retry met on the way.
ClosedTurnsAreRecorded ==
    \A t \in Turns : Closed(t) =>
        \E first, last \in Positions(t) :
            /\ history[first] = Entry(t, "user_prompt", NoCall)
            /\ history[last] = Entry(t, outcome[t], NoCall)
            /\ \A i \in Positions(t) \ {first, last} :
                  /\ first < i /\ i < last
                  /\ history[i].kind \in {"tool_call", "tool_result"}

\* At every moment the history reads as turns one after the other: entries of
\* different turns do not interleave, a turn's prompt comes before its other
\* entries, a tool result after its tool call, and nothing is recorded twice.
HistoryReadsAsTurns ==
    \A j \in DOMAIN history : history[j].turn # 0 =>
        LET before == {history[i] : i \in 1 .. j - 1}
        IN /\ history[j] \notin before
           /\ \A e \in before : e.turn <= history[j].turn
           /\ history[j].kind # "user_prompt" =>
                 Entry(history[j].turn, "user_prompt", NoCall) \in before
           /\ history[j].kind = "tool_result" =>
                 [history[j] EXCEPT !.kind = "tool_call"] \in before

\* Whatever completions, errors, interruptions and retries meet: the history is
\* in order at every moment, and tells of a closed turn what its consumer was told.
HistoryIsInOrder == HistoryReadsAsTurns /\ ClosedTurnsAreRecorded

\* A turn recorded as completed or incomplete has a result for each of its tool
\* calls: the model is never shown a finished turn with an unanswered call.
FinishedTurnsAnswerTheirCalls ==
    \A t \in Turns, i \in DOMAIN history :
        /\ outcome[t] \in {"completed", "incomplete"}
        /\ history[i].turn = t
        /\ history[i].kind = "tool_call"
        => \E j \in Positions(t) : history[j] = [history[i] EXCEPT !.kind = "tool_result"]

\* s consists of the elements of h at the given positions, in their order.
Lists(s, h, positions) ==
    /\ \A i \in 1 .. Len(s) : \E a \in positions : s[i] = h[a]
    /\ \A a \in positions : \E i \in 1 .. Len(s) : s[i] = h[a]
    /\ \A i, j \in 1 .. Len(s) : i < j =>
          \E a, b \in positions : a < b /\ s[i] = h[a] /\ s[j] = h[b]

HasEntry(h, t, kinds) == \E i \in 1 .. Len(h) : h[i].turn = t /\ h[i].kind \in kinds

\* What a request shows of the entries h when turn t is about to be answered: the
\* latest summary and, since then, each finished turn as prompt and answer, each
\* failed or interrupted turn as prompt and answered calls (not at all when none
\* was answered), nothing of a turn that was left open, and the prompt to answer.
Tells(h, t, e) ==
    LET Answered == HasEntry(h, e.turn, {"completed", "incomplete"})
        StoppedAfterTools == /\ HasEntry(h, e.turn, {"failed", "interrupted"})
                             /\ HasEntry(h, e.turn, {"tool_result"})
    IN \/ e.kind = "compaction_summary"
       \/ e.kind = "user_prompt" /\ (e.turn = t \/ Answered \/ StoppedAfterTools)
       \/ e.kind \in TerminalKinds /\ Answered
       \/ /\ e.kind \in {"tool_call", "tool_result"}
          /\ StoppedAfterTools
          /\ \E i \in 1 .. Len(h) : h[i] = Entry(e.turn, "tool_result", e.call)

SinceSummary(h) == {i \in 1 .. Len(h) : \A j \in i + 1 .. Len(h) : h[j].kind # "compaction_summary"}

\* The request a turn opens with tells the conversation since the latest summary,
\* in order and (as no two of these entries are equal) each thing once, whatever
\* recoveries, abandoned turns and interruptions the history has behind it.
RequestsTellTheStory ==
    pc = "aProvider" /\ Last(history) = Recorded("user_prompt")
    => Lists(ModelContextItems(history), history,
             {i \in SinceSummary(history) : Tells(history, turn, history[i])})

\* A call that needs approval is announced as running, and runs, only while the
\* user's own approval of this very call stands; an approval serves one run, and
\* an answer to another request, a denial or an interruption never counts as one.
ApprovalGate ==
    pc \in {"yRunning", "aTool"} /\ Gate[Head(batch)] = "approval"
        => Head(batch) \in granted

\* While a compaction waits for its summary the history stays what it was when
\* the source entries were selected, so the count recorded with the summary is
\* right; a manual one runs without a turn, a recovery inside its turn.
CompactionSeesWholeHistory ==
    compaction # "idle" =>
        /\ Len(history) = selected
        /\ pc = (IF compaction = "manual" THEN "none" ELSE "aRecovery")

\* No step loses an entry, but for the start of an overflow recovery: it drops
\* entries of the running turn only, and only if nothing of the attempt was shown.
HistoryStep ==
    \/ IsPrefix(history, history')
    \/ /\ pc' = "aRecovery"
       /\ ~observed
       /\ IsPrefix(history', history)
       /\ \A i \in Len(history') + 1 .. Len(history) : history[i].turn = turn

OnlyRecoveryDropsEntries == [][HistoryStep]_history

\* Where the engine is while it executes a batch, up to the last submission.
ExecutionPoints == {"yFlush", "yPendingPart", "yRequested", "aDecision", "yCleared",
                    "yRunning", "aTool", "yResult", "aSubmit"}

\* The attempt is given up: an overflow is recovered from, the turn closes as
\* failed or interrupted, or its consumer leaves.
AttemptEnds ==
    \/ pc' \in {"aRecovery", "none"}
    \/ pc' \in {"yClosing", "yTerminal"} /\ closing' \in {"failed", "interrupted"}

\* What was read ahead of a batch is kept over every yield and await of it, and
\* the provider is not read meanwhile; it is handled after the last submission,
\* as the event it is, or goes with the attempt.  It is neither lost nor handled
\* twice nor before a result it came after.
ReadAheadStep ==
    /\ carry' # "none" => carry \in {"none", carry'} /\ pc' \in ExecutionPoints
    /\ carry # "none" /\ carry' = "none" =>
          \/ AttemptEnds
          \/ /\ pc = "aSubmit" /\ Tail(batch) = <<>>
             /\ \/ carry = "events" /\ pc' = "yEvents"
                \/ carry \in {"completed", "incomplete"} /\ pc' = "yFinal" /\ closing' = carry

\* Reading ahead of a batch loses nothing, repeats nothing and changes no order.
ReadAheadIsHandled == [][ReadAheadStep]_vars

(***************************************************************************)
(* The turn implements the abstract session.                               *)
(***************************************************************************)
RecordedKinds(t) == {history[i].kind : i \in Positions(t)}

LogOf(t) ==
    LET closed == RecordedKinds(t) \intersect TerminalKinds
    IN IF closed # {} THEN CHOOSE k \in closed : TRUE
       ELSE IF "user_prompt" \in RecordedKinds(t) THEN "open" ELSE "absent"

Abstract == INSTANCE ConversationSession WITH
    latest <- turn,
    running <- pc # "none",
    compacting <- compaction # "idle",
    log <- [t \in Turns |-> LogOf(t)],
    heard <- outcome

\* Every step of the engine is one the abstract session allows: turns and
\* compactions exclude each other, a closed turn stays closed with its kind, only
\* a recovery takes a turn back, and the consumer hears what was recorded.
ImplementsConversationSession == Abstract!SessionSpec

-----------------------------------------------------------------------------
(* Liveness properties.                                                    *)

\* Without any help from the user a running turn ends or comes to wait for an
\* approval that the user can still give: the only thing a turn waits for for
\* ever is an answer to the request in the slot.
OnlyAnApprovalHoldsATurn ==
    pc # "none" ~> (pc = "none" \/ (pc = "aDecision" /\ approval # NoCall))

=============================================================================
