-------------------------------- MODULE ChatApp --------------------------------
(***************************************************************************)
(* The chat application (packages/chat-app-controller) between the user's  *)
(* keys and the engine: one loop runs the response to a prompt, compacts   *)
(* the session after it when the context is nearly full, follows a         *)
(* compaction with a turn of its own, and takes the next queued prompt.    *)
(*                                                                         *)
(* Everything runs on one thread, so a step is what happens between two    *)
(* waits.  The waits that last are those for the engine: a turn, and a     *)
(* compaction, which both ask a model.  The session store answers within   *)
(* the same task (interactiveChatConversationSessionBindings.ts), so       *)
(* switching, deleting and clearing a session and loading a page of its    *)
(* transcript are each one step.  The keys act on the chat session state   *)
(* through a reference that is always current, except the status of        *)
(* compactions, which they read as React last rendered it.                 *)
(*                                                                         *)
(* Left out: tool approvals, the text of drafts, the model and skill       *)
(* pickers, and the contents of the transcript.                            *)
(***************************************************************************)
EXTENDS Integers, SequencesExt

CONSTANTS
    Sessions,   \* the conversation sessions of the store
    MaxDepth,   \* MAX_AUTO_COMPACTION_CONTINUATION_DEPTH
    MaxPrompts  \* bound: prompts the user types

ASSUME ChatAppAssumption ==
    /\ Cardinality(Sessions) >= 2
    /\ MaxDepth \in Nat \ {0} /\ MaxPrompts \in Nat

Skill == 0      \* the prompt of a skill command; typed prompts count from 1

VARIABLES
    mounted,            \* isChatAppControllerMountedRef
    status,             \* conversationTurnStatus
    inFlight,           \* isPromptSubmissionInFlightRef
    compacting,         \* isConversationCompactionInFlightRef, and who compacts
    compactionStatus,   \* conversationSessionCompactionStatus; "none" for idle and failed
    shownStatus,        \* the same as the keys see it: as of the last rendering
    queue,              \* queuedChatAppPromptsRef
    loop,               \* streamAssistantResponseForSubmittedPrompt and its turn
    activeTurn,         \* whether latestActiveConversationTurnRef holds a turn
    armed,              \* isActiveTurnInterruptConfirmationArmed
    requested,          \* hasActiveTurnInterruptBeenRequestedRef
    picker,             \* whether the session selection is shown
    session,            \* latestActiveConversationSessionIdRef
    usage,              \* whether latestContextWindowUsage is known
    \* what the properties remember
    typed,              \* prompts typed so far
    started,            \* typed prompts in the order they were given to the engine
    pressed,            \* whether Escape was pressed during the current turn
    mishaps             \* "barged", "stale": see RunSkill, Enqueue

keys == <<armed, requested, pressed>>
turns == <<loop, activeTurn, started>>
sessions == <<picker, session, usage>>
vars == <<mounted, status, inFlight, compacting, compactionStatus, shownStatus,
          queue, turns, keys, sessions, typed, mishaps>>

Sources == {"user", "retry", "continue"}
Endings == {"none", "completed", "truncated", "overflow", "failed", "interrupted"}

\* source and depth: the prompt of the turn under
\* way; automatic and overflowed: how many of its turns nobody typed, and whether
\* one of them overflowed the context window
Idle == [at |-> "idle", source |-> "user", depth |-> 0, automatic |-> 0,
         overflowed |-> FALSE, interrupted |-> FALSE, ending |-> "none"]

Init ==
    /\ mounted = TRUE /\ status = "waiting" /\ inFlight = FALSE
    /\ compacting = "no" /\ compactionStatus = "none" /\ shownStatus = "none"
    /\ queue = <<>> /\ loop = Idle
    /\ activeTurn = FALSE /\ armed = FALSE /\ requested = FALSE
    /\ picker = FALSE /\ session \in Sessions /\ usage = FALSE
    /\ typed = 0 /\ started = <<>> /\ pressed = FALSE /\ mishaps = {}

-----------------------------------------------------------------------------
(* Giving prompts to the engine *)

TurnRuns == loop.at \in {"turn", "closing"}

\* startConversationTurn throws while a turn or a compaction runs
EngineIsBusy == TurnRuns \/ compacting # "no"

Typed(p) == IF p = Skill THEN <<>> ELSE <<p>>

\* the engine accepts the prompt, and its first event follows at once
StartTurn(p) ==
    /\ loop' = [Idle EXCEPT !.at = "turn"]
    /\ started' = started \o Typed(p)
    /\ status' = "streaming"
    /\ activeTurn' = TRUE /\ requested' = FALSE /\ pressed' = FALSE

\* a turn nobody typed, for the prompt the loop is at
StartAutomaticTurn(source, depth) ==
    /\ loop' = [loop EXCEPT !.at = "turn", !.source = source, !.depth = depth,
                            !.interrupted = FALSE, !.ending = "none",
                            !.automatic = IF @ > MaxDepth THEN @ ELSE @ + 1]
    /\ status' = "streaming"
    /\ activeTurn' = TRUE /\ requested' = FALSE /\ pressed' = FALSE
    /\ UNCHANGED <<queue, started, inFlight>>

\* clearActiveTurnInterruptConfirmation
StayArmed == UNCHANGED armed
Disarm == armed' = FALSE

\* onConversationTurnFinished, whichever loop's turn it is
FinishTurn == activeTurn' = FALSE /\ Disarm /\ requested' = FALSE

\* A second loop whose turn the engine refuses.  The relay makes a failed response
\* of it, the engine refuses to compact as well, and the loop goes on to the
\* queued prompts, which meet the same refusal; at its end nothing is in flight.
RefuseTurn(p) ==
    /\ started' = started \o Typed(p) \o queue
    /\ queue' = <<>>
    /\ status' = "waiting" /\ inFlight' = FALSE
    /\ FinishTurn
    /\ compactionStatus' = IF compacting = "no" /\ usage THEN "none" ELSE compactionStatus
    /\ UNCHANGED <<loop, pressed>>

\* a key that starts a loop of its own
BeginLoop(p) ==
    \/ /\ ~EngineIsBusy
       /\ StartTurn(p)
       /\ inFlight' = TRUE
       /\ UNCHANGED <<queue, armed, compactionStatus>>
    \/ EngineIsBusy /\ RefuseTurn(p)

-----------------------------------------------------------------------------
(* Keys in the prompt draft *)

CanType == mounted /\ ~picker
CanEdit == CanType /\ shownStatus # "manual"
MayQueue == status = "streaming" \/ shownStatus = "auto"

TypePrompt == CanEdit /\ typed < MaxPrompts /\ typed' = typed + 1

\* Return with a draft while nothing holds it up
Submit ==
    /\ TypePrompt
    /\ ~MayQueue /\ ~inFlight
    /\ BeginLoop(typed')
    /\ UNCHANGED <<mounted, compacting, shownStatus, sessions, mishaps>>

\* Return with a draft during a response or a compaction after one.  If the loop
\* is gone and only the rendering is late, nobody is left to take the prompt.
Enqueue ==
    /\ TypePrompt
    /\ MayQueue
    /\ queue' = Append(queue, typed')
    /\ mishaps' = mishaps \cup (IF loop.at = "idle" THEN {"stale"} ELSE {})
    /\ UNCHANGED <<mounted, status, inFlight, compacting, compactionStatus, shownStatus, turns, keys, sessions>>

\* Slash commands are offered whenever the status is waiting
CanCommand == CanEdit /\ status = "waiting"

\* A skill command starts a loop without looking whether one is in flight.
RunSkill ==
    /\ CanCommand
    /\ BeginLoop(Skill)
    /\ mishaps' = mishaps \cup (IF EngineIsBusy THEN {"barged"} ELSE {})
    /\ UNCHANGED <<mounted, compacting, shownStatus, sessions, typed>>

\* Escape: the first one asks for a confirmation, the second one interrupts.
PressEscape ==
    /\ CanType /\ status = "streaming"
    /\ activeTurn /\ ~requested
    /\ pressed' = TRUE
    /\ armed' = ~armed
    /\ requested' = armed
    /\ loop' = [loop EXCEPT !.interrupted = @ \/ armed]
    /\ UNCHANGED <<mounted, status, inFlight, compacting, compactionStatus, shownStatus, queue,
                   activeTurn, started, sessions, typed, mishaps>>

ConfirmationExpires ==
    /\ armed /\ Disarm
    /\ UNCHANGED <<mounted, status, inFlight, compacting, compactionStatus, shownStatus, queue,
                   turns, requested, pressed, sessions, typed, mishaps>>

-----------------------------------------------------------------------------
(* The loop *)

\* a terminal event; the turn itself still has to settle
TurnAnswers(ending) ==
    /\ loop.at = "turn"
    /\ ending = "interrupted" => loop.interrupted
    /\ loop' = [loop EXCEPT !.at = "closing", !.ending = ending,
                            !.overflowed = @ \/ ending = "overflow"]
    /\ status' = "waiting"
    /\ usage' = (usage \/ ending \in {"completed", "truncated"})
    /\ UNCHANGED <<mounted, inFlight, compacting, compactionStatus, shownStatus, queue, activeTurn,
                   started, keys, picker, session, typed, mishaps>>

EndLoop == loop' = Idle /\ inFlight' = FALSE

TakeLatestPrompt ==
    \/ /\ queue # <<>>
       /\ StartTurn(Last(queue))
       /\ queue' = Front(queue)
       /\ UNCHANGED inFlight
    \/ /\ queue = <<>>
       /\ EndLoop
       /\ UNCHANGED <<queue, started, status, activeTurn, requested, pressed>>

\* the next queued prompt, or the end of the loop
TakeNextPrompt ==
    \/ /\ queue # <<>>
       /\ StartTurn(Head(queue))
       /\ queue' = Tail(queue)
       /\ UNCHANGED <<inFlight>>
    \/ /\ queue = <<>>
       /\ EndLoop
       /\ UNCHANGED <<queue, started, status, activeTurn, requested, pressed>>

\* an unmounted application goes no further
LeaveLoop ==
    /\ EndLoop
    /\ UNCHANGED <<queue, started, status, activeTurn, requested, pressed>>

NextPrompt == IF mounted THEN TakeNextPrompt ELSE LeaveLoop

\* what the decision depends on: the last usage known, or the overflow itself
MayCompact == loop.ending = "overflow" \/ usage

\* The turn has settled, and the session is to be compacted.
TurnEndsForCompaction ==
    /\ loop.at = "closing"
    /\ mounted /\ compacting = "no" /\ MayCompact
    /\ FinishTurn
    /\ loop' = [loop EXCEPT !.at = "compacting"]
    /\ compacting' = "auto" /\ compactionStatus' = "auto"
    /\ UNCHANGED <<mounted, status, inFlight, shownStatus, queue, started, pressed,
                   sessions, typed, mishaps>>

\* The turn has settled, and there is nothing to compact; the decision of the
\* engine, if it was asked, puts the status back to idle.  Reloading the
\* transcript closes the selection.  The relay has resolved: a delivery of events
\* that throws, which ends the loop at once, is left to TranscriptRelay.
TurnEnds ==
    /\ loop.at = "closing"
    /\ Disarm
    /\ IF mounted /\ queue # <<>>
       THEN TakeNextPrompt
       ELSE /\ EndLoop /\ FinishTurn
            /\ UNCHANGED <<queue, started, status, pressed>>
    /\ compactionStatus' = IF mounted /\ compacting = "no" /\ MayCompact THEN "none" ELSE compactionStatus
    /\ picker' = (picker /\ ~mounted)
    /\ UNCHANGED <<mounted, compacting, shownStatus, session, usage, typed, mishaps>>

Retries == loop.ending = "overflow" /\ loop.source # "retry"

ContinuesOnceMore ==
    \/ loop.ending = "truncated" /\ loop.source # "continue"
    \/ loop.ending \notin {"overflow", "truncated"} /\ loop.source # "retry" /\ loop.depth <= MaxDepth

Continues ==
    \/ loop.ending = "truncated" /\ loop.source # "continue"
    \/ loop.ending \notin {"overflow", "truncated"} /\ loop.source # "retry" /\ loop.depth + 1 <= MaxDepth

\* resolveAutoCompactionFollowUpPromptAfterAssistantTurn
FollowUp ==
    \/ Retries /\ StartAutomaticTurn("retry", 0)
    \/ Continues /\ StartAutomaticTurn("continue", loop.depth + 1)

FollowsUpAnyway == Retries \/ Continues
FollowsUp == mounted /\ (Retries \/ Continues)

AutoCompactionSucceeds ==
    /\ loop.at = "compacting"
    /\ IF FollowsUp
       THEN FollowUp
       ELSE NextPrompt
    /\ compacting' = "no" /\ compactionStatus' = "none"
    /\ picker' = FALSE
    /\ UNCHANGED <<mounted, shownStatus, armed, session, usage, typed, mishaps>>

AutoCompactionFails ==
    /\ loop.at = "compacting"
    /\ NextPrompt
    /\ compacting' = "no" /\ compactionStatus' = "none"
    /\ picker' = (picker /\ ~mounted)
    /\ UNCHANGED <<mounted, shownStatus, armed, session, usage, typed, mishaps>>

-----------------------------------------------------------------------------
(* Sessions *)

MutationIsBlockedByCompaction == compacting # "no"

\* isActiveConversationSessionMutationBlockedByInFlightWork
MutationIsBlocked == inFlight \/ compacting # "no"

\* /compact while something is in the way only says so, over whatever it said.
CompactManually ==
    /\ CanCommand
    /\ IF MutationIsBlocked
       THEN compactionStatus' = "none" /\ UNCHANGED <<compacting, inFlight>>
       ELSE \/ /\ ~TurnRuns
               /\ compactionStatus' = "manual" /\ compacting' = "manual" /\ inFlight' = TRUE
            \/ compactionStatus' = "none" /\ UNCHANGED <<compacting, inFlight>>
    /\ UNCHANGED <<mounted, status, shownStatus, queue, turns, keys, sessions, typed, mishaps>>

ManualCompactionStays(succeeds) ==
    /\ compacting = "manual"
    /\ compacting' = "no"
    /\ compactionStatus' = "none"
    /\ picker' = (picker /\ ~succeeds)
    /\ UNCHANGED <<mounted, status, inFlight, shownStatus, queue, turns, keys, session, usage, typed, mishaps>>

\* inFlight goes back to what it was when the compaction began
ManualCompactionEnds(succeeds) ==
    /\ compacting = "manual"
    /\ compacting' = "no" /\ inFlight' = FALSE
    /\ compactionStatus' = "none"
    /\ picker' = (picker /\ ~succeeds)
    /\ UNCHANGED <<mounted, status, shownStatus, queue, turns, keys, session, usage, typed, mishaps>>

OpenPicker ==
    /\ CanCommand
    /\ picker' = TRUE
    /\ UNCHANGED <<mounted, status, inFlight, compacting, compactionStatus, shownStatus, queue,
                   turns, keys, session, usage, typed, mishaps>>

ClosePicker ==
    /\ mounted /\ picker
    /\ picker' = FALSE
    /\ UNCHANGED <<mounted, status, inFlight, compacting, compactionStatus, shownStatus, queue,
                   turns, keys, session, usage, typed, mishaps>>

\* /clear begins a new session
Clear(s) ==
    /\ CanCommand /\ ~MutationIsBlocked
    /\ s # session
    /\ session' = s /\ usage' = FALSE
    /\ compactionStatus' = "none"
    /\ UNCHANGED <<mounted, status, inFlight, compacting, shownStatus, queue, turns, keys,
                   picker, typed, mishaps>>

Switch(s) ==
    /\ mounted /\ picker /\ ~MutationIsBlocked
    /\ session' = s /\ usage' = FALSE
    /\ status' = "waiting" /\ picker' = FALSE
    /\ UNCHANGED <<mounted, inFlight, compacting, compactionStatus, shownStatus, queue, turns, keys,
                   typed, mishaps>>

\* Deleting the active session makes another one active and shows its transcript;
\* the usage that was known of the deleted one stays.
Delete(s) ==
    /\ mounted /\ picker /\ ~MutationIsBlocked
    /\ session' = s
    /\ UNCHANGED <<mounted, status, inFlight, compacting, compactionStatus, shownStatus, queue,
                   turns, keys, picker, usage, typed, mishaps>>

-----------------------------------------------------------------------------
(* Rendering and leaving *)

Render ==
    /\ shownStatus # compactionStatus
    /\ shownStatus' = compactionStatus
    /\ UNCHANGED <<mounted, status, inFlight, compacting, compactionStatus, queue, turns, keys,
                   sessions, typed, mishaps>>

\* The terminal is closed: the turn is interrupted and the application unmounted.
Unmount ==
    /\ mounted /\ mounted' = FALSE
    /\ queue' = <<>>
    /\ loop' = [loop EXCEPT !.interrupted = @ \/ activeTurn]
    /\ requested' = (requested \/ activeTurn)
    /\ armed' = FALSE
    /\ UNCHANGED <<status, inFlight, compacting, compactionStatus, shownStatus, activeTurn,
                   started, pressed, sessions, typed, mishaps>>

LoopGoesOn == TurnEndsForCompaction \/ TurnEnds \/ AutoCompactionSucceeds \/ AutoCompactionFails
ManualCompactionGoesOn == \E succeeds \in BOOLEAN : ManualCompactionEnds(succeeds)
TurnGoesOn == \E ending \in Endings \ {"none"} : TurnAnswers(ending)

Next ==
    \/ Submit \/ Enqueue \/ RunSkill \/ PressEscape \/ ConfirmationExpires
    \/ TurnGoesOn \/ LoopGoesOn
    \/ CompactManually \/ ManualCompactionGoesOn
    \/ OpenPicker \/ ClosePicker \/ \E s \in Sessions : Clear(s) \/ Switch(s) \/ Delete(s)
    \/ Render \/ Unmount

Spec == Init /\ [][Next]_vars

\* Turns and compactions come to an end (OnlyAnApprovalHoldsATurn of
\* ConversationTurn says when a turn does), and React renders.
FairSpec ==
    /\ Spec
    /\ WF_vars(TurnGoesOn) /\ WF_vars(LoopGoesOn) /\ WF_vars(ManualCompactionGoesOn)
    /\ WF_vars(Render)

-----------------------------------------------------------------------------
(* Properties *)

TypeOK ==
    /\ mounted \in BOOLEAN /\ inFlight \in BOOLEAN /\ activeTurn \in BOOLEAN
    /\ armed \in BOOLEAN /\ requested \in BOOLEAN /\ picker \in BOOLEAN
    /\ status \in {"waiting", "streaming"}
    /\ compacting \in {"no", "manual", "auto"}
    /\ compactionStatus \in {"none", "manual", "auto"}
    /\ shownStatus \in {"none", "manual", "auto"}
    /\ typed \in 0..MaxPrompts /\ queue \in Seq(1..MaxPrompts) /\ started \in Seq(1..MaxPrompts)
    /\ pressed \in BOOLEAN
    /\ session \in Sessions /\ usage \in BOOLEAN
    /\ mishaps \subseteq {"barged", "stale"}
    /\ loop \in [at : {"idle", "turn", "closing", "compacting"},
                 source : Sources, depth : 0..MaxDepth + 1, automatic : 0..MaxDepth + 1,
                 overflowed : BOOLEAN, interrupted : BOOLEAN, ending : Endings]

\* Typed prompts reach the engine once each and in the order they were typed,
\* whatever turns, compactions and interruptions come between; only after a refused
\* second loop or a late rendering may a prompt overtake the queued ones
\* (enqueueQueuedSubmittedPrompt, dequeueQueuedSubmittedPrompt).
PromptsKeepTheirOrder ==
    mounted => LET given == started \o queue IN
                   /\ Len(given) = typed /\ ToSet(given) = 1..typed
                   /\ given = [p \in 1..typed |-> p] \/ mishaps \cap {"barged", "stale"} # {}

\* While the application says that a response is streaming, there is a turn that
\* streams it and the keys can interrupt it, so the user is not locked out.  Here
\* every delivery of events succeeds: one that throws rejects the relay
\* (relayAssistantResponseRunnerEvents.ts:239-241, 262-264), and the loop ends
\* with the status it had, which may be "streaming" without a turn.
StreamingIsInterruptible == status = "streaming" => loop.at = "turn" /\ activeTurn

\* The flag that turns prompts and session changes away is up exactly while a loop
\* or a manual compaction runs; only a refused second loop takes it down early.
InFlightCoversTheWork ==
    \/ inFlight <=> loop.at # "idle" \/ compacting = "manual"
    \/ ~inFlight /\ "barged" \in mishaps

\* What the application believes to be going on goes on: keys, prompts and session
\* changes are let through or turned away for a reason that holds.
FlagsTellTheTruth == StreamingIsInterruptible /\ InFlightCoversTheWork

\* The session stays while a turn of it runs or is being compacted; only a refused
\* second loop opens the way (ACTIVE_CONVERSATION_SESSION_MUTATION_BLOCKED_MESSAGE).
SessionStaysDuringWork ==
    [][session' # session => ~EngineIsBusy \/ "barged" \in mishaps]_vars

\* The keys interrupt a turn only by two presses during that very turn: no press
\* for an earlier turn counts (ACTIVE_TURN_INTERRUPT_CONFIRMATION_WINDOW_MS).
InterruptionIsConfirmed ==
    [][loop'.interrupted /\ ~loop.interrupted /\ mounted' => pressed]_vars

\* One typed prompt leads to at most MaxDepth turns nobody typed, unless one of
\* them overflows the context window: its retry forgets the depth.
AutomaticTurnsAreCapped == loop.automatic > MaxDepth => loop.overflowed

Overflows == \E ending \in {"overflow"} : TurnAnswers(ending)

\* If overflows stop, every queued prompt is taken in the end, unless it was queued
\* on a late rendering or the application is closed.  Here too every delivery
\* succeeds: after one that throws, the finally of
\* streamAssistantResponseForSubmittedPrompt ends the loop with the queue untaken.
QueueDrains ==
    <>[][~Overflows]_vars =>
        (queue # <<>> /\ "stale" \notin mishaps ~> queue = <<>> \/ "stale" \in mishaps)

\* Once the application is closed, its turn settles and nothing starts after it,
\* whatever the loop was waiting for.
ShutdownSettles ==
    /\ [][~mounted /\ loop.at # "turn" => loop'.at # "turn"]_vars
    /\ ~mounted ~> [](loop.at = "idle")

\* The application comes to rest: its queue is worked off, and the end of the
\* terminal is the end of its work.
WorkSettles == QueueDrains /\ ShutdownSettles

\* A queued prompt leaves the queue only when no compaction runs: an engine that
\* compacts refuses every prompt.
QueuedPromptsWait ==
    [][mounted' /\ Len(queue') < Len(queue) => compacting' = "no"]_vars
=============================================================================
