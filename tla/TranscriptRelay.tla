---------------------------- MODULE TranscriptRelay ----------------------------
(***************************************************************************)
(* The relay between a turn and the chat's state.  It queues the events of *)
(* the turn, holds updates of streaming text and reasoning back for at     *)
(* most 48 ms, delivers what is queued without the updates that later ones *)
(* supersede, and closes a turn that ends without saying so.  Timers it no *)
(* longer keeps a handle of still fire.  Delivering may throw, from inside *)
(* the turn's stream or from a timer.  The user opens and closes the help  *)
(* in between.                                                             *)
(***************************************************************************)
EXTENDS ChatTranscript

CONSTANTS
    Turns,        \* 1..n, in the order they are submitted
    NamesIn,      \* the names of the parts a turn may stream
    MaxLength,    \* bound: how often the text of a part grows
    MaxTimers,    \* bound: timers of one turn that wait at a time
    MaxFailures,  \* bound: deliveries that throw
    MaxHelp       \* bound: how often the help is opened or closed

ASSUME TurnsAssumption ==
    /\ Turns \subseteq Nat \ {0}
    /\ \A t \in Turns : NamesIn[t] \subseteq DOMAIN KindOf /\ "notice" \notin NamesIn[t]

VARIABLES
    chat,      \* the chat's state in the render store
    screen,    \* what the screen shows of it
    relay,     \* the variables of each turn's relay
    timers,    \* for each relay, how many timers wait, with or without a handle
    asked,     \* the tool calls an approval was asked for
    halted,    \* turns interrupted because of a delivery
    failures, helped,
    direct     \* history: the state if every event were applied when it comes

turnState == <<asked, halted>>
relayVars == <<chat, screen, relay, timers, turnState, failures, helped, direct>>

Message(t) == <<"assistant", t>>
Prompt(t)  == <<"user", t>>

NewRelay == [phase |-> "idle", queue |-> <<>>, scheduled |-> FALSE, named |-> FALSE, ended |-> FALSE, failed |-> FALSE]

RelayInit ==
    /\ chat = EmptyChat /\ direct = EmptyChat /\ screen = ScreenOf(EmptyChat)
    /\ relay = [t \in Turns |-> NewRelay]
    /\ timers = [t \in Turns |-> 0]
    /\ asked = {} /\ halted = {}
    /\ failures = 0 /\ helped = 0

-------------------------------------------------------------------------------
(* Coalescing.                                                              *)

Batchable(e) == e.type = "part_updated" /\ e.part.kind \in {"text", "reasoning"} /\ e.part.status = "streaming"

\* Mutant: the first update is kept.
SupersededByEarlier(queue, i) ==
    /\ Batchable(queue[i])
    /\ \E j \in 1..(i - 1) :
        /\ queue[j].type = "part_updated" /\ queue[j].id = queue[i].id
        /\ \A k \in j..i : Batchable(queue[k])

\* A later update of the same part, with nothing but such updates between.
Superseded(queue, i) ==
    /\ Batchable(queue[i])
    /\ \E j \in (i + 1)..Len(queue) :
        /\ queue[j].type = "part_updated" /\ queue[j].id = queue[i].id
        /\ \A k \in i..j : Batchable(queue[k])

Compacted(queue) ==
    FoldLeft(LAMBDA kept, i : IF Superseded(queue, i) THEN kept ELSE Append(kept, queue[i]),
             <<>>, [i \in DOMAIN queue |-> i])

-------------------------------------------------------------------------------
(* Delivery.  r is the relay with the event that has just been queued.      *)

DeliverTo(r) ==
    LET a == Application(chat, Compacted(r.queue)) IN
    /\ chat' = a.state
    /\ screen' = Drawn(screen, chat, a.state, a.changes, UpdatesController(chat, a.state, a.changes))
    /\ UNCHANGED failures

\* A listener throws when the state is in place and before everything is drawn.
DeliveryThrows(r) ==
    /\ r.queue # <<>> /\ failures < MaxFailures
    /\ failures' = failures + 1
    /\ chat' = ApplyAll(chat, Compacted(r.queue))
    /\ UNCHANGED screen

\* Mutant: the handle of the timer is kept.
FlushedKeepingHandle(r) == [r EXCEPT !.queue = <<>>]

Flushed(r) == [r EXCEPT !.queue = <<>>, !.scheduled = FALSE]

Queued(r, e) ==
    [r EXCEPT !.queue = Append(@, e),
              !.named = @ \/ e.type \notin {"approval_requested", "approval_cleared"},
              !.ended = @ \/ e.type = "ended"]

\* A delivery that throws while the stream is read leaves the loop over it.
FlushInStream(t, r) ==
    \/ DeliverTo(r) /\ relay' = [relay EXCEPT ![t] = Flushed(r)]
    \/ DeliveryThrows(r) /\ relay' = [relay EXCEPT ![t] = [Flushed(r) EXCEPT !.failed = TRUE, !.phase = "closing"]]

Hold(t, r) ==
    /\ relay' = [relay EXCEPT ![t] = [r EXCEPT !.scheduled = TRUE]]
    /\ timers' = [timers EXCEPT ![t] = IF r.scheduled THEN @ ELSE @ + 1]
    /\ timers'[t] <= MaxTimers
    /\ UNCHANGED <<chat, screen, failures>>

Receive(t, e) ==
    LET r == Queued(relay[t], e) IN
    /\ relay[t].phase = "streaming"
    /\ direct' = Apply(direct, e)
    /\ \/ FlushInStream(t, r) /\ UNCHANGED timers
       \/ Batchable(e) /\ Hold(t, r)
    /\ UNCHANGED helped

TimerFires(t) ==
    /\ timers[t] > 0
    /\ timers' = [timers EXCEPT ![t] = @ - 1]
    /\ \/ /\ DeliverTo(relay[t])
          /\ relay' = [relay EXCEPT ![t] = Flushed(@)]
          /\ UNCHANGED halted
       \/ /\ DeliveryThrows(relay[t])
          /\ relay' = [relay EXCEPT ![t] = [Flushed(@) EXCEPT !.failed = TRUE]]
          /\ halted' = IF relay[t].phase = "finished" THEN halted ELSE halted \union {t}
    /\ UNCHANGED <<asked, helped, direct>>

-------------------------------------------------------------------------------
(* The events of a turn, in the orders the runtime sends them.              *)

Part(n, status, length) == [kind |-> KindOf[n], status |-> status, length |-> length, counted |-> FALSE]
IdOf(t, n) == <<Message(t), n>>
Ends(t, status) == [type |-> "ended", message |-> Message(t), status |-> status]

Started(t) == Message(t) \in DOMAIN direct.messages
Runs(t) == Started(t) /\ ~relay[t].ended /\ direct.approval = None

TurnStarts(t) ==
    /\ ~Started(t) /\ ~relay[t].ended
    /\ Receive(t, [type |-> "turn_started", message |-> Message(t)])
    /\ UNCHANGED turnState

\* A part is added before it is updated.
PartAdded(t, n) ==
    /\ Runs(t) /\ IdOf(t, n) \notin DOMAIN direct.parts
    /\ \E status \in IF KindOf[n] = "tool" THEN Unfinished ELSE {"streaming"} :
        Receive(t, [type |-> "part_added", id |-> IdOf(t, n), part |-> Part(n, status, 1)])
    /\ UNCHANGED turnState

Updates(part, n, wasAsked) ==
    CASE part.status = "streaming" ->
            {Part(n, "streaming", l) : l \in {part.length + 1} \intersect 1..MaxLength}
                \union {Part(n, "completed", part.length)}
      [] part.status = "pending_approval" -> {Part(n, s, 1) : s \in IF wasAsked THEN {"running", "denied"} ELSE {}}
      [] part.status = "running" -> {Part(n, s, 1) : s \in {"completed", "failed"}}
      [] OTHER -> {}

PartUpdated(t, n) ==
    /\ Runs(t) /\ IdOf(t, n) \in DOMAIN direct.parts
    /\ \E part \in Updates(direct.parts[IdOf(t, n)], n, IdOf(t, n) \in asked) :
        Receive(t, [type |-> "part_updated", id |-> IdOf(t, n), part |-> part])
    /\ UNCHANGED turnState

ApprovalRequested(t, n) ==
    LET p == IdOf(t, n) IN
    /\ Runs(t) /\ p \in DOMAIN direct.parts \ asked
    /\ direct.parts[p].status = "pending_approval"
    /\ Receive(t, [type |-> "approval_requested", id |-> p])
    /\ asked' = asked \union {p}
    /\ UNCHANGED halted

ApprovalCleared(t, n) ==
    /\ direct.approval = IdOf(t, n)
    /\ Receive(t, [type |-> "approval_cleared", id |-> IdOf(t, n)])
    /\ UNCHANGED turnState

EndStreamed(t, status) ==
    /\ Runs(t)
    /\ Receive(t, Ends(t, status))
    /\ UNCHANGED turnState

-------------------------------------------------------------------------------
(* A prompt of the user, and the end of its turn's stream.                  *)

\* The controller's setter replaces the state and says what has changed.
Replace(s) ==
    /\ chat' = s
    /\ screen' = Drawn(screen, chat, s, StateChanges(chat, s), TRUE)

AppendSubmitted(t) ==
    /\ relay[t].phase = "idle" /\ chat.status = "waiting_for_user_input"
    /\ \A u \in Turns : u < t => relay[u].phase = "finished"
    /\ Replace(AppendPrompt(chat, Prompt(t)))
    /\ direct' = AppendPrompt(direct, Prompt(t))
    /\ relay' = [relay EXCEPT ![t].phase = "streaming"]
    /\ UNCHANGED <<timers, turnState, failures, helped>>

\* Mutant: a turn that has not started is not started to be closed.
SyntheticEndOnly(t) == IF relay[t].ended THEN <<>> ELSE <<Ends(t, "failed")>>

\* queueSyntheticFailedAssistantTurn
Synthetic(t) ==
    IF relay[t].ended THEN <<>>
    ELSE (IF relay[t].named THEN <<>> ELSE <<[type |-> "turn_started", message |-> Message(t)]>>)
            \o <<Ends(t, "failed")>>

\* The stream is over, or has thrown (starting the turn may have, too).  A turn
\* that did not say how it ended is closed, but not if a delivery has thrown.
StreamEnds(t) ==
    LET events == Synthetic(t) IN
    /\ relay[t].phase = "streaming"
    /\ \/ /\ events = <<>> \/ relay[t].failed
          /\ relay' = [relay EXCEPT ![t].phase = "closing"]
          /\ UNCHANGED <<chat, screen, failures, direct>>
       \/ /\ ~relay[t].failed
          /\ \E n \in DOMAIN events :
                LET given == SubSeq(events, 1, n)
                    r == [relay[t] EXCEPT !.queue = @ \o given, !.named = TRUE, !.ended = n = Len(events),
                                          !.phase = "closing"]
                IN  /\ direct' = ApplyAll(direct, given)
                    /\ \/ n = Len(events) /\ DeliverTo(r) /\ relay' = [relay EXCEPT ![t] = Flushed(r)]
                       \/ DeliveryThrows(r) /\ relay' = [relay EXCEPT ![t] = [Flushed(r) EXCEPT !.failed = TRUE]]
    /\ UNCHANGED <<timers, turnState, helped>>

\* Mutant: what a failing delivery left behind stays in the queue.
FinishKeepingQueue(t) ==
    LET r == [relay[t] EXCEPT !.phase = "finished"] IN
    /\ relay[t].phase = "closing"
    /\ timers' = [timers EXCEPT ![t] = IF relay[t].scheduled THEN @ - 1 ELSE @]
    /\ IF relay[t].failed
       THEN /\ relay' = [relay EXCEPT ![t] = r]
            /\ UNCHANGED <<chat, screen, failures, direct>>
       ELSE /\ \/ DeliverTo(relay[t]) /\ relay' = [relay EXCEPT ![t] = Flushed(r)]
               \/ DeliveryThrows(relay[t]) /\ relay' = [relay EXCEPT ![t] = [Flushed(r) EXCEPT !.failed = TRUE]]
            /\ UNCHANGED direct
    /\ UNCHANGED <<turnState, helped>>

\* The finally block: the last flush, or nothing more after a delivery threw.
Finish(t) ==
    LET r == [relay[t] EXCEPT !.phase = "finished", !.queue = <<>>] IN
    /\ relay[t].phase = "closing"
    /\ timers' = [timers EXCEPT ![t] = IF relay[t].scheduled THEN @ - 1 ELSE @]
    /\ IF relay[t].failed
       THEN /\ relay' = [relay EXCEPT ![t] = r] /\ direct' = chat
            /\ UNCHANGED <<chat, screen, failures>>
       ELSE /\ \/ DeliverTo(relay[t]) /\ relay' = [relay EXCEPT ![t] = Flushed(r)]
               \/ DeliveryThrows(relay[t]) /\ relay' = [relay EXCEPT ![t] = [Flushed(r) EXCEPT !.failed = TRUE]]
            /\ UNCHANGED direct
    /\ UNCHANGED <<turnState, helped>>

ToggleHelp ==
    /\ helped < MaxHelp
    /\ Replace([chat EXCEPT !.help = ~@])
    /\ direct' = [direct EXCEPT !.help = ~@]
    /\ helped' = helped + 1
    /\ UNCHANGED <<relay, timers, turnState, failures>>

-------------------------------------------------------------------------------
TurnEvent(t) ==
    \/ TurnStarts(t)
    \/ \E n \in NamesIn[t] :
        PartAdded(t, n) \/ PartUpdated(t, n) \/ ApprovalRequested(t, n) \/ ApprovalCleared(t, n)
    \/ \E status \in {"completed", "incomplete", "failed", "interrupted"} : EndStreamed(t, status)

RelayNext ==
    \/ \E t \in Turns : AppendSubmitted(t) \/ TurnEvent(t) \/ TimerFires(t) \/ StreamEnds(t) \/ Finish(t)
    \/ ToggleHelp

RelaySpec == RelayInit /\ [][RelayNext]_relayVars

\* A timer that waits fires in the end, or is cleared.
Expires(t) == timers[t] > 0 /\ timers' = [timers EXCEPT ![t] = @ - 1]
RelayFairSpec == RelaySpec /\ \A t \in Turns : WF_timers(Expires(t))

-------------------------------------------------------------------------------
(* Properties.                                                              *)

\* Leaving superseded updates out changes nothing (relayAssistantResponseRunner-
\* Events.ts:69): once the queues are flushed, the chat's state is what it would
\* be if each event had been applied when it came.
CoalescingIsInvisible ==
    LET waiting == {t \in Turns : relay[t].queue # <<>>} IN
    /\ waiting = {} => chat = direct
    /\ \A t \in waiting : ApplyAll(chat, Compacted(relay[t].queue)) = direct

\* No part of the screen is stale: what the change sets leave out has not
\* changed (chatAppRenderStore.ts:241, assistantTurnEventReducer.ts:866).
ScreenShowsTheChat == failures = 0 => screen = ScreenOf(chat)

\* A turn whose deliveries worked is closed when its relay is done, whatever
\* its stream did: its message has an end and nothing in it still runs, and
\* the user can go on (relayAssistantResponseRunnerEvents.ts:190).
FinishedTurnsAreClosed ==
    \A t \in Turns :
        relay[t].phase = "finished" /\ ~relay[t].failed =>
            /\ Message(t) \in DOMAIN chat.messages
            /\ chat.messages[Message(t)].status # "streaming"
            /\ \A p \in PartsOf(chat, Message(t)) :
                chat.parts[p].status \notin Unfinished \union {"streaming"}
            /\ (\A u \in Turns : u > t => relay[u].phase = "idle") =>
                chat.status = "waiting_for_user_input" /\ chat.approval = None

\* Nothing reaches the message of a turn after its relay is done: not what a
\* failing delivery left behind, and not through a timer without a handle.
FinishedTurnsStay ==
    [][\A t \in Turns :
        relay[t].phase = "finished" /\ Message(t) \in DOMAIN chat.messages =>
            Row(chat', Message(t)) = Row(chat, Message(t))]_relayVars

\* What is held back is shown in the end.
EventsAreShown == \A t \in Turns : relay[t].queue # <<>> ~> relay[t].queue = <<>>
===============================================================================
