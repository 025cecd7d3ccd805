-------------------------- MODULE ConcurrentTasks --------------------------
(***************************************************************************)
(* A concurrent group of task tool calls: the streams of the calls, merged *)
(* into one stream of events for the turn, and the limiter of subagent     *)
(* conversations they share.                                               *)
(*                                                                         *)
(* Each call is an async generator: it runs when it is asked for its next  *)
(* event and stops at a yield.  The merge keeps one outstanding read per   *)
(* call.  It first takes the first event of every call (the announcement,  *)
(* which needs no slot) and only then lets the calls go on, which is when  *)
(* they ask the limiter for a slot.  From then on a call is asked for its  *)
(* next event before the one it gave is handed to the consumer.            *)
(*                                                                         *)
(* An error of one call, an interruption or a consumer that leaves closes  *)
(* the group: every call is told to return, which it does at its next      *)
(* yield at the latest, and the merge waits for all of them.               *)
(***************************************************************************)
EXTENDS Integers, FiniteSets, SequencesExt

CONSTANTS
    Tasks,       \* the task tool calls of a group
    MaxSlots,    \* maximumConcurrentSubagentConversations
    MaxProgress  \* bound: progress events of one subagent conversation

ASSUME TasksAssumption == IsFiniteSet(Tasks) /\ Cardinality(Tasks) > 1
ASSUME SlotsAssumption == MaxSlots \in Nat \ {0}
ASSUME ProgressAssumption == MaxProgress \in Nat

VARIABLES
    \* the limiter, which outlives the group
    activeCount,  \* activeSubagentConversationCount
    waiters,      \* pendingSubagentConversationSlotResolvers, by the call that waits
    \* the calls
    task,         \* where the generator of each call is
    answer,       \* what became of the result of each call
    yielded,      \* how many events each has yielded
    \* the merge and its consumer
    group,        \* where the merge is
    reading,      \* the outstanding read of each call
    opening,      \* calls whose first event has not been taken
    active,       \* calls that are read in the second phase, in order
    delivered,    \* how many events of each call the consumer was handed
    interrupted   \* the turn was interrupted

limiter == <<activeCount, waiters>>
calls == <<task, answer, yielded>>
merge == <<group, reading, opening, active, delivered>>
vars == <<limiter, calls, merge, interrupted>>

Init ==
    /\ activeCount = 0
    /\ waiters = <<>>
    /\ task = [t \in Tasks |-> "unstarted"]
    /\ answer = [t \in Tasks |-> "none"]
    /\ yielded = [t \in Tasks |-> 0]
    /\ group = "new"
    /\ reading = [t \in Tasks |-> "none"]
    /\ opening = Tasks
    /\ active = <<>>
    /\ delivered = [t \in Tasks |-> 0]
    /\ interrupted = FALSE

GroupOver == group \in {"finished", "closed"}
HoldsSlot(t) == task[t] \in {"working", "progressed"}
Suspended == {"announced", "progressed", "reported"}

-----------------------------------------------------------------------------
(* The limiter. *)

\* The calls in asked go on past their announcement and ask for a slot, one
\* after the other and without a break; those that get none wait in line.
\* An interrupted turn is noticed before.
AskForSlots(asked) ==
    LET free  == MaxSlots - activeCount
        count == IF free < Len(asked) THEN free ELSE Len(asked)
        first == SubSeq(asked, 1, count)
        rest  == SubSeq(asked, count + 1, Len(asked))
    IN  IF interrupted
        THEN /\ task' = [t \in Tasks |-> IF Contains(asked, t) THEN "ended" ELSE task[t]]
             /\ reading' = [t \in Tasks |-> IF Contains(asked, t) THEN "error" ELSE reading[t]]
             /\ UNCHANGED limiter
        ELSE /\ activeCount' = activeCount + count
             /\ waiters' = waiters \o rest
             /\ task' = [t \in Tasks |-> CASE Contains(first, t) -> "working"
                                           [] Contains(rest, t)  -> "queued"
                                           [] OTHER              -> task[t]]
             /\ reading' = [t \in Tasks |-> IF Contains(asked, t) THEN "pending" ELSE reading[t]]

\* Mutant: the waiting call takes the slot without counting it.
ReleaseUncounted(t, next) ==
    /\ activeCount' = activeCount - 1
    /\ waiters' = IF waiters = <<>> THEN <<>> ELSE Tail(waiters)
    /\ task' = IF waiters = <<>> THEN [task EXCEPT ![t] = next]
               ELSE [task EXCEPT ![t] = next, ![Head(waiters)] = "working"]

\* The conversation of t ends, however it ends: its slot goes to the call
\* that has waited longest.  t goes to next.
Release(t, next) ==
    \/ /\ waiters = <<>>
       /\ activeCount' = activeCount - 1
       /\ task' = [task EXCEPT ![t] = next]
       /\ UNCHANGED waiters
    \/ /\ waiters # <<>>
       /\ task' = [task EXCEPT ![t] = next, ![Head(waiters)] = "working"]
       /\ waiters' = Tail(waiters)
       /\ UNCHANGED activeCount

-----------------------------------------------------------------------------
(* The calls. *)

\* t stops at a yield; its reader has the event.
Yields(t) ==
    /\ yielded' = [yielded EXCEPT ![t] = @ + 1]
    /\ reading' = [reading EXCEPT ![t] = "event"]

\* t throws.
Throws(t) ==
    /\ reading' = [reading EXCEPT ![t] = "error"]
    /\ UNCHANGED yielded

\* The subagent reports progress, which is shown while it keeps the slot.
Progress(t) ==
    /\ task[t] = "working" /\ ~interrupted
    /\ yielded[t] <= MaxProgress
    /\ task' = [task EXCEPT ![t] = "progressed"]
    /\ Yields(t)
    /\ UNCHANGED <<limiter, answer, group, opening, active, delivered, interrupted>>

\* The subagent finishes, with a summary or with a failure that counts as the
\* result; the slot is free before the result is recorded.
Conclude(t) ==
    /\ task[t] = "working" /\ ~interrupted
    /\ Release(t, "concluded")
    /\ UNCHANGED <<answer, yielded, merge, interrupted>>

\* In an interrupted turn the conversation fails, and the first thing it
\* reports makes t throw.
Abort(t) ==
    /\ task[t] = "working" /\ interrupted
    /\ Release(t, "ended")
    /\ Throws(t)
    /\ UNCHANGED <<answer, group, opening, active, delivered, interrupted>>

\* The result goes into the history and is shown, unless the turn was
\* interrupted meanwhile.
Record(t) ==
    /\ task[t] = "concluded"
    /\ \/ /\ interrupted
          /\ task' = [task EXCEPT ![t] = "ended"]
          /\ Throws(t)
          /\ UNCHANGED answer
       \/ /\ ~interrupted
          /\ task' = [task EXCEPT ![t] = "reported"]
          /\ answer' = [answer EXCEPT ![t] = "recorded"]
          /\ Yields(t)
    /\ UNCHANGED <<limiter, group, opening, active, delivered, interrupted>>

\* The provider takes the result, and t is done; or it does not, and t throws.
Submitted(t) ==
    /\ task[t] = "submitting"
    /\ task' = [task EXCEPT ![t] = "ended"]
    /\ answer' = [answer EXCEPT ![t] = "submitted"]
    /\ reading' = [reading EXCEPT ![t] = "done"]
    /\ UNCHANGED <<limiter, yielded, group, opening, active, delivered, interrupted>>
SubmissionFails(t) ==
    /\ task[t] = "submitting"
    /\ task' = [task EXCEPT ![t] = "ended"]
    /\ Throws(t)
    /\ UNCHANGED <<limiter, answer, group, opening, active, delivered, interrupted>>

\* t is asked for its next event: after progress the conversation goes on,
\* after the result the provider is sent it.
Resume(t) ==
    /\ task' = [task EXCEPT ![t] = IF @ = "progressed" THEN "working" ELSE "submitting"]
    /\ reading' = [reading EXCEPT ![t] = "pending"]

-----------------------------------------------------------------------------
(* The merge. *)

\* The consumer asks for the first event: every call is read, and announces
\* itself at once.
Open ==
    /\ group = "new"
    /\ group' = "racing"
    /\ task' = [t \in Tasks |-> "announced"]
    /\ yielded' = [t \in Tasks |-> 1]
    /\ reading' = [t \in Tasks |-> "event"]
    /\ UNCHANGED <<limiter, answer, opening, active, delivered, interrupted>>

\* The merge is about to wait for the next event.
RaceUnlessInterrupted == group' = IF interrupted THEN "closing" ELSE "racing"

\* First phase: the announcement of t is handed over, and t is not read again
\* before the phase ends.
TakeFirst(t) ==
    /\ group = "racing" /\ t \in opening
    /\ reading[t] = "event"
    /\ opening' = opening \ {t}
    /\ active' = Append(active, t)
    /\ reading' = [reading EXCEPT ![t] = "none"]
    /\ delivered' = [delivered EXCEPT ![t] = @ + 1]
    /\ group' = "consumer"
    /\ UNCHANGED <<limiter, calls, interrupted>>

\* Mutant: the event is dropped when its successor is asked for.
TakeNextLosingEvent(t) ==
    /\ group = "racing" /\ opening = {} /\ Contains(active, t)
    /\ reading[t] = "event"
    /\ Resume(t)
    /\ UNCHANGED <<limiter, answer, yielded, group, opening, active, delivered, interrupted>>

\* Second phase: t is asked for its next event, then this one is handed over.
TakeNext(t) ==
    /\ group = "racing" /\ opening = {} /\ Contains(active, t)
    /\ reading[t] = "event"
    /\ Resume(t)
    /\ delivered' = [delivered EXCEPT ![t] = @ + 1]
    /\ group' = "consumer"
    /\ UNCHANGED <<limiter, answer, yielded, opening, active, interrupted>>

\* Mutant: the first call that is done ends the group.
TakeDoneEndingGroup(t) ==
    /\ group = "racing" /\ opening = {} /\ Contains(active, t)
    /\ reading[t] = "done"
    /\ active' = <<>>
    /\ group' = "finished"
    /\ UNCHANGED <<limiter, calls, reading, opening, delivered, interrupted>>

\* t is done; the group is when no call is left.
TakeDone(t) ==
    /\ group = "racing" /\ opening = {}
    /\ reading[t] = "done"
    /\ \E i \in DOMAIN active : active[i] = t /\ active' = RemoveAt(active, i)
    /\ IF active' = <<>> THEN group' = "finished" ELSE RaceUnlessInterrupted
    /\ UNCHANGED <<limiter, calls, reading, opening, delivered, interrupted>>

\* Mutant: the error is swallowed and the race run again.
TakeErrorSwallowing(t) ==
    /\ group = "racing" /\ opening = {} /\ Contains(active, t)
    /\ reading[t] = "error"
    /\ RaceUnlessInterrupted
    /\ UNCHANGED <<limiter, calls, reading, opening, active, delivered, interrupted>>

\* t threw: the merge throws, closing the others first.
TakeError(t) ==
    /\ group = "racing" /\ opening = {} /\ Contains(active, t)
    /\ reading[t] = "error"
    /\ group' = "closing"
    /\ UNCHANGED <<limiter, calls, reading, opening, active, delivered, interrupted>>

\* The consumer asks for the next event.  After the last announcement this
\* starts the second phase.
ConsumerNext ==
    /\ group = "consumer"
    /\ RaceUnlessInterrupted
    /\ IF opening = {} /\ \A t \in Tasks : task[t] = "announced"
       THEN AskForSlots(active)
       ELSE UNCHANGED <<limiter, task, reading>>
    /\ UNCHANGED <<answer, yielded, opening, active, delivered, interrupted>>

\* The consumer leaves the loop over the events.
ConsumerLeaves ==
    /\ group = "consumer"
    /\ group' = "closing"
    /\ UNCHANGED <<limiter, calls, reading, opening, active, delivered, interrupted>>

\* A closed call returns at the yield it stands at, or that it comes to.
Return(t) ==
    /\ group = "closing" /\ task[t] \in Suspended
    /\ IF HoldsSlot(t) THEN Release(t, "ended")
                       ELSE task' = [task EXCEPT ![t] = "ended"] /\ UNCHANGED limiter
    /\ UNCHANGED <<answer, yielded, merge, interrupted>>

\* All of them have returned.
Closed ==
    /\ group = "closing" /\ \A t \in Tasks : task[t] = "ended"
    /\ group' = "closed"
    /\ UNCHANGED <<limiter, calls, reading, opening, active, delivered, interrupted>>

Interrupt ==
    /\ ~GroupOver /\ ~interrupted
    /\ interrupted' = TRUE
    /\ UNCHANGED <<limiter, calls, merge>>

\* The next group of the runtime, of this turn or a later one, with the same
\* limiter.
NextGroup ==
    /\ GroupOver
    /\ task' = [t \in Tasks |-> "unstarted"]
    /\ answer' = [t \in Tasks |-> "none"]
    /\ yielded' = [t \in Tasks |-> 0]
    /\ group' = "new"
    /\ reading' = [t \in Tasks |-> "none"]
    /\ opening' = Tasks
    /\ active' = <<>>
    /\ delivered' = [t \in Tasks |-> 0]
    /\ interrupted' = FALSE
    /\ UNCHANGED limiter

Call(t) == Progress(t) \/ Conclude(t) \/ Abort(t) \/ Record(t) \/ Submitted(t) \/ SubmissionFails(t)
Merge(t) == TakeFirst(t) \/ TakeNext(t) \/ TakeDone(t) \/ TakeError(t) \/ Return(t)

Next ==
    \/ \E t \in Tasks : Call(t) \/ Merge(t)
    \/ Open \/ ConsumerNext \/ ConsumerLeaves \/ Closed \/ Interrupt \/ NextGroup

\* The engine goes on; subagent conversations and submissions settle, the
\* former after finitely many events (MaxProgress bounds them here); the
\* consumer, a loop of the controller, asks for the next event or leaves.
Fairness ==
    /\ \A t \in Tasks : WF_vars(Call(t)) /\ WF_vars(Merge(t))
    /\ WF_vars(Open) /\ WF_vars(Closed) /\ WF_vars(ConsumerNext \/ ConsumerLeaves)

Spec == Init /\ [][Next]_vars
FairSpec == Spec /\ Fairness

-----------------------------------------------------------------------------
Places == {"unstarted", "announced", "queued", "working", "progressed",
           "concluded", "reported", "submitting", "ended"}
EventCounts == 0 .. MaxProgress + 2

TypeOK ==
    /\ activeCount \in 0 .. MaxSlots
    /\ waiters \in Seq(Tasks)
    /\ task \in [Tasks -> Places]
    /\ answer \in [Tasks -> {"none", "recorded", "submitted"}]
    /\ yielded \in [Tasks -> EventCounts]
    /\ group \in {"new", "racing", "consumer", "closing", "finished", "closed"}
    /\ reading \in [Tasks -> {"none", "pending", "event", "done", "error"}]
    /\ opening \in SUBSET Tasks
    /\ active \in Seq(Tasks)
    /\ delivered \in [Tasks -> EventCounts]
    /\ interrupted \in BOOLEAN

\* A group that has ended leaves nothing behind, whichever way it ended: every
\* call has returned, and the limiter is as it was, no slot lost, leaked or given
\* twice (the finally of mergeAssistantResponseEventStreams waits for calls that
\* still wait for a slot or run a subagent).
GroupLeavesNothingBehind ==
    GroupOver => activeCount = 0 /\ waiters = <<>> /\ \A t \in Tasks : task[t] = "ended"

\* A group that ends in order has recorded, shown and submitted the result of
\* every call.
FinishedGroupIsAnswered ==
    group = "finished" => \A t \in Tasks : answer[t] = "submitted" /\ delivered[t] = yielded[t]

\* A group ends with everything settled: its calls have returned and their slots
\* are back; and if it ends in order, their results have arrived.
GroupsEndSettled == GroupLeavesNothingBehind /\ FinishedGroupIsAnswered

\* Until the group is closed the consumer gets every event of every call, once
\* and in order: what a call has yielded was handed over, or is the one event
\* its reader has, although the call is read ahead of the consumer.
NoEventLost ==
    group \in {"racing", "consumer", "finished"} =>
        \A t \in Tasks : yielded[t] = delivered[t] + (IF reading[t] = "event" THEN 1 ELSE 0)

\* A group ends, however few the slots: a call that waits for a slot never
\* holds up the events of the one that has it.
GroupEnds == group = "racing" ~> GroupOver
=============================================================================
