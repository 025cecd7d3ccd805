---------------------------- MODULE ChatTranscript ----------------------------
(***************************************************************************)
(* The part of the chat's state that a turn writes, and the screen that    *)
(* shows it: how each event of a turn changes the state, which parts of    *)
(* the state a change set says have changed, and which parts of the screen *)
(* the render store then draws again.                                      *)
(*                                                                         *)
(* A part of a message has a kind, a status and the length of its text.    *)
(* The code compares objects by identity where this module compares        *)
(* values: it may draw a row that looks the same as before.  Only what is  *)
(* NOT drawn again matters to the screen.                                  *)
(***************************************************************************)
EXTENDS Naturals, Sequences, SequencesExt

CONSTANT KindOf   \* the kind of each part a message may have, by the part's name

ASSUME KindsAssumption == \A n \in DOMAIN KindOf : KindOf[n] \in {"text", "reasoning", "tool"}

None == <<>>

Restated(f, k, v) == [x \in DOMAIN f \union {k} |-> IF x = k THEN v ELSE f[x]]

EmptyChat ==
    [status   |-> "waiting_for_user_input",
     approval |-> None,
     usage    |-> 0,             \* latestContextWindowUsage: the turn it comes from
     help     |-> FALSE,         \* isCommandHelpModalVisible
     messages |-> [m \in {} |-> None],
     order    |-> <<>>,
     parts    |-> [p \in {} |-> None]]

-------------------------------------------------------------------------------
(* The reducers.  A message is [status, parts]; the id of a part is a pair  *)
(* of its message's id and its name.                                        *)

AppendMessageIfMissing(s, m, message) ==
    IF m \in DOMAIN s.messages THEN s
    ELSE [s EXCEPT !.messages = Restated(@, m, message), !.order = Append(@, m)]

UpsertPart(s, p, part) ==
    LET m == p[1] IN
    IF m \notin DOMAIN s.messages THEN s
    ELSE [s EXCEPT !.parts = Restated(@, p, part),
                   !.messages[m].parts = IF Contains(@, p) THEN @ ELSE Append(@, p)]

PartsOf(s, m) == {p \in DOMAIN s.parts : Contains(s.messages[m].parts, p)}

Unfinished == {"running", "pending_approval"}

\* What becomes of a part when its message ends: text takes the message's
\* status, reasoning that was being streamed and calls without a result end.
Ended(part, status) ==
    CASE part.kind = "text" -> [part EXCEPT !.status = status]
      [] part.kind = "reasoning" /\ part.status = "streaming" ->
            [part EXCEPT !.status = IF status = "completed" THEN "completed" ELSE "interrupted"]
      [] part.kind = "tool" /\ part.status \in Unfinished ->
            [part EXCEPT !.status = IF status = "failed" THEN "failed" ELSE "interrupted"]
      [] OTHER -> part

EndParts(s, m, status) ==
    [s EXCEPT !.parts = [p \in DOMAIN @ |-> IF p \in PartsOf(s, m) THEN Ended(@[p], status) ELSE @[p]]]

\* A message that did not complete says so, once.
AddNotice(s, m, status) ==
    IF \E p \in PartsOf(s, m) : s.parts[p].kind = status THEN s
    ELSE UpsertPart(s, <<m, "notice">>, [kind |-> status, status |-> status, length |-> 0, counted |-> FALSE])

CountReasoning(s, m) ==
    LET completed == {p \in PartsOf(s, m) : s.parts[p].kind = "reasoning" /\ s.parts[p].status = "completed"} IN
    [s EXCEPT !.parts = [p \in DOMAIN @ |->
        IF completed = {p} THEN [@[p] EXCEPT !.counted = TRUE] ELSE @[p]]]

EndMessage(s, m, status) ==
    IF m \notin DOMAIN s.messages THEN s
    ELSE LET ended == EndParts([s EXCEPT !.messages[m].status = status], m, status)
             noted == IF status = "completed" THEN ended ELSE AddNotice(ended, m, status)
         IN  IF status \in {"completed", "incomplete"} THEN CountReasoning(noted, m) ELSE noted

Apply(s, e) ==
    CASE e.type = "turn_started" ->
            AppendMessageIfMissing([s EXCEPT !.status = "streaming_assistant_response", !.approval = None],
                                   e.message, [status |-> "streaming", parts |-> <<>>])
      [] e.type \in {"part_added", "part_updated"} -> UpsertPart(s, e.id, e.part)
      [] e.type = "approval_requested" ->
            [s EXCEPT !.status = "waiting_for_tool_approval", !.approval = e.id]
      [] e.type = "approval_cleared" ->
            [s EXCEPT !.status = IF @ = "waiting_for_tool_approval" THEN "streaming_assistant_response" ELSE @,
                      !.approval = IF @ = e.id THEN None ELSE @]
      [] e.type = "ended" ->
            EndMessage([s EXCEPT !.status = "waiting_for_user_input", !.approval = None,
                                 !.usage = IF e.status \in {"completed", "incomplete"} THEN e.message[2] ELSE @],
                       e.message, e.status)

ApplyAll(s, events) == FoldLeft(Apply, s, events)

AppendPrompt(s, m) ==
    AppendMessageIfMissing([s EXCEPT !.status = "streaming_assistant_response", !.approval = None],
                           m, [status |-> "completed", parts |-> <<>>])

-------------------------------------------------------------------------------
(* Change sets.                                                             *)

Row(s, m) ==
    [status |-> s.messages[m].status,
     parts  |-> [i \in DOMAIN s.messages[m].parts |-> s.parts[s.messages[m].parts[i]]]]

\* Mutant: the parts of the message are not looked at.
RowChangedItself(s, n, m) ==
    \/ (m \in DOMAIN s.messages) # (m \in DOMAIN n.messages)
    \/ m \in DOMAIN n.messages /\ s.messages[m] # n.messages[m]

RowChanged(s, n, m) ==
    \/ (m \in DOMAIN s.messages) # (m \in DOMAIN n.messages)
    \/ m \in DOMAIN n.messages /\ Row(s, m) # Row(n, m)

Transcript(s)  == [messages |-> s.messages, parts |-> s.parts, order |-> s.order, help |-> s.help]
CanEditDraft(s) ==
    /\ s.status \in {"waiting_for_user_input", "streaming_assistant_response"}
    /\ ~s.help
Composer(s)    == [status |-> s.status, usage |-> s.usage, editable |-> CanEditDraft(s)]
Interaction(s) == [status |-> s.status, approval |-> s.approval, help |-> s.help]
Auxiliary(s)   == [approval |-> s.approval, usage |-> s.usage]

\* The message an event may change; the approval events name none.
ChangedByEvent(s, n, e) ==
    CASE e.type \in {"approval_requested", "approval_cleared"} -> {}
      [] e.type \in {"part_added", "part_updated"} -> {m \in {e.id[1]} : RowChanged(s, n, m)}
      [] OTHER -> {m \in {e.message} : RowChanged(s, n, m)}

EventChanges(s, n, e) ==
    [rows        |-> ChangedByEvent(s, n, e),
     order       |-> s.order # n.order,
     transcript  |-> Transcript(s) # Transcript(n),
     composer    |-> s.status # n.status \/ s.usage # n.usage,
     interaction |-> s.status # n.status \/ s.approval # n.approval]

StateChanges(s, n) ==
    [rows        |-> {m \in DOMAIN s.messages \union DOMAIN n.messages : RowChanged(s, n, m)},
     order       |-> s.order # n.order,
     transcript  |-> Transcript(s) # Transcript(n),
     composer    |-> s.status # n.status \/ s.usage # n.usage,
     interaction |-> Interaction(s) # Interaction(n)]

NoChanges == [rows |-> {}, order |-> FALSE, transcript |-> FALSE, composer |-> FALSE, interaction |-> FALSE]

Merge(c, d) ==
    [rows |-> c.rows \union d.rows, order |-> c.order \/ d.order, transcript |-> c.transcript \/ d.transcript,
     composer |-> c.composer \/ d.composer, interaction |-> c.interaction \/ d.interaction]

\* The state and the change set of events applied one after the other.
Application(s, events) ==
    FoldLeft(LAMBDA a, e : LET n == Apply(a.state, e) IN
                           [state |-> n, changes |-> Merge(a.changes, EventChanges(a.state, n, e))],
             [state |-> s, changes |-> NoChanges], events)

-------------------------------------------------------------------------------
(* The screen: what its parts showed when they were drawn last.  The list of *)
(* rows follows the controller's state, the others subscribe to the store.   *)

ScreenOf(s) ==
    [list |-> s.order, rows |-> [m \in ToSet(s.order) |-> Row(s, m)], transcript |-> Transcript(s),
     composer |-> Composer(s), interaction |-> Interaction(s), auxiliary |-> Auxiliary(s)]

\* The events of a turn change the controller's state only if something
\* outside the rows has changed, or a row has got a part.
UpdatesController(s, n, c) ==
    c.order \/ c.composer \/ c.interaction \/ DOMAIN s.parts # DOMAIN n.parts

Drawn(screen, s, n, c, controllerUpdated) ==
    LET list == IF controllerUpdated THEN n.order ELSE screen.list IN
    [list |-> list,
     rows |-> [m \in ToSet(list) |->
                IF m \in c.rows \/ m \notin DOMAIN screen.rows THEN Row(n, m) ELSE screen.rows[m]],
     transcript  |-> IF c.order \/ c.transcript THEN Transcript(n) ELSE screen.transcript,
     composer    |-> IF c.composer \/ CanEditDraft(s) # CanEditDraft(n) THEN Composer(n) ELSE screen.composer,
     interaction |-> IF c.interaction THEN Interaction(n) ELSE screen.interaction,
     auxiliary   |-> IF Auxiliary(s) # Auxiliary(n) THEN Auxiliary(n) ELSE screen.auxiliary]
===============================================================================
