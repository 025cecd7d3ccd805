-------------------------- MODULE HistoryProjection -------------------------
(***************************************************************************)
(* What of a conversation session the model is shown when a turn begins:   *)
(* the engine's projectConversationSessionEntriesToModelContextItems and   *)
(* the provider's createOpenAiResponsesInputItems, which make the same     *)
(* choice of entries and differ in how they word them.  An entry has a     *)
(* kind and a call; an item of the request is the entry it is made from.   *)
(***************************************************************************)
EXTENDS Naturals, SequencesExt

Terminals == {"completed", "incomplete", "failed", "interrupted"}

\* The latest compaction summary and what follows it, or everything.
VisibleEntries(entries) ==
    LET boundary == SelectLastInSeq(entries, LAMBDA e : e.kind = "compaction_summary")
    IN SubSeq(entries, IF boundary = 0 THEN 1 ELSE boundary, Len(entries))

\* Seeded fault: the calls are shown whether or not they were answered.
AllTools(entries) == SelectSeq(entries, LAMBDA e : e.kind \in {"tool_call", "tool_result"})

\* Each call that has a result, with its first result, in the order of the calls.
PairedTools(entries) ==
    LET IsResult(c, e) == e.kind = "tool_result" /\ e.call = c
        Pair(items, e) ==
            IF /\ e.kind = "tool_call"
               /\ \A i \in DOMAIN items : items[i].call # e.call
               /\ \E i \in DOMAIN entries : IsResult(e.call, entries[i])
            THEN items \o <<e, entries[SelectInSeq(entries, LAMBDA r : IsResult(e.call, r))]>>
            ELSE items
    IN FoldLeft(Pair, <<>>, entries)

\* A turn with its terminal entry, the last of after: a finished one is shown by
\* its answer alone, a failed or interrupted one by its answered calls, if any.
TurnItems(prompt, after) ==
    LET tools == PairedTools(Front(after))
    IN IF Last(after).kind \in {"completed", "incomplete"} THEN <<prompt, Last(after)>>
       ELSE IF tools = <<>> THEN <<>> ELSE <<prompt>> \o tools

\* One pass over the visible entries: pending is the prompt whose turn has no
\* terminal entry yet (or nothing), after the turn's entries since.
Project(state, e) ==
    IF e.kind = "compaction_summary"
    THEN [items |-> Append(state.items, e), pending |-> <<>>, after |-> <<>>]
    ELSE IF e.kind = "user_prompt"
    THEN [state EXCEPT !.pending = <<e>>, !.after = <<>>]
    ELSE IF state.pending = <<>>
    THEN state
    ELSE IF e.kind \in Terminals
    THEN [items |-> state.items \o TurnItems(state.pending[1], Append(state.after, e)),
          pending |-> <<>>, after |-> <<>>]
    ELSE [state EXCEPT !.after = Append(@, e)]

\* The items of a request; a prompt that nothing follows is the one to answer.
ModelContextItems(entries) ==
    LET end == FoldLeft(Project, [items |-> <<>>, pending |-> <<>>, after |-> <<>>],
                        VisibleEntries(entries))
    IN IF end.after = <<>> THEN end.items \o end.pending ELSE end.items
=============================================================================
