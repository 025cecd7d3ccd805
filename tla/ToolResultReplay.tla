-------------------------- MODULE ToolResultReplay --------------------------
(***************************************************************************)
(* How a request of an OpenAI turn shows the tool results of the turn's    *)
(* earlier steps: exactly, by a reference to the same text in the same     *)
(* request, or, when the environment asks for it, by a reference to an     *)
(* earlier request.  Items are the turn's tool results, oldest first, each *)
(* with its call, its text and whether the text is long enough for a       *)
(* reference (8192 characters); counts is the number of items in each      *)
(* request built so far.                                                   *)
(***************************************************************************)
EXTENDS Integers, SequencesExt

MinimumAge == 2   \* OPENAI_CROSS_STEP_TOOL_RESULT_REFERENCE_MIN_REQUEST_AGE

\* Item i was first sent at least age requests before the one being built.
SentBefore(i, counts, age) ==
    LET first == SelectInSeq(counts, LAMBDA n : n >= i)
    IN first # 0 /\ first <= Len(counts) + 1 - age

\* Seeded fault: a result is referenced as soon as it has been sent once.
SentOnce(i, counts) == SentBefore(i, counts, 1)

IsOldEnough(i, counts) == SentBefore(i, counts, MinimumAge)

\* Each item as the request shows it: exactly, or as a reference of a kind to
\* the text of a call.
Shown(items, counts, crossStep) ==
    LET Show(shown, item) ==
            LET i == Len(shown) + 1
                same == {j \in DOMAIN shown : shown[j].as = "exact" /\ items[j].text = item.text}
            IN Append(shown,
                 CASE item.long /\ crossStep /\ IsOldEnough(i, counts) -> [as |-> "cross_step", of |-> item.call]
                   [] item.long /\ ~(crossStep /\ IsOldEnough(i, counts)) /\ same # {} ->
                            [as |-> "duplicate", of |-> items[Min(same)].call]
                   [] OTHER -> [as |-> "exact", of |-> item.call])
    IN FoldLeft(Show, <<>>, items)
=============================================================================
