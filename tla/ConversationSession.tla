------------------------- MODULE ConversationSession ------------------------
(***************************************************************************)
(* What a conversation session promises the application, without provider, *)
(* tools, approvals or entries: turns run one after the other, never beside*)
(* a compaction of their session; each opens with its prompt, is closed    *)
(* once, with one kind of terminal message, and what the application hears *)
(* at the end is what was recorded.  A turn whose consumer leaves may stay *)
(* open.  The single exception to a log that only grows is the recovery    *)
(* from a context-window overflow: it takes an open turn back and compacts.*)
(***************************************************************************)
EXTENDS Integers

CONSTANT MaxTurns      \* bound: turns in a behaviour

VARIABLES
    latest,        \* number of the latest turn
    running,       \* the latest turn has not ended
    compacting,    \* a compaction of the session is being made
    log,           \* what the session's history says of each turn
    heard          \* what the application heard of each turn's end

sessionVars == <<latest, running, compacting, log, heard>>

ClosedKinds == {"completed", "incomplete", "failed", "interrupted"}

SessionInit ==
    /\ latest = 0
    /\ running = FALSE
    /\ compacting = FALSE
    /\ log = [t \in 1 .. MaxTurns |-> "absent"]
    /\ heard = [t \in 1 .. MaxTurns |-> "none"]

Begin ==
    /\ ~running
    /\ ~compacting
    /\ latest < MaxTurns
    /\ latest' = latest + 1
    /\ running' = TRUE
    /\ UNCHANGED <<compacting, log, heard>>

Open ==
    /\ running
    /\ ~compacting
    /\ log[latest] = "absent"
    /\ log' = [log EXCEPT ![latest] = "open"]
    /\ UNCHANGED <<latest, running, compacting, heard>>

\* A turn may also be closed by the step that ends its recovery.
CloseTurn(k) ==
    /\ running
    /\ log[latest] \in {"absent", "open"}
    /\ log' = [log EXCEPT ![latest] = k]
    /\ compacting' = FALSE
    /\ UNCHANGED <<latest, running, heard>>

\* Overflow recovery takes the open turn back.
Retract ==
    /\ running
    /\ ~compacting
    /\ log[latest] = "open"
    /\ log' = [log EXCEPT ![latest] = "absent"]
    /\ compacting' = TRUE
    /\ UNCHANGED <<latest, running, heard>>

Hear(k) ==
    /\ running
    /\ ~compacting
    /\ k \in {log[latest]} \intersect ClosedKinds \/ k = "abandoned"
    /\ heard' = [heard EXCEPT ![latest] = k]
    /\ running' = FALSE
    /\ UNCHANGED <<latest, compacting, log>>

CompactBegin ==
    /\ ~running
    /\ ~compacting
    /\ \E t \in 1 .. latest : log[t] # "absent"
    /\ compacting' = TRUE
    /\ UNCHANGED <<latest, running, log, heard>>

CompactEnd ==
    /\ compacting
    /\ compacting' = FALSE
    /\ UNCHANGED <<latest, running, log, heard>>

SessionNext ==
    \/ Begin \/ Open \/ Retract \/ CompactBegin \/ CompactEnd
    \/ \E k \in ClosedKinds : CloseTurn(k)
    \/ \E k \in ClosedKinds \union {"abandoned"} : Hear(k)

SessionSpec == SessionInit /\ [][SessionNext]_sessionVars
=============================================================================
