---------------------------- MODULE SessionStore ----------------------------
(***************************************************************************)
(* The conversation sessions of one workspace in their SQLite database,    *)
(* and the buli processes that have them open: SqliteConversationSession-  *)
(* Store, the command line's wiring of it (chat.ts and the interactive     *)
(* chat's session bindings), and of the engine what decides which entries  *)
(* are appended in which order.                                            *)
(*                                                                         *)
(* Every operation of the store is one immediate transaction, so it is one *)
(* step; steps of different processes interleave, and a process may die    *)
(* between any two of its own.  A process keeps its own copy of the        *)
(* entries, the history its turns read; every append goes to that copy     *)
(* first and then to the database, where it can fail: the session may have *)
(* been deleted by another process, the database locked for longer than    *)
(* its time-out, the disk full.  Taking entries back, which the recovery   *)
(* from a context-window overflow does, happens in the copy alone.         *)
(***************************************************************************)
EXTENDS Integers, HistoryProjection

CONSTANTS
    Processes,       \* buli processes on the workspace
    Sessions,        \* session ids; an id is used once
    NoSession,       \* not a session
    MaxTurns,        \* bound: turns begun, and compactions asked for between turns
    MaxFaults        \* bound: processes that die, and appends that fail though the session is there

ASSUME NoSessionAssumption == NoSession \notin Sessions
ASSUME BoundsAssumption == {MaxTurns, MaxFaults} \subseteq Nat

VARIABLES
    \* the database
    live,        \* rows of conversation_session, least recently updated first
    stored,      \* entries of each session, in the order of entry_sequence
    active,      \* the row of active_conversation_session
    born,        \* session ids used so far
    \* each process
    pc,          \* where it stands
    target,      \* the session its appends go to
    memory,      \* InMemoryConversationHistory
    attempt,     \* the attempt of the turn it runs, see NoAttempt
    clean,       \* history variable: all appends to its target since its load were its own and succeeded
    \* counters and history
    turns,       \* turns begun and compactions asked for
    faults,      \* processes that died, appends that failed
    home         \* the session in which each turn was begun

database == <<live, stored, active, born>>
process  == <<target, memory, attempt, clean>>
ledger   == <<turns, faults, home>>
vars == <<database, process, ledger, pc>>

Turns == 1 .. MaxTurns
Entry(t, k, c) == [turn |-> t, kind |-> k, call |-> c]
Summary == Entry(0, "compaction_summary", 0)

\* snapshot: the entries before the attempt; recorded: its recorder has recorded
\* the prompt; retried: the turn has recovered from an overflow.
NoAttempt == [turn |-> 0, snapshot |-> <<>>, recorded |-> FALSE, retried |-> FALSE]

Prompt(p) == Entry(attempt[p].turn, "user_prompt", 0)
\* A repeated attempt has tool calls of its own.
Call(p) == IF attempt[p].retried THEN -attempt[p].turn ELSE attempt[p].turn

Init ==
    /\ live = <<>>
    /\ stored = [s \in Sessions |-> <<>>]
    /\ active = NoSession
    /\ born = {}
    /\ pc = [p \in Processes |-> "down"]
    /\ target = [p \in Processes |-> NoSession]
    /\ memory = [p \in Processes |-> <<>>]
    /\ attempt = [p \in Processes |-> NoAttempt]
    /\ clean = [p \in Processes |-> TRUE]
    /\ turns = 0
    /\ faults = 0
    /\ home = [t \in Turns |-> NoSession]

IsLive(s) == s \in ToSet(live)

\* The rows but that of s, which is one of them.
OtherRows(s) == RemoveAt(live, CHOOSE i \in DOMAIN live : live[i] = s)

\* Process p goes on at l, with attempt a if it is still in its turn.
Goto(p, l, a) ==
    /\ pc' = [pc EXCEPT ![p] = l]
    /\ attempt' = [attempt EXCEPT ![p] = IF l = "idle" THEN NoAttempt ELSE a]

-----------------------------------------------------------------------------
(* Appending an entry.                                                     *)

\* The entry gets into the database, in session s, which becomes the latest.
StoreIn(s, p, e) ==
    /\ IsLive(s)
    /\ stored' = [stored EXCEPT ![s] = Append(@, e)]
    /\ live' = Append(OtherRows(s), s)
    /\ clean' = [q \in Processes |-> clean[q] /\ (q = p \/ target[q] # s)]
    /\ UNCHANGED <<active, born, faults>>

\* Seeded fault: entries go to the workspace's active session.
StoreInActive(p, e) == StoreIn(active, p, e)

\* appendConversationSessionEntryToSession
Store(p, e) == StoreIn(target[p], p, e)

StoreFails(p) ==
    /\ \/ ~IsLive(target[p]) /\ UNCHANGED faults
       \/ faults < MaxFaults /\ faults' = faults + 1
    /\ clean' = [clean EXCEPT ![p] = FALSE]
    /\ UNCHANGED database

\* Process p appends e to its copy and to the database, and goes on at next with
\* attempt a, or, if the store throws, at error with the attempt as it was.
Record(p, e, next, a, error) ==
    /\ memory' = [memory EXCEPT ![p] = Append(@, e)]
    /\ \/ Store(p, e) /\ Goto(p, next, a)
       \/ StoreFails(p) /\ Goto(p, error, attempt[p])
    /\ UNCHANGED target

-----------------------------------------------------------------------------
(* A turn, reduced to the entries it appends.                              *)

BeginTurn(p) ==
    /\ pc[p] = "idle"
    /\ turns < MaxTurns
    /\ turns' = turns + 1
    /\ home' = [home EXCEPT ![turns + 1] = target[p]]
    /\ Goto(p, "prompt", [NoAttempt EXCEPT !.turn = turns + 1, !.snapshot = memory[p]])
    /\ UNCHANGED <<database, target, memory, clean, faults>>

\* The recorder's flag is set only once the append has returned.
RecordPrompt(p) ==
    /\ pc[p] = "prompt"
    /\ Record(p, Prompt(p), "open", [attempt[p] EXCEPT !.recorded = TRUE], "closing")
    /\ UNCHANGED <<turns, home>>

\* A tool call, and later its result.
RecordTool(p) ==
    LET call   == Entry(attempt[p].turn, "tool_call", Call(p))
        result == Entry(attempt[p].turn, "tool_result", Call(p))
    IN /\ pc[p] = "open"
       /\ result \notin ToSet(memory[p])
       /\ Record(p, IF call \in ToSet(memory[p]) THEN result ELSE call,
                 "open", attempt[p], "closing")
       /\ UNCHANGED <<turns, home>>

RecordAnswer(p) ==
    /\ pc[p] = "open"
    /\ Record(p, Entry(attempt[p].turn, "completed", 0), "idle", NoAttempt, "closing")
    /\ UNCHANGED <<turns, home>>

\* An error or an interruption reaches the turn's catch block.
TurnThrows(p) ==
    /\ pc[p] \in {"prompt", "open", "recovering"}
    /\ Goto(p, "closing", attempt[p])
    /\ UNCHANGED <<database, ledger, target, memory, clean>>

\* The finalizer: the prompt if it is missing, then the terminal entry; an error
\* in here leaves the turn.
CloseTurn(p) ==
    /\ pc[p] = "closing"
    /\ \/ /\ ~attempt[p].recorded
          /\ Record(p, Prompt(p), "closing", [attempt[p] EXCEPT !.recorded = TRUE], "idle")
       \/ /\ attempt[p].recorded
          /\ Record(p, Entry(attempt[p].turn, "failed", 0), "idle", NoAttempt, "idle")
    /\ UNCHANGED <<turns, home>>

\* The consumer of the turn's events leaves.
Abandon(p) ==
    /\ pc[p] = "open"
    /\ Goto(p, "idle", NoAttempt)
    /\ UNCHANGED <<database, ledger, target, memory, clean>>

\* Context-window overflow: the copy goes back to the entries before the attempt
\* (promptSeen: the flag of the recorder then in use), the database does not.
OverflowWith(p, promptSeen) ==
    LET snapshot == attempt[p].snapshot
    IN /\ pc[p] = "open"
       /\ ~attempt[p].retried
       /\ snapshot # <<>>
       /\ memory' = [memory EXCEPT ![p] = snapshot]
       /\ Goto(p, "recovering", [attempt[p] EXCEPT !.recorded = promptSeen, !.retried = TRUE,
                                                   !.snapshot = <<>>])
       /\ UNCHANGED <<database, ledger, target, clean>>

\* Seeded fault: the recorder of the failed attempt stays in use.
OverflowKeepingRecorder(p) == OverflowWith(p, TRUE)

Overflow(p) == OverflowWith(p, FALSE)

\* The summary of the recovery; the attempt is repeated (and takes no snapshot
\* it could go back to).
RecoverySummary(p) ==
    /\ pc[p] = "recovering"
    /\ Record(p, Summary, "prompt", attempt[p], "closing")
    /\ UNCHANGED <<turns, home>>

-----------------------------------------------------------------------------
(* Sessions.                                                               *)

\* Process p takes over session s as the database now has it.
Enter(p, s) ==
    /\ target' = [target EXCEPT ![p] = s]
    /\ memory' = [memory EXCEPT ![p] = stored'[s]]
    /\ clean' = [clean EXCEPT ![p] = TRUE]
    /\ UNCHANGED <<attempt, ledger, pc>>

\* createNewConversationSessionMetadata, the other rows being rows
CreateSession(s, rows) ==
    /\ s \in Sessions \ born
    /\ born' = born \union {s}
    /\ live' = Append(rows, s)
    /\ active' = s

\* A compaction of the session asked for between turns.
Compact(p) ==
    /\ pc[p] = "idle"
    /\ memory[p] # <<>>
    /\ turns < MaxTurns
    /\ turns' = turns + 1
    /\ Record(p, Summary, "idle", NoAttempt, "idle")
    /\ UNCHANGED home

\* startNewConversationSession
NewSession(p) ==
    /\ pc[p] = "idle"
    /\ \E s \in Sessions : CreateSession(s, live) /\ UNCHANGED stored /\ Enter(p, s)

\* switchActiveConversationSession
SwitchSession(p, s) ==
    /\ pc[p] = "idle"
    /\ IsLive(s)
    /\ active' = s
    /\ UNCHANGED <<live, stored, born>>
    /\ Enter(p, s)

\* deleteConversationSession: on goes the process with the active session, else
\* with the one updated last, else with a new one.
DeleteSession(p, s) ==
    LET rows == OtherRows(s)
    IN /\ pc[p] = "idle"
       /\ IsLive(s)
       /\ stored' = [stored EXCEPT ![s] = <<>>]
       /\ \/ /\ active # s
             /\ live' = rows
             /\ UNCHANGED <<active, born>>
          \/ /\ active = s
             /\ rows # <<>>
             /\ live' = rows
             /\ active' = Last(rows)
             /\ UNCHANGED born
          \/ /\ rows = <<>>
             /\ \E new \in Sessions : CreateSession(new, rows)
       /\ Enter(p, active')

\* A process starts: it reads the active session's row, creating one if there is
\* none, and with it whether the session has entries to load.
Open(p) ==
    /\ pc[p] = "down"
    /\ \/ active # NoSession /\ UNCHANGED database
       \/ /\ active = NoSession
          /\ \E s \in Sessions : CreateSession(s, live)
          /\ UNCHANGED stored
    /\ pc' = [pc EXCEPT ![p] = IF stored[active'] = <<>> THEN "idle" ELSE "loading"]
    /\ target' = [target EXCEPT ![p] = active']
    /\ clean' = [clean EXCEPT ![p] = TRUE]
    /\ UNCHANGED <<attempt, ledger, memory>>

\* Then it loads the entries; should the session be gone by now, it ends.
Load(p) ==
    /\ pc[p] = "loading"
    /\ \/ /\ IsLive(target[p])
          /\ pc' = [pc EXCEPT ![p] = "idle"]
          /\ memory' = [memory EXCEPT ![p] = stored[target[p]]]
          /\ UNCHANGED target
       \/ /\ ~IsLive(target[p])
          /\ pc' = [pc EXCEPT ![p] = "down"]
          /\ target' = [target EXCEPT ![p] = NoSession]
          /\ UNCHANGED memory
    /\ clean' = [clean EXCEPT ![p] = TRUE]
    /\ UNCHANGED <<database, attempt, ledger>>

\* The process ends, killed or closed: only the database remains.
Crash(p) ==
    /\ pc[p] # "down"
    /\ faults < MaxFaults
    /\ faults' = faults + 1
    /\ pc' = [pc EXCEPT ![p] = "down"]
    /\ target' = [target EXCEPT ![p] = NoSession]
    /\ memory' = [memory EXCEPT ![p] = <<>>]
    /\ attempt' = [attempt EXCEPT ![p] = NoAttempt]
    /\ clean' = [clean EXCEPT ![p] = TRUE]
    /\ UNCHANGED <<database, turns, home>>

Next ==
    \E p \in Processes :
        \/ BeginTurn(p) \/ RecordPrompt(p) \/ RecordTool(p) \/ RecordAnswer(p)
        \/ TurnThrows(p) \/ CloseTurn(p) \/ Abandon(p)
        \/ Overflow(p) \/ RecoverySummary(p) \/ Compact(p)
        \/ NewSession(p)
        \/ \E s \in Sessions : SwitchSession(p, s) \/ DeleteSession(p, s)
        \/ Open(p) \/ Load(p) \/ Crash(p)

Spec == Init /\ [][Next]_vars

-----------------------------------------------------------------------------
EntriesOfTurns ==
    [turn : Turns \union {0}, call : -MaxTurns .. MaxTurns,
     kind : {"user_prompt", "tool_call", "tool_result", "completed", "failed", "compaction_summary"}]

\* Besides the types: a row per session, and the active one is among them as soon
\* as there is any.
TypeOK ==
    /\ live \in Seq(born)
    /\ IsInjective(live)
    /\ active \in IF live = <<>> THEN {NoSession} ELSE ToSet(live)
    /\ born \subseteq Sessions
    /\ stored \in [Sessions -> Seq(EntriesOfTurns)]
    /\ pc \in [Processes -> {"down", "loading", "idle", "prompt", "open", "closing", "recovering"}]
    /\ target \in [Processes -> Sessions \union {NoSession}]
    /\ memory \in [Processes -> Seq(EntriesOfTurns)]
    /\ attempt \in [Processes -> [turn : Turns \union {0}, snapshot : Seq(EntriesOfTurns),
                                recorded : BOOLEAN, retried : BOOLEAN]]
    /\ clean \in [Processes -> BOOLEAN]
    /\ faults \in 0 .. MaxFaults
    /\ turns \in 0 .. MaxTurns
    /\ home \in [Turns -> Sessions \union {NoSession}]

\* What the model would be shown with one more prompt after these entries.
NextRequest(entries) == ModelContextItems(Append(entries, Entry(0, "user_prompt", 0)))

\* A restart does not change the conversation the model knows: as long as a
\* process alone wrote its session and no append failed, the entries in the
\* database make the same next request as those in memory, at every moment,
\* although a recovery takes entries back in memory only.
RestartTellsTheSameStory ==
    \A p \in Processes :
        /\ pc[p] \notin {"down", "loading"}
        /\ clean[p]
        /\ IsLive(target[p])
        /\ stored[target[p]] # memory[p]
        => NextRequest(stored[target[p]]) = NextRequest(memory[p])

\* An entry is kept with the session in which its turn was begun, in the database
\* and in memory, whatever other processes switch to, create or delete meanwhile.
EntriesStayInTheirSession ==
    LET From(s, entries) == \A e \in ToSet(entries) : e.turn # 0 => home[e.turn] = s
    IN /\ \A s \in Sessions : From(s, stored[s])
       /\ \A p \in Processes : From(target[p], memory[p])
=============================================================================
