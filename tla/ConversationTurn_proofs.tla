---------------------- MODULE ConversationTurn_proofs -----------------------
(***************************************************************************)
(* Theorems about ConversationTurn for every value of its constants: its   *)
(* types, what its steps do to the history and when an approval is asked   *)
(* for; then what the history is at every moment (in order, true to what   *)
(* the consumer of a turn was told, with a result for each call of a       *)
(* finished turn), that it implements ConversationSession, and what the    *)
(* request of a turn tells of the history.                                 *)
(***************************************************************************)
EXTENDS ConversationTurn, HistoryProjection_proofs, TLAPS

\* Points at which a tool call is collected or executed: there is a batch.
BatchPoints == {"aBatch", "yFlush", "yPendingPart", "yRequested", "aDecision",
                "yCleared", "yRunning", "aTool", "yResult", "aSubmit"}

\* What the types alone do not say and every step relies on.
Shape ==
    /\ pc \in BatchPoints => batch # <<>>
    /\ pc \in {"yFinal", "yClosing", "yTerminal"} => closing \in TerminalKinds

TypeInv == TypeOK /\ Shape

USE BoundsAssumption, CallsAssumption, GateAssumption

LEMMA RecordedIsEntry ==
    ASSUME TypeOK, NEW k \in EntryKinds
    PROVE  Recorded(k) \in Entries
BY DEF TypeOK, Recorded, Entry, Entries, Turns

LEMMA CallEntryIsEntry ==
    ASSUME TypeOK, NEW k \in EntryKinds, NEW c \in Calls
    PROVE  CallEntry(k, c) \in Entries
BY DEF TypeOK, CallEntry, Entry, Entries, Turns

LEMMA SummaryIsEntry == Summary \in Entries
BY DEF Summary, Entry, Entries, EntryKinds

\* The parts of TypeInv that the steps of the generator's helpers establish.
TurnTypes ==
    /\ history \in Seq(Entries)
    /\ promptRecorded \in BOOLEAN
    /\ terminalRecorded \in BOOLEAN
    /\ closing \in TerminalKinds \union {"none"}
    /\ pc \in ProgramPoints
    /\ batch \in Seq(Calls)
    /\ carry \in {"none", "events", "completed", "incomplete", "end"}
    /\ Shape
AttemptTypes ==
    /\ observed \in BOOLEAN
    /\ snapshot \in Seq(Entries)
    /\ retried \in BOOLEAN
CompactorTypes ==
    /\ compaction \in {"idle", "manual", "recovery"}
    /\ selected \in Nat
    /\ compactions \in 0 .. MaxCompactions
OtherTypes ==
    /\ turn \in 0 .. MaxTurns
    /\ outcome \in [Turns -> TerminalKinds \union {"none", "abandoned"}]
    /\ interrupted \in BOOLEAN
GateTypes ==
    /\ approval \in Calls \union {NoCall}
    /\ decision \in Decisions
    /\ granted \in SUBSET Calls

LEMMA TypeInvParts ==
    TypeInv <=> TurnTypes /\ AttemptTypes /\ CompactorTypes /\ OtherTypes /\ GateTypes
BY DEF TypeInv, TypeOK, TurnTypes, AttemptTypes, CompactorTypes, OtherTypes, GateTypes

LEMMA TypeInvNextParts ==
    /\ TypeInv' => TurnTypes' /\ AttemptTypes' /\ CompactorTypes' /\ OtherTypes' /\ GateTypes'
    /\ TurnTypes' /\ AttemptTypes' /\ CompactorTypes' /\ OtherTypes' /\ GateTypes' => TypeInv'
BY DEF TypeInv, TypeOK, TurnTypes, AttemptTypes, CompactorTypes, OtherTypes, GateTypes

LEMMA CloseTypes ==
    ASSUME TypeInv, NEW h \in Seq(Entries), NEW k \in TerminalKinds, Close(h, k)
    PROVE  TurnTypes'
<1>1. Recorded("user_prompt") \in Entries /\ Recorded(k) \in Entries
  BY RecordedIsEntry DEF EntryKinds, TypeInv
<1>2. (IF promptRecorded THEN h ELSE Append(h, Recorded("user_prompt"))) \in Seq(Entries)
  BY <1>1
<1>3. history' \in Seq(Entries)
  BY <1>1, <1>2 DEF Close
<1> QED
  BY <1>3 DEF Close, EmitTerminal, TurnTypes, Shape, BatchPoints, ProgramPoints, Yields

LEMMA EndTypes ==
    ASSUME TypeInv, EndBeforeCompletion
    PROVE  TurnTypes'
<1>1. Recorded("failed") \in Entries
  BY RecordedIsEntry DEF EntryKinds, TerminalKinds, TypeInv
<1>2. history' \in Seq(Entries)
  BY <1>1 DEF EndBeforeCompletion, TypeInv, TypeOK
<1> QED
  BY <1>2 DEF EndBeforeCompletion, EmitTerminal, TypeInv, TypeOK, TurnTypes, Shape, BatchPoints,
              ProgramPoints, Yields, TerminalKinds

LEMMA ThrowTypes ==
    ASSUME TypeInv, NEW e, Throw(e)
    PROVE  TurnTypes' /\ AttemptTypes' /\ CompactorTypes'
<1>1. CASE e = "overflow" /\ CanRecover
  <2>1. RecoverFrom(snapshot, FALSE)
    BY <1>1 DEF Throw, Recover
  <2>2. TurnTypes'
    <3>1. history' \in Seq(Entries) /\ batch' \in Seq(Calls)
      BY <2>1 DEF RecoverFrom, TypeInv, TypeOK
    <3>2. pc' \in ProgramPoints /\ Shape'
      BY <2>1 DEF RecoverFrom, Shape, BatchPoints, ProgramPoints, Awaits
    <3> QED
      BY <2>1, <3>1, <3>2 DEF RecoverFrom, TypeInv, TypeOK, TurnTypes
  <2>3. AttemptTypes' /\ CompactorTypes'
    BY <2>1 DEF RecoverFrom, TypeInv, TypeOK, AttemptTypes, CompactorTypes
  <2> QED BY <2>2, <2>3
<1>2. CASE ~(e = "overflow" /\ CanRecover)
  <2>1. PICK k \in TerminalKinds : Close(history, k)
    BY <1>2 DEF Throw, TerminalKinds
  <2>2. TurnTypes'
    BY <2>1, CloseTypes DEF TypeInv, TypeOK
  <2> QED
    BY <1>2, <2>2, TypeInvParts DEF Throw, compactor, attempt, AttemptTypes, CompactorTypes
<1> QED BY <1>1, <1>2

LEMMA BeginAttemptTypes ==
    ASSUME TypeInv, NEW h \in Seq(Entries), BeginAttempt(h)
    PROVE  TurnTypes' /\ AttemptTypes'
<1>1. AttemptTypes'
  BY DEF BeginAttempt, AttemptTypes, TypeInv, TypeOK
<1>2. CASE interrupted
  BY <1>1, <1>2, CloseTypes DEF BeginAttempt, TerminalKinds
<1>3. CASE ~interrupted
  BY <1>1, <1>3 DEF BeginAttempt, stream, TypeInv, TypeOK, TurnTypes, Shape, BatchPoints,
                    ProgramPoints, Awaits
<1> QED BY <1>2, <1>3 DEF TypeInv, TypeOK

LEMMA StartCallTypes ==
    ASSUME TypeInv, NEW b \in Seq(Calls), b # <<>>, StartCall(b),
           carry' \in {"none", "events", "completed", "incomplete", "end"}
    PROVE  TurnTypes'
<1>1. Head(b) \in Calls
  OBVIOUS
<1>2. CallEntry("tool_call", Head(b)) \in Entries /\ CallEntry("tool_result", Head(b)) \in Entries
  BY <1>1, CallEntryIsEntry DEF EntryKinds, TypeInv
<1>3. history' \in Seq(Entries)
  BY <1>2 DEF StartCall, TypeInv, TypeOK
<1>4. pc' \in {"yRunning", "yPendingPart", "yResult"}
  BY <1>1 DEF StartCall, FirstYield, GateKinds
<1> QED
  BY <1>3, <1>4 DEF StartCall, TypeInv, TypeOK, TurnTypes, Shape, BatchPoints, ProgramPoints, Yields

LEMMA AfterBatchTypes ==
    ASSUME TypeInv, AfterBatch
    PROVE  TurnTypes' /\ AttemptTypes'
<1>1. CASE carry = "end" /\ EndBeforeCompletion /\ UNCHANGED attempt
  BY <1>1, EndTypes, TypeInvParts DEF attempt, AttemptTypes
<1>2. CASE carry # "end"
  <2>1. AttemptTypes'
    BY <1>2 DEF AfterBatch, attempt, TypeInv, TypeOK, AttemptTypes
  <2>2. UNCHANGED session /\ batch' = <<>> /\ carry' = "none"
    BY <1>2 DEF AfterBatch
  <2>3. /\ pc' \in {"aProvider", "yEvents", "yFinal"}
        /\ closing' \in TerminalKinds \union {"none"}
        /\ pc' = "yFinal" => closing' \in TerminalKinds
    BY <1>2 DEF AfterBatch, TypeInv, TypeOK, TerminalKinds
  <2>4. TurnTypes'
    BY <2>2, <2>3 DEF session, TypeInv, TypeOK, TurnTypes, Shape, BatchPoints, ProgramPoints,
                      Yields, Awaits
  <2> QED BY <2>1, <2>4
<1> QED BY <1>1, <1>2 DEF AfterBatch

-----------------------------------------------------------------------------
(* Type correctness.                                                       *)

LEMMA TypeInvInit == Init => TypeInv
<1> SUFFICES ASSUME Init PROVE TypeInv
  OBVIOUS
<1>1. <<>> \in Seq(Entries) /\ <<>> \in Seq(Calls)
  OBVIOUS
<1>2. TurnTypes
  BY <1>1 DEF Init, TurnTypes, Shape, BatchPoints, ProgramPoints
<1>3. AttemptTypes /\ GateTypes
  BY <1>1 DEF Init, AttemptTypes, GateTypes, Decisions
<1>4. 0 \in 0 .. MaxCompactions /\ 0 \in 0 .. MaxTurns
  OBVIOUS
<1>5. CompactorTypes /\ turn \in 0 .. MaxTurns /\ interrupted \in BOOLEAN
  BY <1>4 DEF Init, CompactorTypes
<1>6. outcome \in [Turns -> TerminalKinds \union {"none", "abandoned"}]
  BY DEF Init
<1> QED BY <1>2, <1>3, <1>4, <1>5, <1>6, TypeInvParts DEF OtherTypes

LEMMA FinishTypes ==
    ASSUME TypeInv, NEW o \in TerminalKinds \union {"abandoned"}, Finish(o)
    PROVE  TypeInv'
<1>1. history' \in Seq(Entries) /\ batch' \in Seq(Calls) /\ snapshot' \in Seq(Entries)
  BY DEF Finish, TypeInv, TypeOK
<1>2. TurnTypes' /\ AttemptTypes'
  BY <1>1 DEF Finish, TurnTypes, AttemptTypes, Shape, BatchPoints, ProgramPoints
<1>3. CompactorTypes' /\ GateTypes' /\ OtherTypes'
  BY DEF Finish, compactor, TypeInv, TypeOK, CompactorTypes, GateTypes, OtherTypes, Decisions
<1> QED BY <1>2, <1>3, TypeInvNextParts

\* A step that moves the generator on without touching what it has collected.
LEMMA MoveTypes ==
    ASSUME TypeInv, UNCHANGED <<session, stream, closing>>, pc' \in ProgramPoints, Shape'
    PROVE  TurnTypes'
BY DEF session, stream, TypeInv, TypeOK, TurnTypes

LEMMA TypeInvTurnStep == TypeInv /\ TurnStep => TypeInv'
<1> SUFFICES ASSUME TypeInv, TurnStep PROVE TypeInv'
  OBVIOUS
<1> USE DEF ledger, gatekeeper
<1>a. UNCHANGED <<ledger, interrupted>> => OtherTypes'
  BY DEF TypeInv, TypeOK, OtherTypes
<1>b. UNCHANGED gatekeeper => GateTypes'
  BY DEF TypeInv, TypeOK, GateTypes
<1>c. UNCHANGED compactor => CompactorTypes'
  BY DEF TypeInv, TypeOK, CompactorTypes, compactor
<1>d. UNCHANGED attempt => AttemptTypes'
  BY DEF TypeInv, TypeOK, AttemptTypes, attempt
<1>e. /\ UNCHANGED <<session, compactor, ledger, gatekeeper, stream, attempt, interrupted, closing>>
      /\ pc' \in ProgramPoints
      /\ Shape'
      => TypeInv'
  BY <1>a, <1>b, <1>c, <1>d, MoveTypes, TypeInvNextParts
<1>f. ASSUME NEW e, Throw(e), UNCHANGED <<ledger, interrupted>>, GateTypes' PROVE TypeInv'
  BY <1>a, <1>f, ThrowTypes, TypeInvNextParts
<1>1. CASE StreamStart
  BY <1>1, <1>e DEF StreamStart, Shape, BatchPoints, ProgramPoints, Yields
<1>2. CASE ResumeStarted
  BY <1>2, <1>a, <1>b, <1>c, BeginAttemptTypes, TypeInvNextParts DEF ResumeStarted, TypeInv, TypeOK
<1>3. CASE PromptReady
  <2>1. CASE interrupted
    BY <1>3, <2>1, <1>b, <1>f DEF PromptReady
  <2>2. CASE ~interrupted
    <3>1. Recorded("user_prompt") \in Entries
      BY RecordedIsEntry DEF EntryKinds, TypeInv
    <3>2. history' \in Seq(Entries)
      <4>1. history \in Seq(Entries)
        BY DEF TypeInv, TypeOK
      <4>2. history' = history \/ history' = Append(history, Recorded("user_prompt"))
        BY <1>3, <2>2 DEF PromptReady
      <4> QED BY <3>1, <4>1, <4>2
    <3>3. TurnTypes'
      BY <1>3, <2>2, <3>2 DEF PromptReady, stream, TypeInv, TypeOK, TurnTypes, Shape, BatchPoints,
                              ProgramPoints, Awaits
    <3> QED BY <1>3, <2>2, <3>3, <1>a, <1>b, <1>c, <1>d, TypeInvNextParts DEF PromptReady
  <2> QED BY <2>1, <2>2 DEF TypeInv, TypeOK
<1>4. CASE PromptFails
  BY <1>4, <1>b, <1>f DEF PromptFails
<1>5. CASE ReceiveAfterInterrupt
  BY <1>5, <1>b, <1>f DEF ReceiveAfterInterrupt
<1>6. CASE ReceiveEvents
  <2>1. TurnTypes'
    BY <1>6, MoveTypes DEF ReceiveEvents, Shape, BatchPoints, ProgramPoints, Yields
  <2>2. AttemptTypes'
    BY <1>6 DEF ReceiveEvents, AttemptTypes, TypeInv, TypeOK
  <2> QED BY <1>6, <2>1, <2>2, <1>a, <1>b, <1>c, TypeInvNextParts DEF ReceiveEvents
<1>7. ASSUME NEW k \in {"completed", "incomplete"}, ReceiveTerminal(k) PROVE TypeInv'
  <2>1. TurnTypes'
    BY <1>7 DEF ReceiveTerminal, session, stream, TypeInv, TypeOK, TurnTypes, TerminalKinds, Shape,
                BatchPoints, ProgramPoints, Yields
  <2>2. AttemptTypes'
    BY <1>7 DEF ReceiveTerminal, AttemptTypes, TypeInv, TypeOK
  <2> QED BY <1>7, <2>1, <2>2, <1>a, <1>b, <1>c, TypeInvNextParts DEF ReceiveTerminal
<1>8. CASE ProviderEnds
  BY <1>8, <1>a, <1>b, <1>c, <1>d, EndTypes, TypeInvNextParts DEF ProviderEnds
<1>9. ASSUME NEW e \in Errors, ProviderThrows(e) PROVE TypeInv'
  BY <1>9, <1>b, <1>f DEF ProviderThrows
<1>10. ASSUME NEW c \in Calls, ReceiveCall(c) PROVE TypeInv'
  <2>1. batch' \in Seq(Calls) /\ batch' # <<>>
    BY <1>10 DEF ReceiveCall, TypeInv, TypeOK
  <2>2. TurnTypes'
    BY <1>10, <2>1 DEF ReceiveCall, session, TypeInv, TypeOK, TurnTypes, Shape, ProgramPoints, Awaits
  <2> QED BY <1>10, <2>2, <1>a, <1>b, <1>c, <1>d, TypeInvNextParts DEF ReceiveCall
<1>11. ASSUME pc \in BatchPoints, ExecuteBatch,
              carry' \in {"none", "events", "completed", "incomplete", "end"}
       PROVE  TurnTypes' /\ UNCHANGED <<snapshot, retried>>
  <2>1. batch \in Seq(Calls) /\ batch # <<>>
    BY <1>11 DEF TypeInv, TypeOK, Shape
  <2>2. CASE StartCall(batch)
    BY <1>11, <2>1, <2>2, StartCallTypes DEF ExecuteBatch
  <2>3. CASE pc' = "yFlush" /\ UNCHANGED <<session, batch, snapshot, retried, closing>>
    BY <1>11, <2>1, <2>3 DEF session, TypeInv, TypeOK, TurnTypes, Shape, ProgramPoints, Yields
  <2> QED BY <1>11, <2>2, <2>3 DEF ExecuteBatch
<1>12. CASE WindowElapsed
  <2>1. TurnTypes' /\ UNCHANGED <<snapshot, retried>>
    BY <1>12, <1>11 DEF WindowElapsed, BatchPoints, TypeInv, TypeOK
  <2> QED BY <1>12, <2>1, <1>a, <1>b, <1>c, <1>d, TypeInvNextParts DEF WindowElapsed, attempt
<1>13. ASSUME NEW k \in {"events", "completed", "incomplete", "end"}, ReadAhead(k) PROVE TypeInv'
  <2>1. TurnTypes' /\ UNCHANGED <<snapshot, retried>>
    BY <1>13, <1>11 DEF ReadAhead, BatchPoints
  <2>2. AttemptTypes'
    BY <1>13, <2>1 DEF ReadAhead, TypeInv, TypeOK, AttemptTypes
  <2> QED BY <1>13, <2>1, <2>2, <1>a, <1>b, <1>c, TypeInvNextParts DEF ReadAhead
<1>14. CASE ResumeFlush
  <2>1. TurnTypes'
    BY <1>14, StartCallTypes DEF ResumeFlush, TypeInv, TypeOK, Shape, BatchPoints
  <2> QED BY <1>14, <2>1, <1>a, <1>b, <1>c, <1>d, TypeInvNextParts DEF ResumeFlush
<1>15. CASE ResumeEvents
  BY <1>15, <1>e DEF ResumeEvents, Shape, BatchPoints, ProgramPoints, Awaits
<1>16. CASE ResumePendingPart
  <2>1. TurnTypes'
    BY <1>16, MoveTypes DEF ResumePendingPart, TypeInv, Shape, BatchPoints, ProgramPoints, Yields, stream
  <2>2. Head(batch) \in Calls
    BY <1>16 DEF ResumePendingPart, TypeInv, TypeOK, Shape, BatchPoints
  <2>3. GateTypes'
    BY <1>16, <2>2 DEF ResumePendingPart, TypeInv, TypeOK, GateTypes, Decisions
  <2> QED BY <1>16, <2>1, <2>3, <1>a, <1>c, <1>d, TypeInvNextParts DEF ResumePendingPart
<1>17. CASE ResumeRequested
  BY <1>17, <1>e DEF ResumeRequested, TypeInv, Shape, BatchPoints, ProgramPoints, Awaits, stream
<1>18. CASE DecisionArrives
  BY <1>18, <1>e DEF DecisionArrives, TypeInv, Shape, BatchPoints, ProgramPoints, Yields, stream
<1>19. ASSUME pc \in BatchPoints,
              history' = Append(history, CallEntry("tool_result", Head(batch))), pc' = "yResult",
              UNCHANGED <<promptRecorded, terminalRecorded, stream, closing>>
       PROVE  TurnTypes'
  <2>1. Head(batch) \in Calls
    BY <1>19 DEF TypeInv, TypeOK, Shape
  <2>a. CallEntry("tool_result", Head(batch)) \in Entries
    BY <2>1, CallEntryIsEntry DEF TypeInv, EntryKinds
  <2>2. history' \in Seq(Entries)
    BY <1>19, <2>a DEF TypeInv, TypeOK
  <2> QED
    BY <1>19, <2>2 DEF stream, TypeInv, TypeOK, TurnTypes, Shape, BatchPoints, ProgramPoints, Yields
<1>20. CASE ResumeCleared
  <2>1. CASE decision = "interrupted"
    BY <1>20, <2>1, <1>b, <1>f DEF ResumeCleared, ActOnDecision
  <2>2. CASE decision = "denied"
    <3>1. /\ pc \in BatchPoints
          /\ history' = Append(history, CallEntry("tool_result", Head(batch)))
          /\ pc' = "yResult"
          /\ UNCHANGED <<promptRecorded, terminalRecorded, stream, closing>>
      BY <1>20, <2>2 DEF ResumeCleared, ActOnDecision, BatchPoints
    <3>2. UNCHANGED <<attempt, compactor, ledger, gatekeeper, interrupted>>
      BY <1>20, <2>2 DEF ResumeCleared, ActOnDecision
    <3> QED BY <3>1, <3>2, <1>19, <1>a, <1>b, <1>c, <1>d, TypeInvNextParts
  <2>3. CASE decision = "approved"
    BY <1>20, <2>3, <1>e DEF ResumeCleared, ActOnDecision, TypeInv, Shape, BatchPoints,
                             ProgramPoints, Yields, stream
  <2> QED BY <1>20, <2>1, <2>2, <2>3 DEF ResumeCleared, ActOnDecision
<1>21. CASE ResumeRunning
  <2>1. CASE interrupted
    BY <1>21, <2>1, <1>b, <1>f DEF ResumeRunning
  <2>2. CASE ~interrupted
    BY <1>21, <2>2, <1>e DEF ResumeRunning, TypeInv, Shape, BatchPoints, ProgramPoints, Awaits, stream
  <2> QED BY <2>1, <2>2 DEF TypeInv, TypeOK
<1>22. CASE ToolReturns
  <2>1. GateTypes'
    BY <1>22 DEF ToolReturns, TypeInv, TypeOK, GateTypes
  <2>2. CASE interrupted
    BY <1>22, <2>1, <2>2, <1>f DEF ToolReturns
  <2>3. CASE ~interrupted
    BY <1>22, <2>1, <2>3, <1>19, <1>a, <1>c, <1>d, TypeInvNextParts DEF ToolReturns, BatchPoints
  <2> QED BY <2>2, <2>3 DEF TypeInv, TypeOK
<1>23. CASE ToolThrows
  BY <1>23, <1>b, <1>f DEF ToolThrows
<1>24. CASE ResumeResult
  BY <1>24, <1>e DEF ResumeResult, TypeInv, Shape, BatchPoints, ProgramPoints, Awaits, stream
<1>25. CASE SubmitDone
  <2>1. Tail(batch) \in Seq(Calls)
    BY <1>25 DEF SubmitDone, TypeInv, TypeOK, Shape, BatchPoints
  <2>2. CASE Tail(batch) # <<>>
    <3>1. TurnTypes'
      BY <1>25, <2>1, <2>2, StartCallTypes DEF SubmitDone, TypeInv, TypeOK
    <3> QED BY <1>25, <2>2, <3>1, <1>a, <1>b, <1>c, <1>d, TypeInvNextParts DEF SubmitDone
  <2>3. CASE Tail(batch) = <<>>
    BY <1>25, <2>3, AfterBatchTypes, <1>a, <1>b, <1>c, TypeInvNextParts DEF SubmitDone
  <2> QED BY <2>2, <2>3
<1>26. CASE SubmitFails
  BY <1>26, <1>b, <1>f DEF SubmitFails
<1>27. CASE RecoveryDone
  <2>1. Append(history, Summary) \in Seq(Entries)
    BY SummaryIsEntry DEF TypeInv, TypeOK
  <2>2. TurnTypes' /\ AttemptTypes'
    BY <1>27, <2>1, BeginAttemptTypes DEF RecoveryDone
  <2>3. CompactorTypes'
    BY <1>27 DEF RecoveryDone, TypeInv, TypeOK, CompactorTypes
  <2> QED BY <1>27, <2>2, <2>3, <1>a, <1>b, TypeInvNextParts DEF RecoveryDone
<1>28. CASE RecoveryFails
  <2>1. TurnTypes'
    <3>1. PICK k \in TerminalKinds : Close(history, k)
      BY <1>28 DEF RecoveryFails, TerminalKinds
    <3> QED BY <3>1, CloseTypes DEF TypeInv, TypeOK
  <2>2. CompactorTypes'
    BY <1>28 DEF RecoveryFails, TypeInv, TypeOK, CompactorTypes
  <2> QED BY <1>28, <2>1, <2>2, <1>a, <1>b, <1>d, TypeInvNextParts DEF RecoveryFails
<1>29. CASE ResumeFinal
  <2>1. history' \in Seq(Entries)
    <3>1. Recorded(closing) \in Entries
      BY <1>29, RecordedIsEntry DEF ResumeFinal, TypeInv, Shape, EntryKinds
    <3> QED BY <1>29, <3>1 DEF ResumeFinal, TypeInv, TypeOK
  <2>2. TurnTypes'
    BY <1>29, <2>1 DEF ResumeFinal, stream, TypeInv, TypeOK, TurnTypes, Shape, BatchPoints,
                       ProgramPoints, Yields
  <2> QED BY <1>29, <2>2, <1>a, <1>b, <1>c, <1>d, TypeInvNextParts DEF ResumeFinal
<1>30. CASE ResumeClosing
  BY <1>30, <1>e DEF ResumeClosing, TypeInv, Shape, BatchPoints, ProgramPoints, Yields
<1>31. CASE ResumeTerminal
  BY <1>31, FinishTypes DEF ResumeTerminal, TypeInv, Shape
<1> QED
  BY <1>1, <1>2, <1>3, <1>4, <1>5, <1>6, <1>7, <1>8, <1>9, <1>10, <1>12, <1>13, <1>14, <1>15,
     <1>16, <1>17, <1>18, <1>20, <1>21, <1>22, <1>23, <1>24, <1>25, <1>26, <1>27, <1>28, <1>29,
     <1>30, <1>31
  DEF TurnStep, ProviderStops

LEMMA TypeInvStep == TypeInv /\ [Next]_vars => TypeInv'
<1> SUFFICES ASSUME TypeInv, [Next]_vars PROVE TypeInv'
  OBVIOUS
<1> USE DEF session, compactor, ledger, gatekeeper, stream, attempt
<1>1. CASE TurnStep
  BY <1>1, TypeInvTurnStep
<1>2. CASE StartTurn
  BY <1>2 DEF StartTurn, TypeInv, TypeOK, Shape, BatchPoints, ProgramPoints
<1>3. CASE Interrupt
  BY <1>3 DEF Interrupt, TypeInv, TypeOK, Shape, Decisions
<1>4. CASE UserDecides
  <2>1. PICK c \in Calls, d \in {"approved", "denied"} : Decide(c, d)
    BY <1>4 DEF UserDecides
  <2>2. approval' \in Calls \union {NoCall} /\ decision' \in Decisions /\ granted' \in SUBSET Calls
    BY <2>1 DEF Decide, TypeInv, TypeOK, Decisions
  <2> QED BY <2>1, <2>2 DEF Decide, TypeInv, TypeOK, Shape
<1>5. CASE Abandon
  BY <1>5, FinishTypes DEF Abandon
<1>6. CASE CompactStart
  <2>1. selected' \in Nat /\ compactions' \in 0 .. MaxCompactions
    BY <1>6 DEF CompactStart, TypeInv, TypeOK
  <2> QED BY <1>6, <2>1 DEF CompactStart, TypeInv, TypeOK, Shape
<1>7. CASE CompactDone
  <2>1. history' \in Seq(Entries)
    BY <1>7, SummaryIsEntry DEF CompactDone, TypeInv, TypeOK
  <2> QED BY <1>7, <2>1 DEF CompactDone, TypeInv, TypeOK, Shape
<1>8. CASE CompactFails
  BY <1>8 DEF CompactFails, TypeInv, TypeOK, Shape
<1>9. CASE UNCHANGED vars
  BY <1>9 DEF vars, TypeInv, TypeOK, Shape
<1> QED
  BY <1>1, <1>2, <1>3, <1>4, <1>5, <1>6, <1>7, <1>8, <1>9 DEF Next, CompactorStep, Rest

LEMMA TypeInvariant == Spec => []TypeInv
BY TypeInvInit, TypeInvStep, PTL DEF Spec

\* Every state of the engine has the types the source declares: whatever the
\* provider streams, in whatever order the user interrupts and answers.
THEOREM TypeCorrect == Spec => []TypeOK
<1>1. TypeInv => TypeOK
  BY DEF TypeInv
<1> QED BY <1>1, TypeInvariant, PTL

-----------------------------------------------------------------------------
(* What the steps of a turn do to the history and to the compactor.        *)

\* h is g with entries of the running turn added.
AddsToTurn(g, h) ==
    /\ Len(g) <= Len(h)
    /\ \A i \in 1 .. Len(g) : h[i] = g[i]
    /\ \A i \in Len(g) + 1 .. Len(h) : h[i].turn = turn

LEMMA AddsNothing == \A g \in Seq(Entries) : AddsToTurn(g, g)
BY DEF AddsToTurn

LEMMA AppendAdds ==
    ASSUME NEW g \in Seq(Entries), NEW h \in Seq(Entries), NEW e \in Entries,
           AddsToTurn(g, h), e.turn = turn
    PROVE  AddsToTurn(g, Append(h, e))
<1>1. Len(Append(h, e)) = Len(h) + 1 /\ Append(h, e)[Len(h) + 1] = e
  OBVIOUS
<1>2. \A i \in 1 .. Len(h) : Append(h, e)[i] = h[i]
  OBVIOUS
<1> HIDE DEF Entries
<1>3. Len(g) \in Nat /\ Len(h) \in Nat
  OBVIOUS
<1>4. \A i \in 1 .. Len(g) : Append(h, e)[i] = g[i]
  BY <1>2, <1>3 DEF AddsToTurn
<1>5. ASSUME NEW i \in Len(g) + 1 .. Len(Append(h, e)) PROVE Append(h, e)[i].turn = turn
  <2>1. CASE i \in Len(g) + 1 .. Len(h)
    BY <1>2, <1>3, <2>1 DEF AddsToTurn
  <2>2. CASE i = Len(h) + 1
    BY <1>1, <2>2
  <2> QED BY <1>1, <1>3, <2>1, <2>2
<1> QED BY <1>1, <1>3, <1>4, <1>5 DEF AddsToTurn

LEMMA PrefixByElements ==
    ASSUME NEW s \in Seq(Entries), NEW t \in Seq(Entries), Len(s) <= Len(t),
           \A i \in 1 .. Len(s) : t[i] = s[i]
    PROVE  IsPrefix(s, t)
<1>1. SubSeq(s, 1, Len(s)) = SubSeq(t, 1, Len(s))
  OBVIOUS
<1> QED BY <1>1 DEF IsPrefix

LEMMA RecordedAdds ==
    ASSUME TypeInv, NEW g \in Seq(Entries), NEW h \in Seq(Entries), NEW k \in EntryKinds,
           NEW c \in Calls \union {NoCall}, AddsToTurn(g, h)
    PROVE  Append(h, Entry(turn, k, c)) \in Seq(Entries) /\ AddsToTurn(g, Append(h, Entry(turn, k, c)))
<1>1. Entry(turn, k, c) \in Entries /\ Entry(turn, k, c).turn = turn
  BY DEF TypeInv, TypeOK, Entry, Entries, Turns
<1> QED BY <1>1, AppendAdds

LEMMA CloseAdds ==
    ASSUME TypeInv, NEW h \in Seq(Entries), NEW k \in TerminalKinds, Close(h, k)
    PROVE  AddsToTurn(h, history') /\ pc' \in {"yClosing", "yTerminal"}
<1> DEFINE opened == IF promptRecorded THEN h ELSE Append(h, Recorded("user_prompt"))
<1>1. opened \in Seq(Entries) /\ AddsToTurn(h, opened)
  BY AddsNothing, RecordedAdds DEF Recorded, EntryKinds
<1>2. Append(opened, Recorded(k)) \in Seq(Entries) /\ AddsToTurn(h, Append(opened, Recorded(k)))
  BY <1>1, RecordedAdds DEF Recorded, EntryKinds
<1>3. history' = opened \/ history' = Append(opened, Recorded(k))
  BY DEF Close
<1> QED BY <1>1, <1>2, <1>3 DEF Close, EmitTerminal

LEMMA BeginAdds ==
    ASSUME TypeInv, NEW h \in Seq(Entries), BeginAttempt(h)
    PROVE  snapshot' = h /\ AddsToTurn(h, history') /\ pc' \in {"aPrompt", "yClosing", "yTerminal"}
<1>1. CASE interrupted
  BY <1>1, CloseAdds DEF BeginAttempt, TerminalKinds
<1>2. CASE ~interrupted
  BY <1>2, AddsNothing DEF BeginAttempt
<1> QED BY <1>1, <1>2

LEMMA EndAdds ==
    ASSUME TypeInv, EndBeforeCompletion
    PROVE  AddsToTurn(history, history') /\ pc' \in {"yClosing", "yTerminal"}
<1>1. AddsToTurn(history, history) /\ AddsToTurn(history, Append(history, Recorded("failed")))
  BY AddsNothing, RecordedAdds DEF Recorded, EntryKinds, TerminalKinds, TypeInv, TypeOK
<1>2. history' = history \/ history' = Append(history, Recorded("failed"))
  BY DEF EndBeforeCompletion
<1> QED BY <1>1, <1>2 DEF EndBeforeCompletion, EmitTerminal

\* The generator works on an attempt, whose snapshot is taken.
Working == pc \notin {"none", "created", "yStarted", "aRecovery"}

\* The kinds of steps a turn takes.
Works ==
    /\ Working
    /\ Working'
    /\ AddsToTurn(history, history')
    /\ UNCHANGED <<snapshot, compactor, turn>>
Retries ==
    /\ Working
    /\ CanRecover
    /\ Recover
    /\ UNCHANGED turn
Starts ==
    /\ pc = "created"
    /\ pc' = "yStarted"
    /\ UNCHANGED <<history, compactor, turn>>
Begins ==
    /\ pc = "yStarted"
    /\ BeginAttempt(history)
    /\ UNCHANGED <<compactor, turn>>
Recovers ==
    /\ pc = "aRecovery"
    /\ compaction' = "idle"
    /\ UNCHANGED turn
    /\ \/ BeginAttempt(Append(history, Summary))
       \/ UNCHANGED snapshot /\ \E k \in TerminalKinds : Close(history, k)
Ends ==
    /\ ResumeTerminal
    /\ Working
    /\ pc' = "none"
    /\ UNCHANGED <<history, compactor, turn>>

LEMMA ThrowEffect ==
    ASSUME TypeInv, Working, NEW e, Throw(e), UNCHANGED turn
    PROVE  Works \/ Retries
<1>1. CASE e = "overflow" /\ CanRecover
  BY <1>1 DEF Throw, Retries
<1>2. CASE ~(e = "overflow" /\ CanRecover)
  <2>1. PICK k \in TerminalKinds : Close(history, k)
    BY <1>2 DEF Throw, TerminalKinds
  <2>2. AddsToTurn(history, history') /\ pc' \in {"yClosing", "yTerminal"}
    BY <2>1, CloseAdds DEF TypeInv, TypeOK
  <2> QED BY <1>2, <2>2 DEF Throw, Works, Working, attempt, compactor
<1> QED BY <1>1, <1>2

LEMMA StartCallAdds ==
    ASSUME TypeInv, NEW b \in Seq(Calls), b # <<>>, StartCall(b)
    PROVE  AddsToTurn(history, history') /\ pc' \in {"yRunning", "yPendingPart", "yResult"}
<1>1. Head(b) \in Calls
  OBVIOUS
<1> DEFINE started == Append(history, CallEntry("tool_call", Head(b)))
<1>2. started \in Seq(Entries) /\ AddsToTurn(history, started)
  BY <1>1, AddsNothing, RecordedAdds DEF CallEntry, EntryKinds, TypeInv, TypeOK
<1>3. AddsToTurn(history, Append(started, CallEntry("tool_result", Head(b))))
  BY <1>1, <1>2, RecordedAdds DEF CallEntry, EntryKinds, TypeInv, TypeOK
<1>4. history' = started \/ history' = Append(started, CallEntry("tool_result", Head(b)))
  BY DEF StartCall
<1>5. pc' \in {"yRunning", "yPendingPart", "yResult"}
  BY <1>1 DEF StartCall, FirstYield, GateKinds
<1> QED BY <1>2, <1>3, <1>4, <1>5

LEMMA TurnEffect ==
    ASSUME TypeInv, TurnStep
    PROVE  Works \/ Retries \/ Starts \/ Begins \/ Recovers \/ Ends
<1> USE DEF ledger, compactor, attempt
<1>a. AddsToTurn(history, history)
  BY AddsNothing DEF TypeInv, TypeOK
<1>b. /\ UNCHANGED <<history, snapshot, compactor, turn>>
      /\ Working
      /\ Working'
      => Works
  BY <1>a DEF Works, AddsToTurn
<1>c. ASSUME NEW e, Throw(e), Working, UNCHANGED turn PROVE Works \/ Retries
  BY <1>c, ThrowEffect
<1>d. history \in Seq(Entries) /\ batch \in Seq(Calls)
  BY DEF TypeInv, TypeOK
<1>1. CASE StreamStart
  BY <1>1 DEF StreamStart, Starts, session
<1>2. CASE ResumeStarted
  BY <1>2 DEF ResumeStarted, Begins
<1>3. CASE PromptReady
  <2>1. AddsToTurn(history, Append(history, Recorded("user_prompt")))
    BY <1>a, <1>d, RecordedAdds DEF Recorded, EntryKinds
  <2> QED BY <1>3, <2>1, <1>c DEF PromptReady, Works, Working
<1>4. CASE PromptFails
  BY <1>4, <1>c DEF PromptFails, Working
<1>5. CASE ReceiveAfterInterrupt
  BY <1>5, <1>c DEF ReceiveAfterInterrupt, Working
<1>6. CASE ReceiveEvents
  BY <1>6, <1>b DEF ReceiveEvents, session, Working
<1>7. ASSUME NEW k \in {"completed", "incomplete"}, ReceiveTerminal(k) PROVE Works
  BY <1>7, <1>b DEF ReceiveTerminal, session, Working
<1>8. CASE ProviderEnds
  BY <1>8, EndAdds DEF ProviderEnds, Works, Working
<1>9. ASSUME NEW e \in Errors, ProviderThrows(e) PROVE Works \/ Retries
  BY <1>9, <1>c DEF ProviderThrows, Working
<1>10. ASSUME NEW c \in Calls, ReceiveCall(c) PROVE Works
  BY <1>10, <1>b DEF ReceiveCall, session, Working
<1>11. ASSUME pc \in BatchPoints, ExecuteBatch, UNCHANGED <<compactor, turn>> PROVE Works
  <2>1. CASE StartCall(batch) /\ UNCHANGED <<snapshot, retried>>
    BY <1>11, <2>1, <1>d, StartCallAdds DEF Works, Working, BatchPoints, TypeInv, Shape
  <2>2. CASE pc' = "yFlush" /\ UNCHANGED <<session, snapshot>>
    BY <1>11, <2>2, <1>b DEF session, Working, BatchPoints
  <2> QED BY <1>11, <2>1, <2>2 DEF ExecuteBatch
<1>12. CASE WindowElapsed
  BY <1>12, <1>11 DEF WindowElapsed, BatchPoints
<1>13. ASSUME NEW k \in {"events", "completed", "incomplete", "end"}, ReadAhead(k) PROVE Works
  BY <1>13, <1>11 DEF ReadAhead, BatchPoints
<1>14. CASE ResumeFlush
  BY <1>14, <1>d, StartCallAdds DEF ResumeFlush, Works, Working, TypeInv, Shape, BatchPoints
<1>15. CASE ResumeEvents
  BY <1>15, <1>b DEF ResumeEvents, session, Working
<1>16. CASE ResumePendingPart
  BY <1>16, <1>b DEF ResumePendingPart, session, Working
<1>17. CASE ResumeRequested
  BY <1>17, <1>b DEF ResumeRequested, session, Working
<1>18. CASE DecisionArrives
  BY <1>18, <1>b DEF DecisionArrives, session, Working
<1>19. ASSUME pc \in BatchPoints,
              history' = Append(history, CallEntry("tool_result", Head(batch))), pc' = "yResult",
              UNCHANGED <<snapshot, compactor, turn>>
       PROVE  Works
  <2>1. Head(batch) \in Calls
    BY <1>19 DEF TypeInv, TypeOK, Shape
  <2>2. AddsToTurn(history, history')
    BY <1>19, <2>1, <1>a, <1>d, RecordedAdds DEF CallEntry, EntryKinds
  <2> QED BY <1>19, <2>2 DEF Works, Working, BatchPoints
<1>20. CASE ResumeCleared
  BY <1>20, <1>b, <1>c, <1>19 DEF ResumeCleared, ActOnDecision, session, Working, BatchPoints
<1>21. CASE ResumeRunning
  BY <1>21, <1>b, <1>c DEF ResumeRunning, session, Working
<1>22. CASE ToolReturns
  BY <1>22, <1>c, <1>19 DEF ToolReturns, Working, BatchPoints
<1>23. CASE ToolThrows
  BY <1>23, <1>c DEF ToolThrows, Working
<1>24. CASE ResumeResult
  BY <1>24, <1>b DEF ResumeResult, session, Working
<1>25. CASE SubmitDone
  <2>1. CASE Tail(batch) # <<>>
    <3>1. Tail(batch) \in Seq(Calls)
      BY <1>25, <1>d DEF SubmitDone, TypeInv, Shape, BatchPoints
    <3> QED BY <1>25, <2>1, <3>1, StartCallAdds DEF SubmitDone, Works, Working
  <2>2. CASE AfterBatch
    BY <1>25, <2>2, <1>b, EndAdds DEF SubmitDone, AfterBatch, Works, Working, session
  <2> QED BY <1>25, <2>1, <2>2 DEF SubmitDone
<1>26. CASE SubmitFails
  BY <1>26, <1>c DEF SubmitFails, Working
<1>27. CASE RecoveryDone
  BY <1>27 DEF RecoveryDone, Recovers
<1>28. CASE RecoveryFails
  BY <1>28 DEF RecoveryFails, Recovers, TerminalKinds
<1>29. CASE ResumeFinal
  <2>1. AddsToTurn(history, Append(history, Recorded(closing)))
    BY <1>29, <1>a, <1>d, RecordedAdds DEF ResumeFinal, TypeInv, Shape, Recorded, EntryKinds
  <2>2. AddsToTurn(history, history')
    BY <1>29, <1>a, <2>1 DEF ResumeFinal
  <2> QED BY <1>29, <2>2 DEF ResumeFinal, Works, Working
<1>30. CASE ResumeClosing
  BY <1>30, <1>b DEF ResumeClosing, session, Working
<1>31. CASE ResumeTerminal
  BY <1>31 DEF ResumeTerminal, Finish, Ends, Working
<1> QED
  BY <1>1, <1>2, <1>3, <1>4, <1>5, <1>6, <1>7, <1>8, <1>9, <1>10, <1>12, <1>13, <1>14, <1>15,
     <1>16, <1>17, <1>18, <1>20, <1>21, <1>22, <1>23, <1>24, <1>25, <1>26, <1>27, <1>28, <1>29,
     <1>30, <1>31
  DEF TurnStep, ProviderStops

-----------------------------------------------------------------------------
(* The history seen by a compaction, and what a step may take away.        *)

\* While the generator works or recovers the history is the snapshot of its
\* attempt with entries of the running turn added.
SnapshotInv == pc \notin {"none", "created", "yStarted"} => AddsToTurn(snapshot, history)

SessionInv == TypeInv /\ CompactionSeesWholeHistory /\ SnapshotInv

LEMMA AddsTransitive ==
    ASSUME NEW f \in Seq(Entries), NEW g \in Seq(Entries), NEW h \in Seq(Entries),
           AddsToTurn(f, g), AddsToTurn(g, h)
    PROVE  AddsToTurn(f, h)
<1>1. Len(f) \in Nat /\ Len(g) \in Nat /\ Len(h) \in Nat
  OBVIOUS
<1>2. Len(f) <= Len(h)
  BY <1>1 DEF AddsToTurn
<1>3. \A i \in 1 .. Len(f) : h[i] = f[i]
  <2> SUFFICES ASSUME NEW i \in 1 .. Len(f) PROVE h[i] = f[i]
    OBVIOUS
  <2>1. i \in 1 .. Len(g) /\ g[i] = f[i]
    BY <1>1 DEF AddsToTurn
  <2> QED BY <2>1 DEF AddsToTurn
<1>4. \A i \in Len(f) + 1 .. Len(h) : h[i].turn = turn
  <2> SUFFICES ASSUME NEW i \in Len(f) + 1 .. Len(h) PROVE h[i].turn = turn
    OBVIOUS
  <2>1. CASE i \in 1 .. Len(g)
    BY <1>1, <2>1 DEF AddsToTurn
  <2>2. CASE i \in Len(g) + 1 .. Len(h)
    BY <2>2 DEF AddsToTurn
  <2> QED BY <1>1, <2>1, <2>2
<1> QED BY <1>2, <1>3, <1>4 DEF AddsToTurn

LEMMA CompactionInit == Init => CompactionSeesWholeHistory
BY DEF Init, CompactionSeesWholeHistory

LEMMA CompactionStep ==
    TypeInv /\ CompactionSeesWholeHistory /\ [Next]_vars => CompactionSeesWholeHistory'
<1> SUFFICES ASSUME TypeInv, CompactionSeesWholeHistory, [Next]_vars
             PROVE  CompactionSeesWholeHistory'
  OBVIOUS
<1> USE DEF compactor, session
<1>1. CASE TurnStep
  <2>1. CASE Works \/ Starts \/ Begins \/ Ends
    BY <2>1 DEF Works, Starts, Begins, Ends, Working, CompactionSeesWholeHistory
  <2>2. CASE Retries
    BY <2>2 DEF Retries, Recover, RecoverFrom, CompactionSeesWholeHistory
  <2>3. CASE Recovers
    BY <2>3 DEF Recovers, CompactionSeesWholeHistory
  <2> QED BY <1>1, <2>1, <2>2, <2>3, TurnEffect
<1>2. CASE StartTurn
  BY <1>2 DEF StartTurn, CompactionSeesWholeHistory
<1>3. CASE Interrupt
  BY <1>3 DEF Interrupt, CompactionSeesWholeHistory
<1>4. CASE UserDecides
  BY <1>4 DEF UserDecides, Decide, CompactionSeesWholeHistory
<1>5. CASE Abandon
  BY <1>5 DEF Abandon, Finish, Yields, CompactionSeesWholeHistory
<1>6. CASE CompactStart
  BY <1>6 DEF CompactStart, CompactionSeesWholeHistory
<1>7. CASE CompactDone \/ CompactFails
  BY <1>7 DEF CompactDone, CompactFails, CompactionSeesWholeHistory
<1>8. CASE UNCHANGED vars
  BY <1>8 DEF vars, CompactionSeesWholeHistory
<1> QED
  BY <1>1, <1>2, <1>3, <1>4, <1>5, <1>6, <1>7, <1>8 DEF Next, CompactorStep, Rest

\* No provider event, tool, answer or interruption touches the history while a
\* compaction of the session waits for its summary.
THEOREM CompactionIsExclusive == Spec => []CompactionSeesWholeHistory
BY CompactionInit, CompactionStep, TypeInvariant, PTL DEF Spec

LEMMA SnapshotInit == Init => SnapshotInv
BY DEF Init, SnapshotInv

LEMMA SnapshotKept ==
    ASSUME SnapshotInv, UNCHANGED <<history, snapshot, turn, pc>>
    PROVE  SnapshotInv'
BY DEF SnapshotInv, AddsToTurn

LEMMA SnapshotStep ==
    TypeInv /\ TypeInv' /\ CompactionSeesWholeHistory /\ SnapshotInv /\ [Next]_vars => SnapshotInv'
<1> SUFFICES ASSUME TypeInv, TypeInv', CompactionSeesWholeHistory, SnapshotInv, [Next]_vars
             PROVE  SnapshotInv'
  OBVIOUS
<1> USE DEF compactor, session, attempt, ledger
<1>a. /\ history \in Seq(Entries) /\ snapshot \in Seq(Entries)
      /\ history' \in Seq(Entries) /\ snapshot' \in Seq(Entries)
  BY DEF TypeInv, TypeOK
<1>b. turn' = turn /\ AddsToTurn(snapshot', history') => SnapshotInv'
  BY DEF SnapshotInv, AddsToTurn
<1>1. CASE TurnStep
  <2>1. CASE Works
    BY <1>a, <1>b, <2>1, AddsTransitive DEF Works, Working, SnapshotInv
  <2>2. CASE Starts \/ Ends
    BY <2>2 DEF Starts, Ends, SnapshotInv
  <2>3. CASE Retries
    BY <1>a, <1>b, <2>3, AddsNothing DEF Retries, Recover, RecoverFrom
  <2>4. CASE Begins
    BY <1>a, <1>b, <2>4, BeginAdds DEF Begins
  <2>5. CASE Recovers
    <3>1. CASE BeginAttempt(Append(history, Summary))
      <4>1. Append(history, Summary) \in Seq(Entries)
        BY <1>a, SummaryIsEntry
      <4> QED BY <1>b, <2>5, <3>1, <4>1, BeginAdds DEF Recovers
    <3>2. CASE UNCHANGED snapshot /\ \E k \in TerminalKinds : Close(history, k)
      <4>1. PICK k \in TerminalKinds : Close(history, k)
        BY <3>2
      <4>2. AddsToTurn(snapshot, history)
        BY <2>5 DEF Recovers, SnapshotInv
      <4> QED BY <1>a, <1>b, <2>5, <3>2, <4>1, <4>2, CloseAdds, AddsTransitive DEF Recovers
    <3> QED BY <2>5, <3>1, <3>2 DEF Recovers
  <2> QED BY <1>1, <2>1, <2>2, <2>3, <2>4, <2>5, TurnEffect
<1>2. CASE StartTurn \/ Abandon
  BY <1>2 DEF StartTurn, Abandon, Finish, SnapshotInv
<1>3. CASE Interrupt \/ UserDecides \/ CompactStart \/ CompactFails \/ UNCHANGED vars
  BY <1>3, SnapshotKept DEF Interrupt, UserDecides, Decide, CompactStart, CompactFails, vars
<1>4. CASE CompactDone
  BY <1>4 DEF CompactDone, CompactionSeesWholeHistory, SnapshotInv
<1> QED
  BY <1>1, <1>2, <1>3, <1>4 DEF Next, CompactorStep, Rest

LEMMA AddedIsPrefix ==
    ASSUME NEW g \in Seq(Entries), NEW h \in Seq(Entries), AddsToTurn(g, h)
    PROVE  IsPrefix(g, h)
BY PrefixByElements DEF AddsToTurn

LEMMA HistoryStepHolds == SessionInv /\ TypeInv' /\ [Next]_vars => [HistoryStep]_history
<1> SUFFICES ASSUME SessionInv, TypeInv', [Next]_vars PROVE HistoryStep \/ UNCHANGED history
  BY DEF HistoryStep
<1> USE DEF SessionInv, session
<1>a. history \in Seq(Entries) /\ history' \in Seq(Entries) /\ snapshot \in Seq(Entries)
  BY DEF TypeInv, TypeOK
<1>b. Append(history, Summary) \in Seq(Entries)
  BY <1>a, SummaryIsEntry
<1>1. CASE TurnStep
  <2>1. CASE Works \/ Begins
    BY <1>a, <2>1, BeginAdds, AddedIsPrefix DEF Works, Begins, HistoryStep
  <2>2. CASE Starts \/ Ends
    BY <2>2 DEF Starts, Ends
  <2>3. CASE Retries
    <3>1. AddsToTurn(snapshot, history) /\ history' = snapshot /\ pc' = "aRecovery" /\ ~observed
      BY <2>3 DEF Retries, Working, SnapshotInv, Recover, RecoverFrom, CanRecover
    <3> QED BY <1>a, <3>1, AddedIsPrefix DEF HistoryStep, AddsToTurn
  <2>4. CASE Recovers
    <3>1. CASE BeginAttempt(Append(history, Summary))
      <4>1. AddsToTurn(Append(history, Summary), history')
        BY <1>b, <3>1, BeginAdds
      <4>2. Len(history) \in Nat /\ Len(history') \in Nat
        BY <1>a
      <4>3. /\ Len(Append(history, Summary)) = Len(history) + 1
            /\ \A i \in 1 .. Len(history) : Append(history, Summary)[i] = history[i]
        BY <1>a
      <4>4. Len(history) <= Len(history') /\ \A i \in 1 .. Len(history) : history'[i] = history[i]
        BY <4>1, <4>2, <4>3 DEF AddsToTurn
      <4> QED BY <1>a, <4>4, PrefixByElements DEF HistoryStep
    <3>2. CASE \E k \in TerminalKinds : Close(history, k)
      BY <1>a, <3>2, CloseAdds, AddedIsPrefix DEF HistoryStep
    <3> QED BY <2>4, <3>1, <3>2 DEF Recovers
  <2> QED BY <1>1, <2>1, <2>2, <2>3, <2>4, TurnEffect
<1>2. CASE CompactDone
  <2>1. Len(history) <= Len(history') /\ \A i \in 1 .. Len(history) : history'[i] = history[i]
    BY <1>a, <1>2 DEF CompactDone
  <2> QED BY <1>a, <2>1, PrefixByElements DEF HistoryStep
<1>3. CASE StartTurn \/ Abandon \/ Interrupt \/ UserDecides \/ CompactStart \/ CompactFails
           \/ UNCHANGED vars
  BY <1>3 DEF StartTurn, Abandon, Finish, Interrupt, UserDecides, Decide, CompactStart,
              CompactFails, vars
<1> QED
  BY <1>1, <1>2, <1>3 DEF Next, CompactorStep, Rest

LEMMA SessionInvariant == Spec => []SessionInv
<1>1. Init => SessionInv
  BY TypeInvInit, CompactionInit, SnapshotInit DEF SessionInv
<1>2. SessionInv /\ [Next]_vars => SessionInv'
  BY TypeInvStep, CompactionStep, SnapshotStep DEF SessionInv
<1> QED BY <1>1, <1>2, PTL DEF Spec

\* The session's entries only grow, but for the overflow recovery of the running
\* turn, which drops entries of that turn alone and only if nothing was shown.
THEOREM HistoryOnlyGrows == Spec => OnlyRecoveryDropsEntries
<1>1. SessionInv /\ SessionInv' /\ [Next]_vars => [HistoryStep]_history
  BY HistoryStepHolds DEF SessionInv
<1> QED BY <1>1, SessionInvariant, PTL DEF Spec, OnlyRecoveryDropsEntries

-----------------------------------------------------------------------------
(* The event that was read ahead of a batch.                               *)

\* It is there only while the batch is executed.
CarryInv == carry # "none" => pc \in ExecutionPoints

CarryStep == [ReadAheadStep]_vars /\ CarryInv'

LEMMA NoCarry ==
    ASSUME carry = "none" \/ AttemptEnds, carry' = "none"
    PROVE  CarryStep
BY DEF CarryStep, CarryInv, ReadAheadStep

LEMMA CarryKept ==
    ASSUME carry' = carry, pc' \in ExecutionPoints
    PROVE  CarryStep
BY DEF CarryStep, CarryInv, ReadAheadStep

LEMMA CloseDropsCarry ==
    ASSUME NEW h, NEW k \in {"failed", "interrupted"}, Close(h, k)
    PROVE  CarryStep
<1>1. AttemptEnds /\ carry' = "none"
  BY DEF Close, EmitTerminal, AttemptEnds
<1> QED BY <1>1, NoCarry

LEMMA ThrowDropsCarry ==
    ASSUME NEW e, Throw(e)
    PROVE  CarryStep
<1>1. CASE e = "overflow" /\ CanRecover
  <2>1. AttemptEnds /\ carry' = "none"
    BY <1>1 DEF Throw, Recover, RecoverFrom, AttemptEnds
  <2> QED BY <2>1, NoCarry
<1>2. CASE ~(e = "overflow" /\ CanRecover)
  BY <1>2, CloseDropsCarry DEF Throw
<1> QED BY <1>1, <1>2

LEMMA StartCallExecutes ==
    ASSUME NEW b \in Seq(Calls), b # <<>>, StartCall(b)
    PROVE  pc' \in ExecutionPoints
<1>1. Head(b) \in Calls
  OBVIOUS
<1>2. pc' \in {"yRunning", "yPendingPart", "yResult"}
  BY <1>1 DEF StartCall, FirstYield, GateKinds
<1> QED BY <1>2 DEF ExecutionPoints

\* Outside the execution of a batch there is nothing read ahead to keep.
LEMMA ElsewhereNoCarry ==
    ASSUME CarryInv, pc \notin ExecutionPoints, carry' \in {carry, "none"}
    PROVE  CarryStep
<1>1. carry = "none" /\ carry' = "none"
  BY DEF CarryInv
<1> QED BY <1>1, NoCarry

\* After the last submission the event is handled.
LEMMA AfterBatchHandles ==
    ASSUME pc = "aSubmit", Tail(batch) = <<>>, AfterBatch
    PROVE  CarryStep
<1>1. CASE carry = "none"
  BY <1>1, NoCarry DEF AfterBatch
<1>2. CASE carry = "end"
  <2>1. AttemptEnds /\ carry' = "none"
    BY <1>2 DEF AfterBatch, EndBeforeCompletion, EmitTerminal, AttemptEnds
  <2> QED BY <2>1, NoCarry
<1>3. CASE carry \in {"events", "completed", "incomplete"}
  <2>1. /\ carry' = "none"
        /\ \/ carry = "events" /\ pc' = "yEvents"
           \/ carry \in {"completed", "incomplete"} /\ pc' = "yFinal" /\ closing' = carry
    BY <1>3 DEF AfterBatch
  <2> QED BY <2>1 DEF CarryStep, CarryInv, ReadAheadStep
<1> QED BY <1>1, <1>2, <1>3 DEF AfterBatch

LEMMA CarryTurnStep ==
    ASSUME TypeInv, CarryInv, TurnStep
    PROVE  CarryStep
<1> USE DEF stream
<1>a. batch \in Seq(Calls)
  BY DEF TypeInv, TypeOK
<1>1. CASE \/ StreamStart \/ ReceiveEvents \/ ResumeEvents \/ ResumeFinal \/ ResumeClosing
           \/ (\E k \in {"completed", "incomplete"} : ReceiveTerminal(k))
           \/ (\E c \in Calls : ReceiveCall(c))
  <2>1. pc \notin ExecutionPoints /\ carry' = carry
    BY <1>1 DEF StreamStart, ReceiveEvents, ResumeEvents, ResumeFinal, ResumeClosing,
                ReceiveTerminal, ReceiveCall, ExecutionPoints
  <2> QED BY <2>1, ElsewhereNoCarry
<1>2. CASE \/ PromptFails \/ ReceiveAfterInterrupt \/ ToolThrows \/ SubmitFails
           \/ \E e \in Errors : ProviderThrows(e)
  BY <1>2, ThrowDropsCarry DEF PromptFails, ReceiveAfterInterrupt, ToolThrows, SubmitFails, ProviderThrows
<1>3. CASE ProviderEnds \/ RecoveryFails \/ ResumeTerminal
  <2>1. pc \notin ExecutionPoints /\ carry' = "none"
    BY <1>3 DEF ProviderEnds, RecoveryFails, ResumeTerminal, EndBeforeCompletion, Close, EmitTerminal,
                Finish, ExecutionPoints
  <2> QED BY <2>1, ElsewhereNoCarry
<1>4. CASE ResumeStarted \/ RecoveryDone
  <2>1. pc \notin ExecutionPoints /\ carry' \in {carry, "none"}
    BY <1>4 DEF ResumeStarted, RecoveryDone, BeginAttempt, Close, EmitTerminal, ExecutionPoints
  <2> QED BY <2>1, ElsewhereNoCarry
<1>5. CASE PromptReady
  <2>1. CASE interrupted
    BY <1>5, <2>1, ThrowDropsCarry DEF PromptReady
  <2>2. CASE ~interrupted
    BY <1>5, <2>2, ElsewhereNoCarry DEF PromptReady, ExecutionPoints
  <2> QED BY <2>1, <2>2
<1>6. ASSUME pc = "aBatch", ExecuteBatch PROVE pc' \in ExecutionPoints
  BY <1>6, <1>a, StartCallExecutes DEF ExecuteBatch, ExecutionPoints, TypeInv, Shape, BatchPoints
<1>7. CASE WindowElapsed
  BY <1>7, <1>6, CarryKept DEF WindowElapsed
<1>8. CASE \E k \in {"events", "completed", "incomplete", "end"} : ReadAhead(k)
  <2>1. carry = "none"
    BY <1>8 DEF ReadAhead, CarryInv, ExecutionPoints
  <2>2. carry' # "none" /\ pc' \in ExecutionPoints
    BY <1>8, <1>6 DEF ReadAhead
  <2> QED BY <2>1, <2>2 DEF CarryStep, CarryInv, ReadAheadStep
<1>9. CASE ResumeFlush
  <2>1. pc' \in ExecutionPoints /\ carry' = carry
    BY <1>9, <1>a, StartCallExecutes DEF ResumeFlush, TypeInv, Shape, BatchPoints
  <2> QED BY <2>1, CarryKept
<1>10. CASE ResumePendingPart \/ ResumeRequested \/ DecisionArrives \/ ResumeResult
  BY <1>10, CarryKept DEF ResumePendingPart, ResumeRequested, DecisionArrives, ResumeResult, ExecutionPoints
<1>11. CASE ResumeCleared
  <2>1. CASE decision = "interrupted"
    BY <1>11, <2>1, ThrowDropsCarry DEF ResumeCleared, ActOnDecision
  <2>2. CASE decision \in {"denied", "approved"}
    BY <1>11, <2>2, CarryKept DEF ResumeCleared, ActOnDecision, ExecutionPoints
  <2> QED BY <1>11, <2>1, <2>2 DEF ResumeCleared, ActOnDecision
<1>12. CASE ResumeRunning \/ ToolReturns
  <2>1. CASE interrupted
    BY <1>12, <2>1, ThrowDropsCarry DEF ResumeRunning, ToolReturns
  <2>2. CASE ~interrupted
    BY <1>12, <2>2, CarryKept DEF ResumeRunning, ToolReturns, ExecutionPoints
  <2> QED BY <2>1, <2>2
<1>13. CASE SubmitDone
  <2>1. CASE Tail(batch) # <<>>
    <3>1. Tail(batch) \in Seq(Calls)
      BY <1>13, <1>a DEF SubmitDone, TypeInv, Shape, BatchPoints
    <3>2. pc' \in ExecutionPoints /\ carry' = carry
      BY <1>13, <2>1, <3>1, StartCallExecutes DEF SubmitDone
    <3> QED BY <3>2, CarryKept
  <2>2. CASE Tail(batch) = <<>>
    BY <1>13, <2>2, AfterBatchHandles DEF SubmitDone
  <2> QED BY <2>1, <2>2
<1> QED
  BY <1>1, <1>2, <1>3, <1>4, <1>5, <1>7, <1>8, <1>9, <1>10, <1>11, <1>12, <1>13 DEF TurnStep, ProviderStops

LEMMA CarryStepHolds == TypeInv /\ CarryInv /\ [Next]_vars => CarryStep
<1> SUFFICES ASSUME TypeInv, CarryInv, [Next]_vars PROVE CarryStep
  OBVIOUS
<1>1. CASE TurnStep
  BY <1>1, CarryTurnStep
<1>2. CASE StartTurn
  <2>1. pc \notin ExecutionPoints /\ carry' = carry
    BY <1>2 DEF StartTurn, stream, ExecutionPoints
  <2> QED BY <2>1, ElsewhereNoCarry
<1>3. CASE Abandon
  <2>1. AttemptEnds /\ carry' = "none"
    BY <1>3 DEF Abandon, Finish, AttemptEnds
  <2> QED BY <2>1, NoCarry
<1>4. CASE \/ Interrupt \/ UserDecides \/ CompactStart \/ CompactDone \/ CompactFails \/ UNCHANGED vars
  <2>1. carry' = carry /\ pc' = pc
    BY <1>4 DEF Interrupt, UserDecides, Decide, CompactStart, CompactDone, CompactFails, vars, stream
  <2> QED BY <2>1 DEF CarryStep, CarryInv, ReadAheadStep
<1> QED BY <1>1, <1>2, <1>3, <1>4 DEF Next, CompactorStep, Rest

\* The event the provider stream processor reads ahead of a batch
\* (providerStreamEventTranslation) is handled once, after the whole batch, and
\* nothing else is read meanwhile, unless the attempt ends before.
THEOREM ReadAheadHandled == Spec => ReadAheadIsHandled
<1>1. Init => CarryInv
  BY DEF Init, CarryInv
<1>2. TypeInv /\ CarryInv /\ [Next]_vars => CarryInv'
  BY CarryStepHolds DEF CarryStep
<1>3. TypeInv /\ CarryInv /\ [Next]_vars => [ReadAheadStep]_vars
  BY CarryStepHolds DEF CarryStep
<1> QED BY <1>1, <1>2, <1>3, TypeInvariant, PTL DEF Spec, ReadAheadIsHandled

-----------------------------------------------------------------------------
(* The approval gate.                                                      *)

\* The slot holds the request the generator waits on, which has no answer yet.
SlotInv ==
    approval # NoCall => /\ pc \in {"yRequested", "aDecision"}
                         /\ approval = Head(batch)
                         /\ decision = "none"

\* An approval that the generator has not acted on is for the call it waits on.
DecisionInv ==
    decision = "approved" /\ pc \in {"yRequested", "aDecision", "yCleared"}
        => Head(batch) \in granted

GateInv == SlotInv /\ DecisionInv /\ ApprovalGate

\* Points outside the approval of a call and its run.
Ungated == ProgramPoints \ {"yRequested", "aDecision", "yCleared", "yRunning", "aTool"}

LEMMA UngatedKeeps ==
    ASSUME GateInv, pc \notin {"yRequested", "aDecision"}, pc' \in Ungated, approval' = approval
    PROVE  GateInv'
BY DEF GateInv, SlotInv, DecisionInv, ApprovalGate, Ungated

LEMMA ThrowUngated ==
    ASSUME TypeInv, NEW e, Throw(e)
    PROVE  pc' \in Ungated
<1>1. CASE e = "overflow" /\ CanRecover
  BY <1>1 DEF Throw, Recover, RecoverFrom, Ungated, ProgramPoints, Awaits
<1>2. CASE ~(e = "overflow" /\ CanRecover)
  BY <1>2 DEF Throw, Close, EmitTerminal, Ungated, ProgramPoints, Yields
<1> QED BY <1>1, <1>2

LEMMA StartCallGate ==
    ASSUME TypeInv, GateInv, NEW b \in Seq(Calls), b # <<>>, StartCall(b), UNCHANGED gatekeeper,
           pc \notin {"yRequested", "aDecision"}
    PROVE  GateInv'
<1>1. Head(b) \in Calls
  OBVIOUS
<1>2. pc' = FirstYield[Gate[Head(b)]] /\ batch' = b
  BY DEF StartCall
<1>3. CASE Gate[Head(b)] = "approval"
  BY <1>2, <1>3, UngatedKeeps DEF FirstYield, Ungated, ProgramPoints, Yields, gatekeeper
<1>4. CASE Gate[Head(b)] # "approval"
  <2>1. pc' \in {"yRunning", "yResult"}
    BY <1>1, <1>2, <1>4 DEF FirstYield, GateKinds
  <2>2. SlotInv' /\ DecisionInv'
    BY <2>1 DEF GateInv, SlotInv, DecisionInv, gatekeeper
  <2>3. ApprovalGate'
    BY <1>2, <1>4, <2>1 DEF ApprovalGate
  <2> QED BY <2>2, <2>3 DEF GateInv
<1> QED BY <1>3, <1>4

LEMMA GateTurnStep ==
    ASSUME TypeInv, GateInv, TurnStep
    PROVE  GateInv'
<1> USE DEF ledger, gatekeeper, stream
<1>a. batch \in Seq(Calls)
  BY DEF TypeInv, TypeOK
<1>b. ASSUME NEW e, Throw(e), pc \notin {"yRequested", "aDecision"}, approval' = approval PROVE GateInv'
  BY <1>b, UngatedKeeps, ThrowUngated
<1>c. ASSUME pc \notin {"yRequested", "aDecision"}, approval' = approval,
             pc' \in {"yStarted", "yEvents", "yFlush", "yPendingPart", "yResult", "yFinal", "yClosing",
                     "yTerminal", "aPrompt", "aProvider", "aBatch", "aSubmit", "aRecovery"}
      PROVE  GateInv'
  BY <1>c, UngatedKeeps DEF Ungated, ProgramPoints, Yields, Awaits
<1>1. CASE \/ StreamStart \/ ReceiveEvents \/ ResumeEvents \/ ResumeResult \/ ResumeFinal \/ ResumeClosing
           \/ (\E k \in {"completed", "incomplete"} : ReceiveTerminal(k))
           \/ (\E c \in Calls : ReceiveCall(c))
  BY <1>1, <1>c DEF StreamStart, ReceiveEvents, ResumeEvents, ResumeResult, ResumeFinal,
                    ResumeClosing, ReceiveTerminal, ReceiveCall
<1>2. CASE \/ PromptFails \/ ReceiveAfterInterrupt \/ ToolThrows \/ SubmitFails
           \/ \E e \in Errors : ProviderThrows(e)
  BY <1>2, <1>b DEF PromptFails, ReceiveAfterInterrupt, ToolThrows, SubmitFails, ProviderThrows
<1>3. CASE ProviderEnds \/ RecoveryFails
  BY <1>3, <1>c DEF ProviderEnds, RecoveryFails, EndBeforeCompletion, Close, EmitTerminal
<1>4. CASE ResumeStarted \/ RecoveryDone
  BY <1>4, <1>c DEF ResumeStarted, RecoveryDone, BeginAttempt, Close, EmitTerminal
<1>5. CASE PromptReady
  BY <1>5, <1>b, <1>c DEF PromptReady
<1>6. ASSUME pc = "aBatch", ExecuteBatch, UNCHANGED gatekeeper PROVE GateInv'
  BY <1>6, <1>a, <1>c, StartCallGate DEF ExecuteBatch, TypeInv, Shape, BatchPoints
<1>7. CASE WindowElapsed
  BY <1>7, <1>6 DEF WindowElapsed
<1>8. CASE \E k \in {"events", "completed", "incomplete", "end"} : ReadAhead(k)
  BY <1>8, <1>6 DEF ReadAhead
<1>9. CASE ResumeFlush
  BY <1>9, <1>a, StartCallGate DEF ResumeFlush, TypeInv, Shape, BatchPoints
<1>10. CASE ResumePendingPart
  BY <1>10 DEF ResumePendingPart, GateInv, SlotInv, DecisionInv, ApprovalGate
<1>11. CASE ResumeRequested \/ DecisionArrives
  BY <1>11 DEF ResumeRequested, DecisionArrives, GateInv, SlotInv, DecisionInv, ApprovalGate
<1>12. CASE ResumeCleared
  <2>1. CASE decision = "interrupted" \/ decision = "denied"
    BY <1>12, <2>1, <1>b, <1>c DEF ResumeCleared, ActOnDecision
  <2>2. CASE decision = "approved"
    BY <1>12, <2>2 DEF ResumeCleared, ActOnDecision, GateInv, SlotInv, DecisionInv, ApprovalGate
  <2> QED BY <1>12, <2>1, <2>2 DEF ResumeCleared, ActOnDecision
<1>13. CASE ResumeRunning
  <2>1. CASE interrupted
    BY <1>13, <2>1, <1>b DEF ResumeRunning
  <2>2. CASE ~interrupted
    BY <1>13, <2>2 DEF ResumeRunning, GateInv, SlotInv, DecisionInv, ApprovalGate
  <2> QED BY <2>1, <2>2 DEF TypeInv, TypeOK
<1>14. CASE ToolReturns
  BY <1>14, <1>b, <1>c DEF ToolReturns
<1>15. CASE SubmitDone
  <2>1. CASE Tail(batch) # <<>>
    <3>1. Tail(batch) \in Seq(Calls)
      BY <1>15, <1>a DEF SubmitDone, TypeInv, Shape, BatchPoints
    <3> QED BY <1>15, <2>1, <3>1, StartCallGate DEF SubmitDone
  <2>2. CASE AfterBatch
    BY <1>15, <2>2, <1>c DEF SubmitDone, AfterBatch, EndBeforeCompletion, EmitTerminal
  <2> QED BY <1>15, <2>1, <2>2 DEF SubmitDone
<1>16. CASE ResumeTerminal
  BY <1>16 DEF ResumeTerminal, Finish, GateInv, SlotInv, DecisionInv, ApprovalGate
<1> QED
  BY <1>1, <1>2, <1>3, <1>4, <1>5, <1>7, <1>8, <1>9, <1>10, <1>11, <1>12, <1>13, <1>14, <1>15, <1>16
  DEF TurnStep, ProviderStops

LEMMA GateStep == TypeInv /\ GateInv /\ [Next]_vars => GateInv'
<1> SUFFICES ASSUME TypeInv, GateInv, [Next]_vars PROVE GateInv'
  OBVIOUS
<1> USE DEF gatekeeper, stream, session, compactor, ledger, attempt
<1>1. CASE TurnStep
  BY <1>1, GateTurnStep
<1>2. CASE StartTurn \/ Abandon
  BY <1>2 DEF StartTurn, Abandon, Finish, GateInv, SlotInv, DecisionInv, ApprovalGate
<1>3. CASE Interrupt
  BY <1>3 DEF Interrupt, GateInv, SlotInv, DecisionInv, ApprovalGate
<1>4. CASE UserDecides
  <2>1. PICK c \in Calls, d \in {"approved", "denied"} : Decide(c, d)
    BY <1>4 DEF UserDecides
  <2>2. approval = c /\ c # NoCall
    BY <2>1 DEF Decide
  <2>3. pc \in {"yRequested", "aDecision"} /\ c = Head(batch) /\ pc' = pc /\ batch' = batch
    BY <2>1, <2>2 DEF Decide, GateInv, SlotInv
  <2> QED BY <2>1, <2>2, <2>3 DEF Decide, GateInv, SlotInv, DecisionInv, ApprovalGate
<1>5. CASE CompactStart \/ CompactDone \/ CompactFails \/ UNCHANGED vars
  BY <1>5 DEF CompactStart, CompactDone, CompactFails, vars, GateInv, SlotInv, DecisionInv, ApprovalGate
<1> QED
  BY <1>1, <1>2, <1>3, <1>4, <1>5 DEF Next, CompactorStep, Rest

\* A tool call that the policy sends to the user runs only on the user's approval
\* of that very call: no interleaving of answers, interruptions, retries and
\* batches lets an old or foreign answer through.
THEOREM GateEnforced == Spec => []ApprovalGate
<1>1. Init => GateInv
  BY DEF Init, GateInv, SlotInv, DecisionInv, ApprovalGate
<1>2. GateInv => ApprovalGate
  BY DEF GateInv
<1> QED BY <1>1, <1>2, GateStep, TypeInvariant, PTL DEF Spec

-----------------------------------------------------------------------------
(* The history: the inductive invariant.                                   *)

\* Where a call of the batch is in the history: not yet, without its result.
\* (At the remaining points of a batch its result is there as well.)
Collecting == {"aBatch", "yFlush"}
Executing == {"yPendingPart", "yRequested", "aDecision", "yCleared", "yRunning", "aTool"}

\* Where the running turn is in the history: not, open, closed.
BeforePrompt == {"created", "yStarted", "aPrompt", "aRecovery"}
OpenPoints == {"aProvider", "yEvents", "yFinal"} \union BatchPoints
ClosingPoints == {"yClosing", "yTerminal"}

ToolKinds == {"tool_call", "tool_result"}
FinishedKinds == {"completed", "incomplete"}
PromptOf(t) == Entry(t, "user_prompt", NoCall)

\* HistoryReadsAsTurns, of any sequence of entries.
ReadsAsTurns(h) ==
    \A j \in 1 .. Len(h) : h[j].turn # 0 =>
        /\ \A i \in 1 .. j - 1 : h[i] # h[j] /\ h[i].turn <= h[j].turn
        /\ h[j].kind # "user_prompt" => \E i \in 1 .. j - 1 : h[i] = PromptOf(h[j].turn)
        /\ h[j].kind = "tool_result" =>
              \E i \in 1 .. j - 1 : h[i] = Entry(h[j].turn, "tool_call", h[j].call)

\* Only tool entries name a call, and a summary never comes first.
WellFormed(h) ==
    /\ ReadsAsTurns(h)
    /\ \A i \in 1 .. Len(h) : h[i].call # NoCall => h[i].kind \in ToolKinds
    /\ h # <<>> => h[1].turn # 0

Before(h, t) == \A i \in 1 .. Len(h) : h[i].turn < t

\* h is g with the running turn's prompt and tool entries.
OpenIn(g, h) ==
    /\ Len(h) > Len(g)
    /\ h[Len(g) + 1] = PromptOf(turn)
    /\ \A i \in Len(g) + 2 .. Len(h) : h[i].kind \in ToolKinds

\* And with its terminal entry, of kind k.
ClosedIn(g, h, k) ==
    /\ Len(h) > Len(g) + 1
    /\ h[Len(g) + 1] = PromptOf(turn)
    /\ h[Len(h)] = Recorded(k)
    /\ \A i \in Len(g) + 2 .. Len(h) - 1 : h[i].kind \in ToolKinds

\* Where the running turn stands in the history, and what its recorder says.
StageInv ==
    /\ WellFormed(history)
    /\ \A i \in 1 .. Len(history) : history[i].turn <= turn
    /\ pc # "none" => turn \in Turns
    /\ promptRecorded <=> pc \in OpenPoints \union ClosingPoints
    /\ terminalRecorded <=> pc \in ClosingPoints
    /\ pc \in {"created", "yStarted"} => Before(history, turn)
    /\ Working \/ pc = "aRecovery" => Before(snapshot, turn)
    /\ pc \in {"aPrompt", "aRecovery"} => history = snapshot
    /\ pc = "aRecovery" => history # <<>>
    /\ pc \in OpenPoints => OpenIn(snapshot, history)
    /\ pc = "yFinal" => closing \in FinishedKinds
    /\ pc \in ClosingPoints => ClosedIn(snapshot, history, closing)

\* The calls of the batch, and the calls of the running turn without a result:
\* the one that is being executed is the only one.
Unnamed(c, h) == \A i \in 1 .. Len(h) : h[i].call # c
Unanswered(h, c) ==
    /\ \E i \in 1 .. Len(h) : h[i] = CallEntry("tool_call", c)
    /\ \A i \in 1 .. Len(h) : h[i].call = c => h[i].kind = "tool_call"
AllAnswered(h, t, but) ==
    \A i \in 1 .. Len(h) : h[i].turn = t /\ h[i].kind = "tool_call" /\ h[i].call \notin but =>
        \E j \in 1 .. Len(h) : h[j] = Entry(t, "tool_result", h[i].call)

CallsInv ==
    /\ \A i, j \in 1 .. Len(batch) : batch[i] = batch[j] => i = j
    /\ pc \notin BatchPoints => batch = <<>>
    /\ pc \in Collecting => \A i \in 1 .. Len(batch) : Unnamed(batch[i], history)
    /\ \A i \in 2 .. Len(batch) : Unnamed(batch[i], history)
    /\ pc \in Executing => Unanswered(history, Head(batch))
    /\ pc \in Executing => AllAnswered(history, turn, {Head(batch)})
    /\ pc \in OpenPoints \ Executing => AllAnswered(history, turn, {})
    /\ pc \in ClosingPoints /\ closing \in FinishedKinds => AllAnswered(history, turn, {})

\* The turns that have ended.
ClosedIsRecorded(h, t, k) ==
    \E first, last \in 1 .. Len(h) :
        /\ h[first] = PromptOf(t) /\ h[last] = Entry(t, k, NoCall)
        /\ \A i \in 1 .. Len(h) : h[i].turn = t /\ i # first /\ i # last =>
              first < i /\ i < last /\ h[i].kind \in ToolKinds
OutcomeInv ==
    /\ \A t \in Turns : t > turn \/ (t = turn /\ pc # "none") => outcome[t] = "none"
    /\ \A t \in Turns : Closed(t) => ClosedIsRecorded(history, t, outcome[t])
    /\ \A t \in Turns : outcome[t] \in FinishedKinds => AllAnswered(history, t, {})

HistoryInv == StageInv /\ CallsInv /\ OutcomeInv

-----------------------------------------------------------------------------
(* Entries added to a history. *)

LEMMA Appended ==
    ASSUME NEW h \in Seq(Entries), NEW e \in Entries
    PROVE  /\ Append(h, e) \in Seq(Entries)
           /\ Len(h) \in Nat /\ Len(Append(h, e)) = Len(h) + 1
           /\ Append(h, e)[Len(h) + 1] = e
           /\ \A i \in 1 .. Len(h) : Append(h, e)[i] = h[i]
OBVIOUS

LEMMA EntryFields ==
    \A t \in Turns \union {0}, k \in EntryKinds, c \in Calls \union {NoCall} :
        /\ Entry(t, k, c) \in Entries
        /\ Entry(t, k, c).turn = t /\ Entry(t, k, c).kind = k /\ Entry(t, k, c).call = c
BY DEF Entry, Entries

LEMMA ElementsAreEntries ==
    ASSUME NEW h \in Seq(Entries)
    PROVE  /\ Len(h) \in Nat
           /\ \A i \in 1 .. Len(h) : /\ h[i] \in Entries /\ h[i].turn \in Turns \union {0}
                                     /\ h[i].kind \in EntryKinds /\ h[i].call \in Calls \union {NoCall}
<1>1. Len(h) \in Nat /\ \A i \in 1 .. Len(h) : h[i] \in Entries
  OBVIOUS
<1> QED BY <1>1 DEF Entries

\* An entry of a turn may follow entries of that turn and earlier ones.
LEMMA AppendKeepsForm ==
    ASSUME NEW h \in Seq(Entries), WellFormed(h), NEW e \in Entries, e.turn # 0,
           \A i \in 1 .. Len(h) : h[i].turn <= e.turn /\ h[i] # e,
           e.kind # "user_prompt" => \E i \in 1 .. Len(h) : h[i] = PromptOf(e.turn),
           e.kind = "tool_result" => \E i \in 1 .. Len(h) : h[i] = Entry(e.turn, "tool_call", e.call),
           e.call # NoCall => e.kind \in ToolKinds
    PROVE  WellFormed(Append(h, e))
<1> DEFINE p == Append(h, e)
<1>1. /\ p \in Seq(Entries) /\ Len(h) \in Nat /\ Len(p) = Len(h) + 1
      /\ p[Len(h) + 1] = e /\ \A i \in 1 .. Len(h) : p[i] = h[i]
  BY Appended
<1> HIDE DEF p
<1>2. ASSUME NEW j \in 1 .. Len(p), p[j].turn # 0
      PROVE  /\ \A i \in 1 .. j - 1 : p[i] # p[j] /\ p[i].turn <= p[j].turn
             /\ p[j].kind # "user_prompt" => \E i \in 1 .. j - 1 : p[i] = PromptOf(p[j].turn)
             /\ p[j].kind = "tool_result" =>
                   \E i \in 1 .. j - 1 : p[i] = Entry(p[j].turn, "tool_call", p[j].call)
  <2>1. CASE j = Len(h) + 1
    <3>1. p[j] = e /\ j - 1 = Len(h)
      BY <1>1, <2>1
    <3> QED BY <1>1, <3>1
  <2>2. CASE j \in 1 .. Len(h)
    <3>1. p[j] = h[j] /\ \A i \in 1 .. j - 1 : p[i] = h[i] /\ i \in 1 .. Len(h)
      BY <1>1, <2>2
    <3> QED BY <1>2, <2>2, <3>1 DEF WellFormed, ReadsAsTurns
  <2> QED BY <1>1, <2>1, <2>2
<1>3. \A i \in 1 .. Len(p) : p[i].call # NoCall => p[i].kind \in ToolKinds
  BY <1>1 DEF WellFormed
<1>4. p[1].turn # 0
  <2>1. CASE Len(h) = 0
    BY <1>1, <2>1
  <2>2. CASE Len(h) # 0
    <3>1. p[1] = h[1] /\ h # <<>>
      BY <1>1, <2>2
    <3> QED BY <3>1 DEF WellFormed
  <2> QED BY <2>1, <2>2
<1> QED BY <1>2, <1>3, <1>4 DEF WellFormed, ReadsAsTurns, p

\* A summary may follow anything.
LEMMA SummaryKeepsForm ==
    ASSUME NEW h \in Seq(Entries), WellFormed(h), h # <<>>
    PROVE  WellFormed(Append(h, Summary))
<1> DEFINE p == Append(h, Summary)
<1>1. /\ p \in Seq(Entries) /\ Len(h) \in Nat /\ Len(p) = Len(h) + 1
      /\ p[Len(h) + 1] = Summary /\ \A i \in 1 .. Len(h) : p[i] = h[i]
  BY Appended, SummaryIsEntry
<1>2. Summary.turn = 0 /\ Summary.call = NoCall
  BY DEF Summary, Entry
<1>3. Len(h) > 0
  BY <1>1
<1> HIDE DEF p
<1>4. ASSUME NEW j \in 1 .. Len(p), p[j].turn # 0
      PROVE  /\ \A i \in 1 .. j - 1 : p[i] # p[j] /\ p[i].turn <= p[j].turn
             /\ p[j].kind # "user_prompt" => \E i \in 1 .. j - 1 : p[i] = PromptOf(p[j].turn)
             /\ p[j].kind = "tool_result" =>
                   \E i \in 1 .. j - 1 : p[i] = Entry(p[j].turn, "tool_call", p[j].call)
  <2>1. j \in 1 .. Len(h)
    <3>1. j # Len(h) + 1
      BY <1>1, <1>2, <1>4
    <3> QED BY <1>1, <3>1
  <2>2. p[j] = h[j] /\ \A i \in 1 .. j - 1 : p[i] = h[i] /\ i \in 1 .. Len(h)
    BY <1>1, <2>1
  <2> QED BY <1>4, <2>1, <2>2 DEF WellFormed, ReadsAsTurns
<1>5. \A i \in 1 .. Len(p) : p[i].call # NoCall => p[i].kind \in ToolKinds
  BY <1>1, <1>2 DEF WellFormed
<1>6. p[1].turn # 0
  <2>1. p[1] = h[1]
    BY <1>1, <1>3
  <2> QED BY <2>1 DEF WellFormed
<1> QED BY <1>4, <1>5, <1>6 DEF WellFormed, ReadsAsTurns, p

LEMMA PrefixKeepsForm ==
    ASSUME NEW g \in Seq(Entries), NEW h \in Seq(Entries), AddsToTurn(g, h), WellFormed(h)
    PROVE  WellFormed(g)
<1>1. /\ Len(g) \in Nat /\ Len(h) \in Nat /\ Len(g) <= Len(h)
      /\ \A i \in 1 .. Len(g) : h[i] = g[i] /\ i \in 1 .. Len(h)
  BY DEF AddsToTurn
<1>2. ASSUME NEW j \in 1 .. Len(g), g[j].turn # 0
      PROVE  /\ \A i \in 1 .. j - 1 : g[i] # g[j] /\ g[i].turn <= g[j].turn
             /\ g[j].kind # "user_prompt" => \E i \in 1 .. j - 1 : g[i] = PromptOf(g[j].turn)
             /\ g[j].kind = "tool_result" =>
                   \E i \in 1 .. j - 1 : g[i] = Entry(g[j].turn, "tool_call", g[j].call)
  <2>1. h[j] = g[j] /\ j \in 1 .. Len(h) /\ \A i \in 1 .. j - 1 : h[i] = g[i]
    BY <1>1
  <2> QED BY <1>2, <2>1 DEF WellFormed, ReadsAsTurns
<1>3. \A i \in 1 .. Len(g) : g[i].call # NoCall => g[i].kind \in ToolKinds
  BY <1>1 DEF WellFormed
<1>4. ASSUME g # <<>> PROVE g[1].turn # 0
  <2>1. 1 \in 1 .. Len(g) /\ h # <<>>
    BY <1>1, <1>4
  <2> QED BY <1>1, <2>1 DEF WellFormed
<1> QED BY <1>2, <1>3, <1>4 DEF WellFormed, ReadsAsTurns

-----------------------------------------------------------------------------
(* The entries of a turn that has ended stay. *)

SameOfTurn(g, h, t) ==
    /\ \A i \in 1 .. Len(g) : g[i].turn = t => i \in 1 .. Len(h) /\ h[i] = g[i]
    /\ \A i \in 1 .. Len(h) : h[i].turn = t => i \in 1 .. Len(g) /\ g[i] = h[i]

LEMMA AddedIsSame ==
    ASSUME NEW g \in Seq(Entries), NEW h \in Seq(Entries), AddsToTurn(g, h), NEW t, t # turn
    PROVE  SameOfTurn(g, h, t) /\ SameOfTurn(h, g, t)
<1>1. Len(g) \in Nat /\ Len(h) \in Nat
  OBVIOUS
<1> QED BY <1>1 DEF AddsToTurn, SameOfTurn

LEMMA SummaryIsSame ==
    ASSUME NEW h \in Seq(Entries), NEW t \in Turns
    PROVE  SameOfTurn(h, Append(h, Summary), t)
<1> DEFINE p == Append(h, Summary)
<1>1. /\ Len(h) \in Nat /\ Len(p) = Len(h) + 1
      /\ p[Len(h) + 1] = Summary /\ \A i \in 1 .. Len(h) : p[i] = h[i]
  BY Appended, SummaryIsEntry
<1>2. Summary.turn # t
  BY DEF Summary, Entry, Turns
<1> HIDE DEF p
<1>3. SameOfTurn(h, p, t)
  BY <1>1, <1>2 DEF SameOfTurn
<1> QED BY <1>3 DEF p

LEMMA SameTransitive ==
    ASSUME NEW f, NEW g, NEW h, NEW t, SameOfTurn(f, g, t), SameOfTurn(g, h, t)
    PROVE  SameOfTurn(f, h, t)
BY DEF SameOfTurn

LEMMA SameKeepsClosed ==
    ASSUME NEW g, NEW h, NEW t \in Turns, NEW k \in TerminalKinds, SameOfTurn(g, h, t), ClosedIsRecorded(g, t, k)
    PROVE  ClosedIsRecorded(h, t, k)
<1>1. PICK first \in 1 .. Len(g), last \in 1 .. Len(g) :
        /\ g[first] = PromptOf(t) /\ g[last] = Entry(t, k, NoCall)
        /\ \A i \in 1 .. Len(g) : g[i].turn = t /\ i # first /\ i # last =>
              first < i /\ i < last /\ g[i].kind \in ToolKinds
  BY DEF ClosedIsRecorded
<1>2. g[first].turn = t /\ g[last].turn = t
  BY <1>1 DEF PromptOf, Entry
<1>3. first \in 1 .. Len(h) /\ last \in 1 .. Len(h) /\ h[first] = g[first] /\ h[last] = g[last]
  BY <1>2 DEF SameOfTurn
<1>4. \A i \in 1 .. Len(h) : h[i].turn = t /\ i # first /\ i # last =>
          first < i /\ i < last /\ h[i].kind \in ToolKinds
  BY <1>1 DEF SameOfTurn
<1> QED BY <1>1, <1>3, <1>4 DEF ClosedIsRecorded

LEMMA SameKeepsAnswered ==
    ASSUME NEW g, NEW h, NEW t \in Turns, NEW but, h \in Seq(Entries), SameOfTurn(g, h, t), AllAnswered(g, t, but)
    PROVE  AllAnswered(h, t, but)
<1> SUFFICES ASSUME NEW i \in 1 .. Len(h), h[i].turn = t, h[i].kind = "tool_call", h[i].call \notin but
             PROVE  \E j \in 1 .. Len(h) : h[j] = Entry(t, "tool_result", h[i].call)
  BY DEF AllAnswered
<1>1. i \in 1 .. Len(g) /\ g[i] = h[i]
  BY DEF SameOfTurn
<1>2. PICK j \in 1 .. Len(g) : g[j] = Entry(t, "tool_result", h[i].call)
  BY <1>1 DEF AllAnswered
<1>3. g[j].turn = t
  BY <1>2 DEF Entry
<1> QED BY <1>2, <1>3 DEF SameOfTurn

-----------------------------------------------------------------------------
(* The entries of the running turn. *)

\* The running turn is open, or closed with kind k, in h; g is from before it.
Open(g, h) ==
    /\ g \in Seq(Entries) /\ h \in Seq(Entries)
    /\ WellFormed(h) /\ Before(g, turn) /\ AddsToTurn(g, h) /\ OpenIn(g, h)
Shut(g, h, k) ==
    /\ g \in Seq(Entries) /\ h \in Seq(Entries)
    /\ WellFormed(h) /\ Before(g, turn) /\ AddsToTurn(g, h) /\ ClosedIn(g, h, k)

LEMMA AddedUpToTurn ==
    ASSUME turn \in Turns, NEW g \in Seq(Entries), NEW h \in Seq(Entries), AddsToTurn(g, h), Before(g, turn)
    PROVE  \A i \in 1 .. Len(h) : h[i].turn <= turn
<1>1. /\ Len(g) \in Nat /\ Len(h) \in Nat /\ turn \in Nat
      /\ \A i \in 1 .. Len(g) : g[i].turn \in Nat
  BY ElementsAreEntries DEF Turns
<1> SUFFICES ASSUME NEW i \in 1 .. Len(h) PROVE h[i].turn <= turn
  OBVIOUS
<1>2. CASE i \in 1 .. Len(g)
  BY <1>1, <1>2 DEF AddsToTurn, Before
<1>3. CASE i \in Len(g) + 1 .. Len(h)
  BY <1>1, <1>3 DEF AddsToTurn
<1> QED BY <1>1, <1>2, <1>3

LEMMA PromptOpens ==
    ASSUME turn \in Turns, NEW h \in Seq(Entries), WellFormed(h), Before(h, turn)
    PROVE  /\ Open(h, Append(h, Recorded("user_prompt")))
           /\ AllAnswered(Append(h, Recorded("user_prompt")), turn, {})
<1> DEFINE e == Recorded("user_prompt")
           p == Append(h, e)
<1>1. /\ e \in Entries /\ e.turn = turn /\ e.kind = "user_prompt" /\ e.call = NoCall /\ e = PromptOf(turn)
  <2>1. turn \in Turns \union {0} /\ "user_prompt" \in EntryKinds /\ NoCall \in Calls \union {NoCall}
    BY DEF EntryKinds
  <2>2. e = Entry(turn, "user_prompt", NoCall)
    BY Zenon DEF Recorded
  <2> HIDE DEF e
  <2>3. e = PromptOf(turn)
    BY ONLY <2>2 DEF PromptOf
  <2>4. e \in Entries /\ e.turn = turn /\ e.kind = "user_prompt" /\ e.call = NoCall
    <3>1. e = [turn |-> turn, kind |-> "user_prompt", call |-> NoCall]
      BY ONLY <2>2 DEF Entry
    <3> QED BY ONLY <2>1, <3>1 DEF Entries
  <2> QED BY <2>3, <2>4
<1>2. turn # 0 /\ turn \in Nat
  BY DEF Turns
<1> HIDE DEF e
<1>3. /\ p \in Seq(Entries) /\ Len(h) \in Nat /\ Len(p) = Len(h) + 1
      /\ p[Len(h) + 1] = e /\ \A i \in 1 .. Len(h) : p[i] = h[i]
  BY <1>1, Appended
<1>4. \A i \in 1 .. Len(h) : h[i].turn <= e.turn /\ h[i] # e
  <2>1. \A i \in 1 .. Len(h) : h[i].turn \in Nat
    BY ElementsAreEntries DEF Turns
  <2> QED BY <1>1, <1>2, <2>1 DEF Before
<1>5. WellFormed(p)
  BY <1>1, <1>2, <1>4, AppendKeepsForm
<1> HIDE DEF p
<1>6. AddsToTurn(h, p)
  BY <1>1, <1>3 DEF AddsToTurn
<1>7. OpenIn(h, p)
  BY <1>1, <1>3 DEF OpenIn
<1>8. AllAnswered(p, turn, {})
  <2> SUFFICES ASSUME NEW i \in 1 .. Len(p), p[i].turn = turn, p[i].kind = "tool_call" PROVE FALSE
    BY DEF AllAnswered
  <2>1. CASE i \in 1 .. Len(h)
    BY <1>2, <1>3, <2>1 DEF Before
  <2>2. CASE i = Len(h) + 1
    BY <1>1, <1>3, <2>2
  <2> QED BY <1>3, <2>1, <2>2
<1> QED BY <1>3, <1>5, <1>6, <1>7, <1>8 DEF Open, p, e

\* What may be added to an open turn.
LEMMA OpenFacts ==
    ASSUME turn \in Turns, NEW g, NEW h, Open(g, h)
    PROVE  /\ g \in Seq(Entries) /\ h \in Seq(Entries) /\ Len(g) \in Nat /\ Len(h) \in Nat /\ turn \in Nat \ {0}
           /\ \A i \in 1 .. Len(h) : h[i].turn <= turn
           /\ \E i \in 1 .. Len(h) : h[i] = PromptOf(turn)
           /\ \A i \in 1 .. Len(h) : h[i].turn = turn => h[i].kind \in ToolKinds \union {"user_prompt"}
           /\ WellFormed(h)
<1>1. /\ g \in Seq(Entries) /\ h \in Seq(Entries) /\ Len(g) \in Nat /\ Len(h) \in Nat /\ turn \in Nat \ {0}
      /\ WellFormed(h)
  BY DEF Open, Turns
<1>2. \A i \in 1 .. Len(h) : h[i].turn <= turn
  BY AddedUpToTurn DEF Open
<1>3. Len(g) + 1 \in 1 .. Len(h) /\ h[Len(g) + 1] = PromptOf(turn)
  BY <1>1 DEF Open, OpenIn
<1>4. ASSUME NEW i \in 1 .. Len(h), h[i].turn = turn PROVE h[i].kind \in ToolKinds \union {"user_prompt"}
  <2>1. CASE i \in 1 .. Len(g)
    BY <1>1, <1>4, <2>1 DEF Open, Before, AddsToTurn
  <2>2. CASE i = Len(g) + 1
    BY <1>3, <2>2 DEF PromptOf, Entry
  <2>3. CASE i \in Len(g) + 2 .. Len(h)
    BY <2>3 DEF Open, OpenIn
  <2> QED BY <1>1, <2>1, <2>2, <2>3
<1> QED BY <1>1, <1>2, <1>3, <1>4

LEMMA ToolEntryKeepsOpen ==
    ASSUME turn \in Turns, NEW g, NEW h, Open(g, h), NEW c \in Calls, NEW k \in ToolKinds,
           \A i \in 1 .. Len(h) : h[i] # CallEntry(k, c),
           k = "tool_result" => \E i \in 1 .. Len(h) : h[i] = CallEntry("tool_call", c)
    PROVE  Open(g, Append(h, CallEntry(k, c)))
<1> DEFINE e == CallEntry(k, c)
           p == Append(h, e)
<1>1. e \in Entries /\ e.turn = turn /\ e.kind = k /\ e.call = c
  BY DEF CallEntry, Entry, Entries, ToolKinds, EntryKinds
<1>2. k = "tool_result" => \E i \in 1 .. Len(h) : h[i] = Entry(e.turn, "tool_call", e.call)
  BY <1>1 DEF CallEntry
<1> HIDE DEF e
<1>3. /\ g \in Seq(Entries) /\ h \in Seq(Entries) /\ Len(g) \in Nat /\ turn # 0
      /\ \A i \in 1 .. Len(h) : h[i].turn <= turn
      /\ \E i \in 1 .. Len(h) : h[i] = PromptOf(turn)
      /\ WellFormed(h)
  BY OpenFacts
<1>4. /\ p \in Seq(Entries) /\ Len(h) \in Nat /\ Len(p) = Len(h) + 1
      /\ p[Len(h) + 1] = e /\ \A i \in 1 .. Len(h) : p[i] = h[i]
  BY <1>1, <1>3, Appended
<1>5. WellFormed(p)
  <2>1. \A i \in 1 .. Len(h) : h[i] # e
    BY DEF e
  <2> QED BY <1>1, <1>2, <1>3, <2>1, AppendKeepsForm
<1> HIDE DEF p
<1>6. AddsToTurn(g, p)
  BY <1>1, <1>3, AppendAdds DEF Open, p
<1>7. OpenIn(g, p)
  <2>1. Len(g) + 1 \in 1 .. Len(h) /\ p[Len(g) + 1] = PromptOf(turn)
    BY <1>3, <1>4 DEF Open, OpenIn
  <2>2. ASSUME NEW i \in Len(g) + 2 .. Len(p) PROVE p[i].kind \in ToolKinds
    <3>1. CASE i = Len(h) + 1
      BY <1>1, <1>4, <3>1
    <3>2. CASE i \in Len(g) + 2 .. Len(h)
      BY <1>3, <1>4, <3>2 DEF Open, OpenIn
    <3>3. Len(g) \in Nat /\ Len(h) \in Nat /\ Len(p) = Len(h) + 1
      BY <1>3, <1>4
    <3> QED BY <3>1, <3>2, <3>3
  <2> QED BY <1>3, <1>4, <2>1, <2>2 DEF OpenIn
<1> QED BY <1>3, <1>4, <1>5, <1>6, <1>7 DEF Open, p, e

LEMMA TerminalShuts ==
    ASSUME turn \in Turns, NEW g, NEW h, Open(g, h), NEW k \in TerminalKinds
    PROVE  /\ Shut(g, Append(h, Recorded(k)), k)
           /\ AllAnswered(h, turn, {}) => AllAnswered(Append(h, Recorded(k)), turn, {})
<1> DEFINE e == Recorded(k)
           p == Append(h, e)
<1>1. /\ e \in Entries /\ e.turn = turn /\ e.kind = k /\ e.call = NoCall
      /\ k \notin ToolKinds \union {"user_prompt"}
  BY EntryFields DEF Recorded, EntryKinds, TerminalKinds, ToolKinds
<1> HIDE DEF e
<1>2. /\ g \in Seq(Entries) /\ h \in Seq(Entries) /\ Len(g) \in Nat /\ turn # 0
      /\ \A i \in 1 .. Len(h) : h[i].turn <= turn
      /\ \E i \in 1 .. Len(h) : h[i] = PromptOf(turn)
      /\ \A i \in 1 .. Len(h) : h[i].turn = turn => h[i].kind \in ToolKinds \union {"user_prompt"}
      /\ WellFormed(h)
  BY OpenFacts
<1>3. /\ p \in Seq(Entries) /\ Len(h) \in Nat /\ Len(p) = Len(h) + 1
      /\ p[Len(h) + 1] = e /\ \A i \in 1 .. Len(h) : p[i] = h[i]
  BY <1>1, <1>2, Appended
<1>4. WellFormed(p)
  <2>1. \A i \in 1 .. Len(h) : h[i] # e
    BY <1>1, <1>2
  <2>2. k # "tool_result"
    BY <1>1 DEF ToolKinds
  <2> QED BY <1>1, <1>2, <2>1, <2>2, AppendKeepsForm
<1> HIDE DEF p
<1>5. AddsToTurn(g, p)
  BY <1>1, <1>2, AppendAdds DEF Open, p
<1>6. ClosedIn(g, p, k)
  <2>1. Len(g) + 1 \in 1 .. Len(h) /\ p[Len(g) + 1] = PromptOf(turn)
    BY <1>2, <1>3 DEF Open, OpenIn
  <2>2. \A i \in Len(g) + 2 .. Len(h) : p[i].kind \in ToolKinds
    BY <1>2, <1>3 DEF Open, OpenIn
  <2>3. p[Len(p)] = Recorded(k) /\ Len(p) - 1 = Len(h)
    BY <1>3 DEF e
  <2> QED BY <1>2, <1>3, <2>1, <2>2, <2>3 DEF ClosedIn
<1>7. ASSUME AllAnswered(h, turn, {}) PROVE AllAnswered(p, turn, {})
  <2> SUFFICES ASSUME NEW i \in 1 .. Len(p), p[i].turn = turn, p[i].kind = "tool_call"
               PROVE  \E j \in 1 .. Len(p) : p[j] = Entry(turn, "tool_result", p[i].call)
    BY DEF AllAnswered
  <2>1. i \in 1 .. Len(h)
    <3>1. i # Len(h) + 1
      BY <1>1, <1>3 DEF ToolKinds
    <3> QED BY <1>3, <3>1
  <2>2. PICK j \in 1 .. Len(h) : h[j] = Entry(turn, "tool_result", p[i].call)
    BY <1>3, <1>7, <2>1 DEF AllAnswered
  <2> QED BY <1>3, <2>2
<1> QED BY <1>2, <1>3, <1>4, <1>5, <1>6, <1>7 DEF Open, Shut, p, e

-----------------------------------------------------------------------------
(* Where a step leaves the running turn. *)

LEMMA OpenNow ==
    ASSUME TypeInv, StageInv, SnapshotInv, pc \in OpenPoints
    PROVE  turn \in Turns /\ Open(snapshot, history) /\ promptRecorded /\ ~terminalRecorded
<1>1. pc \notin {"none", "created", "yStarted", "aRecovery"} /\ pc \notin ClosingPoints
  BY DEF OpenPoints, BatchPoints, ClosingPoints
<1>2. Before(snapshot, turn) /\ AddsToTurn(snapshot, history)
  BY <1>1 DEF StageInv, Working, SnapshotInv
<1> QED BY <1>1, <1>2 DEF StageInv, TypeInv, TypeOK, Open

LEMMA NotYetOpen ==
    ASSUME TypeInv, StageInv, pc \in BeforePrompt
    PROVE  /\ turn \in Turns /\ history \in Seq(Entries) /\ WellFormed(history) /\ Before(history, turn)
           /\ promptRecorded = FALSE /\ terminalRecorded = FALSE
<1>1. pc \notin OpenPoints \union ClosingPoints /\ pc # "none"
  BY DEF BeforePrompt, OpenPoints, BatchPoints, ClosingPoints
<1>2. promptRecorded = FALSE /\ terminalRecorded = FALSE
  BY <1>1 DEF StageInv, TypeInv, TypeOK
<1>3. Before(history, turn)
  BY DEF StageInv, BeforePrompt, Working
<1> QED BY <1>1, <1>2, <1>3 DEF StageInv, TypeInv, TypeOK

LEMMA LeavesOpen ==
    ASSUME UNCHANGED <<turn, snapshot>>, turn \in Turns, Open(snapshot, history'),
           pc' \in OpenPoints, promptRecorded' = TRUE, terminalRecorded' = FALSE,
           pc' = "yFinal" => closing' \in FinishedKinds
    PROVE  StageInv'
<1>1. pc' \notin BeforePrompt \union ClosingPoints \union {"none"}
  BY DEF BeforePrompt, OpenPoints, BatchPoints, ClosingPoints
<1>2. /\ WellFormed(history') /\ Before(snapshot', turn') /\ OpenIn(snapshot, history')
      /\ \A i \in 1 .. Len(history') : history'[i].turn <= turn'
  BY OpenFacts DEF Open
<1>3. WellFormed(history)' /\ Before(snapshot, turn)' /\ OpenIn(snapshot, history)'
  BY <1>2 DEF WellFormed, ReadsAsTurns, Before, OpenIn, PromptOf
<1> QED BY <1>1, <1>2, <1>3 DEF StageInv, BeforePrompt

LEMMA LeavesShut ==
    ASSUME turn' = turn, turn \in Turns, Shut(snapshot', history', closing'),
           pc' \in ClosingPoints, promptRecorded' = TRUE, terminalRecorded' = TRUE
    PROVE  StageInv'
<1>1. pc' \notin BeforePrompt \union OpenPoints \union {"none"}
  BY DEF BeforePrompt, OpenPoints, BatchPoints, ClosingPoints
<1>2. /\ WellFormed(history') /\ Before(snapshot', turn') /\ ClosedIn(snapshot', history', closing')
      /\ \A i \in 1 .. Len(history') : history'[i].turn <= turn'
  BY AddedUpToTurn DEF Shut
<1>3. WellFormed(history)' /\ Before(snapshot, turn)' /\ ClosedIn(snapshot, history, closing)'
  BY <1>2 DEF WellFormed, ReadsAsTurns, Before, ClosedIn, PromptOf, Recorded
<1> QED BY <1>1, <1>2, <1>3 DEF StageInv, BeforePrompt, OpenPoints

LEMMA LeavesBefore ==
    ASSUME turn' = turn, turn \in Turns, NEW h \in Seq(Entries), WellFormed(h), Before(h, turn),
           history' = h, snapshot' = h, pc' \in {"aPrompt", "aRecovery"},
           promptRecorded' = FALSE, terminalRecorded' = FALSE, pc' = "aRecovery" => h # <<>>
    PROVE  StageInv'
<1>1. pc' \notin OpenPoints \union ClosingPoints \union {"none", "created", "yStarted"}
  BY DEF OpenPoints, BatchPoints, ClosingPoints
<1>2. \A i \in 1 .. Len(h) : h[i].turn <= turn
  <2>1. turn \in Nat /\ \A i \in 1 .. Len(h) : h[i].turn \in Nat
    BY ElementsAreEntries DEF Turns
  <2> QED BY <2>1 DEF Before
<1>3. WellFormed(history)' /\ Before(snapshot, turn)'
  BY DEF WellFormed, ReadsAsTurns, Before, PromptOf
<1> QED BY <1>1, <1>2, <1>3 DEF StageInv, OpenPoints

LEMMA NoCallsLeft ==
    ASSUME turn' = turn, batch' = <<>>, pc' \notin OpenPoints,
           pc' \in ClosingPoints /\ closing' \in FinishedKinds => AllAnswered(history', turn, {})
    PROVE  CallsInv'
<1>1. pc' \notin BatchPoints \union Collecting \union Executing
  BY DEF OpenPoints, BatchPoints, Collecting, Executing
<1>2. pc' \in ClosingPoints /\ closing' \in FinishedKinds => AllAnswered(history, turn, {})'
  BY DEF AllAnswered
<1> QED BY <1>1, <1>2 DEF CallsInv

\* A turn that is not in the history yet is recorded at once, with its end.
LEMMA CloseUnopened ==
    ASSUME TypeInv, StageInv, turn' = turn, pc \in BeforePrompt,
           NEW h \in Seq(Entries), WellFormed(h), Before(h, turn), snapshot' = h,
           NEW k \in {"failed", "interrupted"}, Close(h, k)
    PROVE  StageInv' /\ CallsInv'
<1> DEFINE opened == Append(h, Recorded("user_prompt"))
<1>1. turn \in Turns /\ promptRecorded = FALSE /\ terminalRecorded = FALSE
  BY NotYetOpen
<1>2. /\ history' = Append(opened, Recorded(k)) /\ promptRecorded' = TRUE /\ terminalRecorded' = TRUE
      /\ closing' = k /\ pc' \in ClosingPoints /\ batch' = <<>>
  BY <1>1 DEF Close, EmitTerminal, ClosingPoints
<1>3. Open(h, opened)
  BY <1>1, PromptOpens
<1> HIDE DEF opened
<1>4. Shut(h, Append(opened, Recorded(k)), k)
  BY <1>1, <1>3, TerminalShuts DEF TerminalKinds
<1>5. StageInv'
  BY <1>1, <1>2, <1>4, LeavesShut
<1>6. CallsInv'
  BY <1>2, NoCallsLeft DEF FinishedKinds, OpenPoints, BatchPoints, ClosingPoints
<1> QED BY <1>5, <1>6

LEMMA CloseOpen ==
    ASSUME TypeInv, StageInv, SnapshotInv, UNCHANGED <<turn, snapshot>>, pc \in OpenPoints,
           NEW k \in {"failed", "interrupted"}, Close(history, k)
    PROVE  StageInv' /\ CallsInv'
<1>1. turn \in Turns /\ Open(snapshot, history) /\ promptRecorded /\ ~terminalRecorded
  BY OpenNow
<1>2. /\ history' = Append(history, Recorded(k)) /\ promptRecorded' = TRUE /\ terminalRecorded' = TRUE
      /\ closing' = k /\ pc' \in ClosingPoints /\ batch' = <<>>
  BY <1>1 DEF Close, EmitTerminal, ClosingPoints
<1>3. Shut(snapshot, Append(history, Recorded(k)), k)
  BY <1>1, TerminalShuts DEF TerminalKinds
<1>4. StageInv'
  BY <1>1, <1>2, <1>3, LeavesShut
<1>5. CallsInv'
  BY <1>2, NoCallsLeft DEF FinishedKinds, OpenPoints, BatchPoints, ClosingPoints
<1> QED BY <1>4, <1>5

LEMMA EndOpen ==
    ASSUME TypeInv, StageInv, SnapshotInv, UNCHANGED <<turn, snapshot>>, pc \in OpenPoints,
           EndBeforeCompletion
    PROVE  StageInv' /\ CallsInv'
<1>1. turn \in Turns /\ Open(snapshot, history) /\ promptRecorded /\ ~terminalRecorded
  BY OpenNow
<1>2. /\ history' = Append(history, Recorded("failed")) /\ promptRecorded' = TRUE /\ terminalRecorded' = TRUE
      /\ closing' = "failed" /\ pc' \in ClosingPoints /\ batch' = <<>>
  BY <1>1 DEF EndBeforeCompletion, EmitTerminal, ClosingPoints, TypeInv, TypeOK
<1>3. Shut(snapshot, Append(history, Recorded("failed")), "failed")
  BY <1>1, TerminalShuts DEF TerminalKinds
<1>4. StageInv'
  BY <1>1, <1>2, <1>3, LeavesShut
<1>5. CallsInv'
  BY <1>2, NoCallsLeft DEF FinishedKinds, OpenPoints, BatchPoints, ClosingPoints
<1> QED BY <1>4, <1>5

\* A recovery goes back to the history the attempt began with.
LEMMA RecoverHistory ==
    ASSUME TypeInv, StageInv, SnapshotInv, UNCHANGED turn, pc \in OpenPoints \union {"aPrompt"},
           Recover, CanRecover
    PROVE  StageInv' /\ CallsInv'
<1>1. /\ snapshot \in Seq(Entries) /\ snapshot # <<>>
      /\ turn \in Turns /\ WellFormed(snapshot) /\ Before(snapshot, turn)
  <2>1. CASE pc \in OpenPoints
    BY <2>1, OpenNow, PrefixKeepsForm DEF Open, CanRecover
  <2>2. CASE pc = "aPrompt"
    BY <2>2, NotYetOpen DEF StageInv, BeforePrompt, CanRecover, TypeInv, TypeOK
  <2> QED BY <2>1, <2>2
<1>2. /\ history' = snapshot /\ snapshot' = snapshot /\ pc' = "aRecovery" /\ batch' = <<>>
      /\ promptRecorded' = FALSE /\ terminalRecorded' = FALSE
  BY DEF Recover, RecoverFrom
<1>3. StageInv'
  BY <1>1, <1>2, LeavesBefore
<1>4. CallsInv'
  BY <1>2, NoCallsLeft DEF OpenPoints, BatchPoints, ClosingPoints
<1> QED BY <1>3, <1>4

LEMMA ThrowHistory ==
    ASSUME TypeInv, StageInv, SnapshotInv, UNCHANGED turn, pc \in OpenPoints \union {"aPrompt"},
           NEW e, Throw(e)
    PROVE  StageInv' /\ CallsInv'
<1>1. CASE e = "overflow" /\ CanRecover
  BY <1>1, RecoverHistory DEF Throw
<1>2. CASE ~(e = "overflow" /\ CanRecover)
  <2>1. PICK k \in {"failed", "interrupted"} : Close(history, k)
    BY <1>2 DEF Throw
  <2>2. snapshot' = snapshot
    BY <1>2 DEF Throw, attempt
  <2>3. CASE pc \in OpenPoints
    BY <2>1, <2>2, <2>3, CloseOpen
  <2>4. CASE pc = "aPrompt"
    <3>1. snapshot' = history /\ pc \in BeforePrompt
      BY <2>2, <2>4 DEF StageInv, BeforePrompt
    <3> QED BY <2>1, <3>1, NotYetOpen, CloseUnopened
  <2> QED BY <2>3, <2>4
<1> QED BY <1>1, <1>2

LEMMA BeginHistory ==
    ASSUME TypeInv, StageInv, CallsInv, UNCHANGED turn, pc \in {"yStarted", "aRecovery"},
           NEW h \in Seq(Entries), WellFormed(h), Before(h, turn), BeginAttempt(h)
    PROVE  StageInv' /\ CallsInv'
<1>1. pc \in BeforePrompt /\ pc \notin BatchPoints /\ snapshot' = h
  BY DEF BeforePrompt, BatchPoints, BeginAttempt
<1>2. turn \in Turns /\ promptRecorded = FALSE /\ terminalRecorded = FALSE /\ batch = <<>>
  BY <1>1, NotYetOpen DEF CallsInv
<1>3. CASE interrupted
  BY <1>1, <1>3, CloseUnopened DEF BeginAttempt
<1>4. CASE ~interrupted
  <2>1. /\ history' = h /\ pc' = "aPrompt" /\ batch' = <<>>
        /\ promptRecorded' = FALSE /\ terminalRecorded' = FALSE
    BY <1>2, <1>4 DEF BeginAttempt, stream
  <2>2. StageInv'
    BY <1>1, <1>2, <2>1, LeavesBefore
  <2>3. CallsInv'
    BY <2>1, NoCallsLeft DEF OpenPoints, BatchPoints, ClosingPoints
  <2> QED BY <2>2, <2>3
<1> QED BY <1>3, <1>4

-----------------------------------------------------------------------------
(* What a step does to the calls of the batch. *)

\* A move of the generator that records nothing and takes no call on.
LEMMA MoveHistory ==
    ASSUME TypeInv, StageInv, SnapshotInv, CallsInv,
           UNCHANGED <<history, promptRecorded, terminalRecorded, snapshot, turn, batch>>,
           pc \in OpenPoints, pc' \in OpenPoints,
           pc' = "yFinal" => closing' \in FinishedKinds,
           pc \in BatchPoints <=> pc' \in BatchPoints,
           pc \in Executing <=> pc' \in Executing,
           pc' \in Collecting => pc \in Collecting
    PROVE  StageInv' /\ CallsInv'
<1>1. /\ turn \in Turns /\ Open(snapshot, history)
      /\ promptRecorded = TRUE /\ terminalRecorded = FALSE
  BY OpenNow DEF TypeInv, TypeOK
<1>2. Open(snapshot, history')
  BY <1>1
<1>3. StageInv'
  BY <1>1, <1>2, LeavesOpen
<1>4. pc' \notin ClosingPoints
  BY DEF OpenPoints, BatchPoints, ClosingPoints
<1>5. CallsInv'
  BY <1>4 DEF CallsInv, AllAnswered, Unnamed, Unanswered, CallEntry
<1> QED BY <1>3, <1>5

\* The batch is done.
LEMMA BatchDoneHistory ==
    ASSUME TypeInv, StageInv, SnapshotInv, CallsInv, UNCHANGED turn, pc = "aSubmit", AfterBatch
    PROVE  StageInv' /\ CallsInv'
<1>1. /\ turn \in Turns /\ Open(snapshot, history) /\ pc \in OpenPoints
      /\ promptRecorded = TRUE /\ terminalRecorded = FALSE
  BY OpenNow DEF TypeInv, TypeOK, OpenPoints, BatchPoints
<1>2. CASE carry = "end"
  <2>1. EndBeforeCompletion /\ snapshot' = snapshot
    BY <1>2 DEF AfterBatch, attempt
  <2> QED BY <1>1, <2>1, EndOpen
<1>3. CASE carry # "end"
  <2>1. /\ UNCHANGED <<history, promptRecorded, terminalRecorded, snapshot>>
        /\ batch' = <<>> /\ pc' \in {"aProvider", "yEvents", "yFinal"}
        /\ pc' = "yFinal" => closing' \in FinishedKinds
    BY <1>3 DEF AfterBatch, session, attempt, FinishedKinds
  <2>2. StageInv'
    BY <1>1, <2>1, LeavesOpen DEF OpenPoints
  <2>3. AllAnswered(history, turn, {})
    BY DEF CallsInv, OpenPoints, BatchPoints, Executing
  <2>4. pc' \notin BatchPoints \union Collecting \union Executing \union ClosingPoints
    BY <2>1 DEF BatchPoints, Collecting, Executing, ClosingPoints
  <2>5. CallsInv'
    BY <2>1, <2>3, <2>4 DEF CallsInv, AllAnswered
  <2> QED BY <2>2, <2>5
<1> QED BY <1>2, <1>3

LEMMA ReceiveCallHistory ==
    ASSUME TypeInv, StageInv, SnapshotInv, CallsInv, NEW c \in Calls, ReceiveCall(c)
    PROVE  StageInv' /\ CallsInv'
<1>1. /\ UNCHANGED <<history, promptRecorded, terminalRecorded, snapshot, turn>>
      /\ batch' = Append(batch, c) /\ pc' = "aBatch" /\ pc \in {"aProvider", "aBatch"}
      /\ Fresh(c)
  BY DEF ReceiveCall, session, attempt, ledger
<1>2. /\ turn \in Turns /\ Open(snapshot, history)
      /\ promptRecorded = TRUE /\ terminalRecorded = FALSE
  BY <1>1, OpenNow DEF TypeInv, TypeOK, OpenPoints, BatchPoints
<1>3. StageInv'
  BY <1>1, <1>2, LeavesOpen DEF OpenPoints, BatchPoints
<1>4. /\ batch \in Seq(Calls) /\ Len(batch) \in Nat /\ Len(batch') = Len(batch) + 1
      /\ batch'[Len(batch) + 1] = c /\ \A i \in 1 .. Len(batch) : batch'[i] = batch[i]
  BY <1>1 DEF TypeInv, TypeOK
<1>5. Unnamed(c, history) /\ \A i \in 1 .. Len(batch) : batch[i] # c
  BY <1>1 DEF Fresh, TypeInv, TypeOK, Unnamed
<1>6. \A i \in 1 .. Len(batch) : Unnamed(batch[i], history)
  BY <1>1, <1>4 DEF CallsInv, BatchPoints, Collecting
<1>7. \A i \in 1 .. Len(batch') : Unnamed(batch'[i], history)
  BY <1>4, <1>5, <1>6
<1>8. \A i, j \in 1 .. Len(batch') : batch'[i] = batch'[j] => i = j
  BY <1>4, <1>5 DEF CallsInv
<1>9. AllAnswered(history, turn, {})
  BY <1>1 DEF CallsInv, OpenPoints, BatchPoints, Executing
<1>10. pc' \in BatchPoints /\ pc' \notin Executing \union ClosingPoints
  BY <1>1 DEF BatchPoints, Executing, ClosingPoints
<1>11. CallsInv'
  BY <1>1, <1>4, <1>7, <1>8, <1>9, <1>10 DEF CallsInv, AllAnswered, Unnamed
<1> QED BY <1>3, <1>11

\* The next call of the batch is recorded, a forbidden one with its result.
LEMMA StartCallHistory ==
    ASSUME TypeInv, StageInv, SnapshotInv, UNCHANGED <<turn, snapshot>>,
           pc \in OpenPoints, AllAnswered(history, turn, {}),
           NEW b \in Seq(Calls), b # <<>>, StartCall(b),
           \A i, j \in 1 .. Len(b) : b[i] = b[j] => i = j,
           \A i \in 1 .. Len(b) : Unnamed(b[i], history)
    PROVE  StageInv' /\ CallsInv'
<1> DEFINE c == b[1]
           called == Append(history, CallEntry("tool_call", c))
           answered == Append(called, CallEntry("tool_result", c))
<1>1. /\ turn \in Turns /\ Open(snapshot, history)
      /\ promptRecorded = TRUE /\ terminalRecorded = FALSE
  BY OpenNow DEF TypeInv, TypeOK
<1>2. /\ Len(b) \in Nat \ {0} /\ c \in Calls /\ Head(b) = c
      /\ \A i \in 1 .. Len(b) : b[i] \in Calls
  OBVIOUS
<1>3. /\ batch' = b /\ history' = (IF Gate[c] = "forbidden" THEN answered ELSE called)
      /\ pc' = FirstYield[Gate[c]]
      /\ promptRecorded' = TRUE /\ terminalRecorded' = FALSE
  BY <1>1, <1>2 DEF StartCall
<1> HIDE DEF c
<1>4. /\ CallEntry("tool_call", c) \in Entries /\ CallEntry("tool_result", c) \in Entries
      /\ CallEntry("tool_call", c).call = c /\ CallEntry("tool_result", c).call = c
      /\ CallEntry("tool_call", c).kind = "tool_call" /\ CallEntry("tool_result", c).kind = "tool_result"
      /\ CallEntry("tool_call", c).turn = turn
  BY <1>1, <1>2 DEF CallEntry, Entry, Entries, EntryKinds
<1>5. history \in Seq(Entries) /\ \A i \in 1 .. Len(history) : history[i].call # c
  BY <1>2 DEF Unnamed, c, TypeInv, TypeOK
<1>6. Open(snapshot, called)
  <2>1. \A i \in 1 .. Len(history) : history[i] # CallEntry("tool_call", c)
    BY <1>4, <1>5
  <2> QED BY <1>1, <1>2, <2>1, ToolEntryKeepsOpen DEF ToolKinds
<1>7. /\ called \in Seq(Entries) /\ Len(history) \in Nat /\ Len(called) = Len(history) + 1
      /\ called[Len(history) + 1] = CallEntry("tool_call", c)
      /\ \A i \in 1 .. Len(history) : called[i] = history[i]
  BY <1>4, <1>5, Appended
<1> HIDE DEF called
<1>8. Open(snapshot, answered)
  <2>1. \A i \in 1 .. Len(called) : called[i] # CallEntry("tool_result", c)
    <3> SUFFICES ASSUME NEW i \in 1 .. Len(called) PROVE called[i] # CallEntry("tool_result", c)
      OBVIOUS
    <3>1. CASE i = Len(history) + 1
      BY ONLY <1>4, <1>7, <3>1
    <3>2. CASE i \in 1 .. Len(history)
      BY ONLY <1>4, <1>5, <1>7, <3>2
    <3> QED BY <1>7, <3>1, <3>2
  <2>2. \E i \in 1 .. Len(called) : called[i] = CallEntry("tool_call", c)
    BY <1>7
  <2> QED BY <1>1, <1>2, <1>6, <2>1, <2>2, ToolEntryKeepsOpen DEF ToolKinds
<1>9. /\ answered \in Seq(Entries) /\ Len(answered) = Len(called) + 1
      /\ answered[Len(called) + 1] = CallEntry("tool_result", c)
      /\ \A i \in 1 .. Len(called) : answered[i] = called[i]
  BY <1>4, <1>7, Appended
<1> HIDE DEF answered
<1>10. \A i \in 2 .. Len(b) : Unnamed(b[i], called) /\ Unnamed(b[i], answered)
  <2> SUFFICES ASSUME NEW i \in 2 .. Len(b) PROVE Unnamed(b[i], called) /\ Unnamed(b[i], answered)
    OBVIOUS
  <2>1. b[i] # c /\ Unnamed(b[i], history)
    BY <1>2 DEF c
  <2>2. Unnamed(b[i], called)
    BY <1>4, <1>7, <2>1 DEF Unnamed
  <2>3. Unnamed(b[i], answered)
    <3> SUFFICES ASSUME NEW j \in 1 .. Len(answered) PROVE answered[j].call # b[i]
      BY DEF Unnamed
    <3>1. CASE j = Len(called) + 1
      BY <1>4, <1>9, <2>1, <3>1
    <3>2. CASE j \in 1 .. Len(called)
      BY <1>9, <2>2, <3>2 DEF Unnamed
    <3> QED BY <1>7, <1>9, <3>1, <3>2
  <2> QED BY <2>2, <2>3
<1>11. Unanswered(called, c)
  <2>1. called[Len(history) + 1] = CallEntry("tool_call", c) /\ Len(history) + 1 \in 1 .. Len(called)
    BY ONLY <1>7
  <2>2. ASSUME NEW i \in 1 .. Len(called), called[i].call = c
        PROVE  called[i].kind = "tool_call"
    <3>1. i \notin 1 .. Len(history)
      BY ONLY <1>5, <1>7, <2>2
    <3>2. i = Len(history) + 1
      BY ONLY <1>7, <2>2, <3>1
    <3> QED BY ONLY <1>4, <1>7, <3>2
  <2> QED BY ONLY <2>1, <2>2 DEF Unanswered
<1>12. AllAnswered(called, turn, {c})
  BY <1>4, <1>7 DEF AllAnswered
<1>13. AllAnswered(answered, turn, {})
  <2> SUFFICES ASSUME NEW i \in 1 .. Len(answered), answered[i].turn = turn, answered[i].kind = "tool_call"
               PROVE  \E j \in 1 .. Len(answered) : answered[j] = Entry(turn, "tool_result", answered[i].call)
    BY DEF AllAnswered
  <2>1. CASE answered[i].call = c
    <3>1. Len(called) + 1 \in 1 .. Len(answered)
      BY <1>7, <1>9
    <3> QED BY <1>9, <2>1, <3>1 DEF CallEntry
  <2>2. CASE answered[i].call # c
    <3>1. i \in 1 .. Len(called)
      BY <1>4, <1>7, <1>9, <2>2
    <3>2. PICK j \in 1 .. Len(called) : called[j] = Entry(turn, "tool_result", answered[i].call)
      BY <1>9, <1>12, <2>2, <3>1 DEF AllAnswered
    <3> QED BY <1>7, <1>9, <3>2
  <2> QED BY <2>1, <2>2
<1>14. Gate[c] \in GateKinds
  BY <1>2, GateAssumption
<1>15. CASE Gate[c] = "forbidden"
  <2>1. history' = answered /\ pc' = "yResult"
    BY <1>3, <1>15 DEF FirstYield
  <2>2. StageInv'
    BY <1>1, <1>3, <1>8, <2>1, LeavesOpen DEF OpenPoints, BatchPoints
  <2>3. pc' \in BatchPoints /\ pc' \notin Collecting \union Executing \union ClosingPoints
    BY <2>1 DEF BatchPoints, Collecting, Executing, ClosingPoints
  <2>4. CallsInv'
    BY <1>3, <1>10, <1>13, <2>1, <2>3 DEF CallsInv, AllAnswered, Unnamed
  <2> QED BY <2>2, <2>4
<1>16. CASE Gate[c] # "forbidden"
  <2>1. history' = called /\ pc' \in {"yRunning", "yPendingPart"}
    BY <1>3, <1>14, <1>16 DEF FirstYield, GateKinds
  <2>2. StageInv'
    BY <1>1, <1>3, <1>6, <2>1, LeavesOpen DEF OpenPoints, BatchPoints
  <2>3. pc' \in BatchPoints /\ pc' \in Executing /\ pc' \notin Collecting \union ClosingPoints
    BY <2>1 DEF BatchPoints, Collecting, Executing, ClosingPoints
  <2>4. batch' = b /\ history' = called /\ turn' = turn /\ Head(b) = c
    BY <1>2, <1>3, <2>1 DEF StartCall
  <2>5. Unanswered(history, Head(batch))'
    BY ONLY <1>11, <2>4 DEF Unanswered, CallEntry
  <2>6. AllAnswered(history, turn, {Head(batch)})'
    BY ONLY <1>12, <2>4 DEF AllAnswered
  <2>7. \A i \in 2 .. Len(batch') : Unnamed(batch[i], history)'
    BY ONLY <1>10, <2>4 DEF Unnamed
  <2>8. \A i, j \in 1 .. Len(batch') : batch'[i] = batch'[j] => i = j
    BY <2>4
  <2>9. CallsInv'
    BY ONLY <2>3, <2>5, <2>6, <2>7, <2>8 DEF CallsInv
  <2> QED BY <2>2, <2>9
<1> QED BY <1>15, <1>16

\* The executing call gets its result.
LEMMA ResultHistory ==
    ASSUME TypeInv, StageInv, SnapshotInv, CallsInv, pc \in Executing,
           history' = Append(history, CallEntry("tool_result", Head(batch))), pc' = "yResult",
           UNCHANGED <<promptRecorded, terminalRecorded, snapshot, turn, batch>>
    PROVE  StageInv' /\ CallsInv'
<1> DEFINE c == Head(batch)
           p == Append(history, CallEntry("tool_result", c))
<1>1. pc \in OpenPoints /\ pc \in BatchPoints
  BY DEF Executing, OpenPoints, BatchPoints
<1>2. /\ turn \in Turns /\ Open(snapshot, history)
      /\ promptRecorded = TRUE /\ terminalRecorded = FALSE
  BY <1>1, OpenNow DEF TypeInv, TypeOK
<1>3. batch \in Seq(Calls) /\ batch # <<>> /\ history \in Seq(Entries)
  BY <1>1 DEF TypeInv, TypeOK, Shape
<1>4. c \in Calls /\ c = batch[1] /\ Len(batch) \in Nat
  BY <1>3
<1>5. Unanswered(history, c) /\ AllAnswered(history, turn, {c})
  BY DEF CallsInv
<1> HIDE DEF c
<1>6. /\ CallEntry("tool_result", c) \in Entries /\ CallEntry("tool_result", c).call = c
      /\ CallEntry("tool_result", c).kind = "tool_result"
  BY <1>2, <1>4 DEF CallEntry, Entry, Entries, EntryKinds
<1>7. Open(snapshot, p)
  <2>1. \A i \in 1 .. Len(history) : history[i] # CallEntry("tool_result", c)
    BY <1>5, <1>6 DEF Unanswered
  <2>2. \E i \in 1 .. Len(history) : history[i] = CallEntry("tool_call", c)
    BY <1>5 DEF Unanswered
  <2> QED BY <1>2, <1>4, <2>1, <2>2, ToolEntryKeepsOpen DEF ToolKinds
<1>8. /\ p \in Seq(Entries) /\ Len(history) \in Nat /\ Len(p) = Len(history) + 1
      /\ p[Len(history) + 1] = CallEntry("tool_result", c)
      /\ \A i \in 1 .. Len(history) : p[i] = history[i]
  BY <1>3, <1>6, Appended
<1>9. history' = p
  BY DEF c
<1> HIDE DEF p
<1>10. StageInv'
  BY <1>2, <1>7, <1>9, LeavesOpen DEF OpenPoints, BatchPoints
<1>11. \A i \in 2 .. Len(batch) : Unnamed(batch[i], p)
  <2> SUFFICES ASSUME NEW i \in 2 .. Len(batch) PROVE Unnamed(batch[i], p)
    OBVIOUS
  <2>1. batch[i] # c /\ Unnamed(batch[i], history)
    BY <1>4 DEF CallsInv
  <2> QED BY <1>6, <1>8, <2>1 DEF Unnamed
<1>12. AllAnswered(p, turn, {})
  <2> SUFFICES ASSUME NEW i \in 1 .. Len(p), p[i].turn = turn, p[i].kind = "tool_call"
               PROVE  \E j \in 1 .. Len(p) : p[j] = Entry(turn, "tool_result", p[i].call)
    BY DEF AllAnswered
  <2>1. i \in 1 .. Len(history)
    <3>1. i # Len(history) + 1
      BY <1>6, <1>8
    <3> QED BY <1>8, <3>1
  <2>2. CASE p[i].call = c
    <3>1. Len(history) + 1 \in 1 .. Len(p)
      BY <1>8
    <3> QED BY <1>8, <2>2, <3>1 DEF CallEntry
  <2>3. CASE p[i].call # c
    <3>1. PICK j \in 1 .. Len(history) : history[j] = Entry(turn, "tool_result", p[i].call)
      BY <1>5, <1>8, <2>1, <2>3 DEF AllAnswered
    <3> QED BY <1>8, <3>1
  <2> QED BY <2>2, <2>3
<1>13. pc' \in BatchPoints /\ pc' \notin Collecting \union Executing \union ClosingPoints
  BY DEF BatchPoints, Collecting, Executing, ClosingPoints
<1>14. CallsInv'
  BY <1>9, <1>11, <1>12, <1>13 DEF CallsInv, AllAnswered, Unnamed
<1> QED BY <1>10, <1>14

-----------------------------------------------------------------------------
(* The steps of a turn, one by one.                                        *)

LEMMA FinishHistory ==
    ASSUME StageInv, NEW o, Finish(o)
    PROVE  StageInv' /\ CallsInv'
<1>1. /\ history' = history /\ turn' = turn /\ pc' = "none" /\ batch' = <<>>
      /\ promptRecorded' = FALSE /\ terminalRecorded' = FALSE
  BY DEF Finish
<1>2. pc' \notin OpenPoints \union ClosingPoints \union BatchPoints \union BeforePrompt
  BY <1>1 DEF OpenPoints, ClosingPoints, BatchPoints, BeforePrompt
<1>3. ~Working'
  BY <1>1 DEF Working
<1>4. StageInv'
  BY <1>1, <1>2, <1>3 DEF StageInv, BeforePrompt, WellFormed, ReadsAsTurns, PromptOf
<1>5. CallsInv'
  BY <1>1, <1>2, NoCallsLeft
<1> QED BY <1>4, <1>5

LEMMA ExecuteHistory ==
    ASSUME TypeInv, StageInv, SnapshotInv, CallsInv, UNCHANGED turn, pc = "aBatch", ExecuteBatch
    PROVE  StageInv' /\ CallsInv'
<1>1. pc \in OpenPoints /\ pc \in BatchPoints /\ pc \in Collecting /\ pc \notin Executing
  BY DEF OpenPoints, BatchPoints, Collecting, Executing
<1>2. CASE StartCall(batch) /\ UNCHANGED snapshot
  <2>1. batch \in Seq(Calls) /\ batch # <<>>
    BY <1>1 DEF TypeInv, TypeOK, Shape
  <2> QED BY <1>1, <1>2, <2>1, StartCallHistory DEF CallsInv
<1>3. CASE pc' = "yFlush" /\ UNCHANGED <<session, batch, snapshot>>
  <2>1. pc' \in OpenPoints /\ pc' \in BatchPoints /\ pc' \notin Executing /\ pc' # "yFinal"
    BY <1>3 DEF OpenPoints, BatchPoints, Executing
  <2> QED BY <1>1, <1>3, <2>1, MoveHistory DEF session
<1> QED BY <1>2, <1>3 DEF ExecuteBatch

LEMMA RecoveredHistory ==
    ASSUME TypeInv, StageInv, CallsInv, RecoveryDone
    PROVE  StageInv' /\ CallsInv'
<1>1. pc = "aRecovery" /\ UNCHANGED turn /\ BeginAttempt(Append(history, Summary))
  BY DEF RecoveryDone, ledger
<1>2. /\ turn \in Turns /\ history \in Seq(Entries) /\ WellFormed(history) /\ Before(history, turn)
      /\ history # <<>>
  BY <1>1, NotYetOpen DEF BeforePrompt, StageInv
<1>3. Append(history, Summary) \in Seq(Entries) /\ WellFormed(Append(history, Summary))
  BY <1>2, SummaryKeepsForm, SummaryIsEntry
<1>4. Before(Append(history, Summary), turn)
  <2>1. /\ Len(history) \in Nat /\ Len(Append(history, Summary)) = Len(history) + 1
        /\ Append(history, Summary)[Len(history) + 1] = Summary
        /\ \A i \in 1 .. Len(history) : Append(history, Summary)[i] = history[i]
    BY <1>2, Appended, SummaryIsEntry
  <2>2. Summary.turn < turn
    BY <1>2 DEF Summary, Entry, Turns
  <2> QED BY <1>2, <2>1, <2>2 DEF Before
<1> QED BY <1>1, <1>3, <1>4, BeginHistory

LEMMA FinalHistory ==
    ASSUME TypeInv, StageInv, SnapshotInv, CallsInv, ResumeFinal
    PROVE  StageInv' /\ CallsInv'
<1>1. pc \in OpenPoints \ Executing /\ pc \notin BatchPoints
  BY DEF ResumeFinal, OpenPoints, Executing, BatchPoints
<1>2. turn \in Turns /\ Open(snapshot, history) /\ promptRecorded /\ ~terminalRecorded
  BY <1>1, OpenNow
<1>3. closing \in FinishedKinds /\ AllAnswered(history, turn, {}) /\ batch = <<>>
  BY <1>1 DEF ResumeFinal, StageInv, CallsInv
<1>4. closing \in TerminalKinds
  BY <1>3 DEF FinishedKinds, TerminalKinds
<1>5. /\ history' = Append(history, Recorded(closing)) /\ promptRecorded' = TRUE
      /\ terminalRecorded' = TRUE /\ pc' \in ClosingPoints
      /\ UNCHANGED <<turn, snapshot, closing, batch>>
  BY <1>2 DEF ResumeFinal, ClosingPoints, ledger, attempt, stream, TypeInv, TypeOK
<1>6. /\ Shut(snapshot, Append(history, Recorded(closing)), closing)
      /\ AllAnswered(Append(history, Recorded(closing)), turn, {})
  BY <1>2, <1>3, <1>4, TerminalShuts
<1>7. StageInv'
  BY <1>2, <1>5, <1>6, LeavesShut
<1>8. CallsInv'
  BY <1>3, <1>5, <1>6, NoCallsLeft DEF OpenPoints, BatchPoints, ClosingPoints
<1> QED BY <1>7, <1>8

LEMMA SubmitHistory ==
    ASSUME TypeInv, StageInv, SnapshotInv, CallsInv, SubmitDone
    PROVE  StageInv' /\ CallsInv'
<1>1. pc = "aSubmit" /\ UNCHANGED turn
  BY DEF SubmitDone, ledger
<1>2. pc \in OpenPoints \ Executing /\ pc \in BatchPoints
  BY <1>1 DEF OpenPoints, BatchPoints, Executing
<1>3. CASE Tail(batch) # <<>>
  <2> DEFINE b == Tail(batch)
  <2>1. batch \in Seq(Calls) /\ batch # <<>>
    BY <1>2 DEF TypeInv, TypeOK, Shape
  <2>2. /\ b \in Seq(Calls) /\ Len(batch) \in Nat /\ Len(b) = Len(batch) - 1
        /\ \A i \in 1 .. Len(b) : b[i] = batch[i + 1] /\ i + 1 \in 2 .. Len(batch)
    BY <2>1
  <2>3. StartCall(b) /\ b # <<>> /\ UNCHANGED snapshot
    BY <1>3 DEF SubmitDone, attempt
  <2> HIDE DEF b
  <2>4. \A i, j \in 1 .. Len(b) : b[i] = b[j] => i = j
    <3>1. ASSUME NEW i \in 1 .. Len(b), NEW j \in 1 .. Len(b), b[i] = b[j] PROVE i + 1 = j + 1
      BY <2>2, <3>1 DEF CallsInv
    <3> QED BY <2>2, <3>1
  <2>5. \A i \in 1 .. Len(b) : Unnamed(b[i], history)
    BY <2>2 DEF CallsInv
  <2> QED BY <1>1, <1>2, <2>2, <2>3, <2>4, <2>5, StartCallHistory DEF CallsInv
<1>4. CASE AfterBatch
  BY <1>1, <1>4, BatchDoneHistory
<1> QED BY <1>3, <1>4 DEF SubmitDone

LEMMA TurnHistory ==
    ASSUME TypeInv, StageInv, SnapshotInv, CallsInv, TurnStep
    PROVE  StageInv' /\ CallsInv'
<1> USE DEF ledger, session, attempt, stream
<1>a. ASSUME NEW e, Throw(e), UNCHANGED turn, pc \in OpenPoints \union {"aPrompt"}
      PROVE  StageInv' /\ CallsInv'
  BY <1>a, ThrowHistory
<1>b. ASSUME UNCHANGED <<session, turn, batch, snapshot>>, pc \in OpenPoints, pc' \in OpenPoints,
             pc' = "yFinal" => closing' \in FinishedKinds,
             pc \in BatchPoints <=> pc' \in BatchPoints,
             pc \in Executing <=> pc' \in Executing,
             pc' \notin Collecting
      PROVE  StageInv' /\ CallsInv'
  BY <1>b, MoveHistory
<1>1. CASE StreamStart
  <2>1. pc = "created" /\ pc' = "yStarted"
    BY <1>1 DEF StreamStart
  <2>2. /\ pc \notin OpenPoints \union ClosingPoints \union BatchPoints
        /\ pc' \notin OpenPoints \union ClosingPoints \union BatchPoints \union {"none", "aRecovery", "aPrompt"}
    BY <2>1 DEF OpenPoints, ClosingPoints, BatchPoints
  <2>3. UNCHANGED <<history, turn, batch, promptRecorded, terminalRecorded>> /\ batch = <<>>
    BY <1>1, <2>2 DEF StreamStart, CallsInv
  <2>4. ~Working'
    BY <2>1 DEF Working
  <2>5. StageInv'
    BY <2>1, <2>2, <2>3, <2>4 DEF StageInv, WellFormed, ReadsAsTurns, PromptOf, Before
  <2> QED BY <2>2, <2>3, <2>5, NoCallsLeft
<1>2. CASE ResumeStarted
  <2>1. pc = "yStarted" /\ UNCHANGED turn /\ BeginAttempt(history)
    BY <1>2 DEF ResumeStarted
  <2>2. history \in Seq(Entries) /\ WellFormed(history) /\ Before(history, turn)
    BY <2>1, NotYetOpen DEF BeforePrompt
  <2> QED BY <2>1, <2>2, BeginHistory
<1>3. CASE PromptReady
  <2>1. CASE interrupted
    BY <1>3, <2>1, <1>a DEF PromptReady
  <2>2. CASE ~interrupted
    <3>1. /\ pc = "aPrompt" /\ UNCHANGED <<turn, snapshot, terminalRecorded, batch>>
          /\ history' = Append(history, Recorded("user_prompt"))
          /\ promptRecorded' = TRUE /\ pc' = "aProvider"
      BY <1>3, <2>2 DEF PromptReady
    <3>2. /\ turn \in Turns /\ history \in Seq(Entries) /\ WellFormed(history) /\ Before(history, turn)
          /\ terminalRecorded = FALSE /\ snapshot = history
      BY <3>1, NotYetOpen DEF BeforePrompt, StageInv
    <3>3. Open(history, history') /\ AllAnswered(history', turn, {})
      BY <3>1, <3>2, PromptOpens
    <3>4. StageInv'
      BY <3>1, <3>2, <3>3, LeavesOpen DEF OpenPoints
    <3>5. batch' = <<>>
      BY <3>1 DEF CallsInv, BatchPoints
    <3>6. pc' \notin BatchPoints \union Collecting \union Executing \union ClosingPoints
      BY <3>1 DEF BatchPoints, Collecting, Executing, ClosingPoints
    <3>7. CallsInv'
      BY <3>1, <3>3, <3>5, <3>6 DEF CallsInv, AllAnswered
    <3> QED BY <3>4, <3>7
  <2> QED BY <2>1, <2>2 DEF TypeInv, TypeOK
<1>4. CASE PromptFails
  BY <1>4, <1>a DEF PromptFails
<1>5. CASE ReceiveAfterInterrupt
  BY <1>5, <1>a DEF ReceiveAfterInterrupt, OpenPoints, BatchPoints
<1>6. CASE ReceiveEvents
  BY <1>6, <1>b DEF ReceiveEvents, OpenPoints, BatchPoints, Executing, Collecting
<1>7. ASSUME NEW k \in {"completed", "incomplete"}, ReceiveTerminal(k) PROVE StageInv' /\ CallsInv'
  BY <1>7, <1>b DEF ReceiveTerminal, OpenPoints, BatchPoints, Executing, Collecting, FinishedKinds
<1>8. CASE ProviderEnds
  BY <1>8, EndOpen DEF ProviderEnds, OpenPoints
<1>9. ASSUME NEW e \in Errors, ProviderThrows(e) PROVE StageInv' /\ CallsInv'
  BY <1>9, <1>a DEF ProviderThrows, OpenPoints, BatchPoints
<1>10. ASSUME NEW c \in Calls, ReceiveCall(c) PROVE StageInv' /\ CallsInv'
  BY <1>10, ReceiveCallHistory
<1>11. CASE WindowElapsed
  BY <1>11, ExecuteHistory DEF WindowElapsed
<1>12. ASSUME NEW k, ReadAhead(k) PROVE StageInv' /\ CallsInv'
  BY <1>12, ExecuteHistory DEF ReadAhead
<1>13. CASE ResumeFlush
  <2>1. /\ pc \in OpenPoints \ Executing /\ pc \in BatchPoints /\ pc \in Collecting
        /\ StartCall(batch) /\ UNCHANGED <<turn, snapshot>>
    BY <1>13 DEF ResumeFlush, OpenPoints, BatchPoints, Executing, Collecting
  <2>2. batch \in Seq(Calls) /\ batch # <<>>
    BY <2>1 DEF TypeInv, TypeOK, Shape
  <2> QED BY <2>1, <2>2, StartCallHistory DEF CallsInv
<1>14. CASE ResumeEvents
  BY <1>14, <1>b DEF ResumeEvents, OpenPoints, BatchPoints, Executing, Collecting
<1>15. CASE ResumePendingPart
  BY <1>15, <1>b DEF ResumePendingPart, OpenPoints, BatchPoints, Executing, Collecting
<1>16. CASE ResumeRequested
  BY <1>16, <1>b DEF ResumeRequested, OpenPoints, BatchPoints, Executing, Collecting
<1>17. CASE DecisionArrives
  BY <1>17, <1>b DEF DecisionArrives, OpenPoints, BatchPoints, Executing, Collecting
<1>18. CASE ResumeCleared
  <2>1. pc = "yCleared" /\ UNCHANGED turn
    BY <1>18 DEF ResumeCleared, ActOnDecision
  <2>2. CASE decision = "interrupted"
    BY <1>18, <2>1, <2>2, <1>a DEF ResumeCleared, ActOnDecision, OpenPoints, BatchPoints
  <2>3. CASE decision = "denied"
    BY <1>18, <2>1, <2>3, ResultHistory DEF ResumeCleared, ActOnDecision, Executing
  <2>4. CASE decision = "approved"
    BY <1>18, <2>1, <2>4, <1>b DEF ResumeCleared, ActOnDecision, OpenPoints, BatchPoints, Executing, Collecting
  <2> QED BY <1>18, <2>2, <2>3, <2>4 DEF ResumeCleared, ActOnDecision
<1>19. CASE ResumeRunning
  BY <1>19, <1>a, <1>b DEF ResumeRunning, OpenPoints, BatchPoints, Executing, Collecting
<1>20. CASE ToolReturns
  BY <1>20, <1>a, ResultHistory DEF ToolReturns, OpenPoints, BatchPoints, Executing
<1>21. CASE ToolThrows
  BY <1>21, <1>a DEF ToolThrows, OpenPoints, BatchPoints
<1>22. CASE ResumeResult
  BY <1>22, <1>b DEF ResumeResult, OpenPoints, BatchPoints, Executing, Collecting
<1>23. CASE SubmitDone
  BY <1>23, SubmitHistory
<1>24. CASE SubmitFails
  BY <1>24, <1>a DEF SubmitFails, OpenPoints, BatchPoints
<1>25. CASE RecoveryDone
  BY <1>25, RecoveredHistory
<1>26. CASE RecoveryFails
  <2>1. /\ pc = "aRecovery" /\ UNCHANGED <<turn, snapshot>>
        /\ \E k \in {"failed", "interrupted"} : Close(history, k)
    BY <1>26 DEF RecoveryFails
  <2>2. /\ history \in Seq(Entries) /\ WellFormed(history) /\ Before(history, turn)
        /\ snapshot = history
    BY <2>1, NotYetOpen DEF BeforePrompt, StageInv
  <2> QED BY <2>1, <2>2, CloseUnopened DEF BeforePrompt
<1>27. CASE ResumeFinal
  BY <1>27, FinalHistory
<1>28. CASE ResumeClosing
  <2>1. pc \in ClosingPoints /\ pc' \in ClosingPoints /\ pc' = "yTerminal"
    BY <1>28 DEF ResumeClosing, ClosingPoints
  <2>2. pc \notin OpenPoints \union BatchPoints \union {"none", "created", "yStarted", "aPrompt", "aRecovery"}
    BY <2>1 DEF OpenPoints, BatchPoints, ClosingPoints
  <2>3. UNCHANGED <<history, turn, batch, snapshot, promptRecorded, terminalRecorded, closing>> /\ batch = <<>>
    BY <1>28, <2>2 DEF ResumeClosing, CallsInv
  <2>4. pc' \notin OpenPoints \union BatchPoints \union {"none", "created", "yStarted", "aPrompt", "aRecovery"}
    BY <2>1 DEF OpenPoints, BatchPoints
  <2>5. Before(snapshot, turn)
    BY <2>2 DEF StageInv, Working
  <2>6. StageInv'
    BY <2>1, <2>2, <2>3, <2>4, <2>5
    DEF StageInv, WellFormed, ReadsAsTurns, PromptOf, Before, ClosedIn, Recorded
  <2> QED BY <2>1, <2>3, <2>4, <2>6, NoCallsLeft DEF CallsInv
<1>29. CASE ResumeTerminal
  BY <1>29, FinishHistory DEF ResumeTerminal
<1> QED
  BY <1>1, <1>2, <1>3, <1>4, <1>5, <1>6, <1>7, <1>8, <1>9, <1>10, <1>11, <1>12, <1>13, <1>14, <1>15,
     <1>16, <1>17, <1>18, <1>19, <1>20, <1>21, <1>22, <1>23, <1>24, <1>25, <1>26, <1>27, <1>28, <1>29
  DEF TurnStep, ProviderStops

-----------------------------------------------------------------------------
(* Calls from outside the turn.                                            *)

\* What is compacted is not empty.
CompactedInv == compaction = "manual" => history # <<>>

LEMMA CompactedStep ==
    TypeInv /\ CompactionSeesWholeHistory /\ CompactedInv /\ [Next]_vars => CompactedInv'
<1> SUFFICES ASSUME TypeInv, CompactionSeesWholeHistory, CompactedInv, [Next]_vars PROVE CompactedInv'
  OBVIOUS
<1> USE DEF compactor, session
<1>1. CASE TurnStep
  <2>1. compaction = "manual" => pc = "none"
    BY DEF CompactionSeesWholeHistory
  <2>2. CASE Works \/ Starts \/ Begins \/ Ends
    BY <2>1, <2>2 DEF Works, Starts, Begins, Ends, Working, CompactedInv
  <2>3. CASE Retries \/ Recovers
    BY <2>3 DEF Retries, Recover, RecoverFrom, Recovers, CompactedInv
  <2> QED BY <1>1, <2>2, <2>3, TurnEffect
<1>2. CASE CompactStart \/ CompactDone \/ CompactFails
  BY <1>2 DEF CompactStart, CompactDone, CompactFails, CompactedInv
<1>3. CASE StartTurn \/ Interrupt \/ UserDecides \/ Abandon \/ UNCHANGED vars
  BY <1>3 DEF StartTurn, Interrupt, UserDecides, Decide, Abandon, Finish, vars, CompactedInv
<1> QED BY <1>1, <1>2, <1>3 DEF Next, CompactorStep, Rest

LEMMA StartHistory ==
    ASSUME TypeInv, StageInv, CallsInv, StartTurn
    PROVE  StageInv' /\ CallsInv'
<1>1. /\ pc = "none" /\ pc' = "created" /\ turn' = turn + 1
      /\ UNCHANGED <<history, batch, promptRecorded, terminalRecorded>>
  BY DEF StartTurn, session, stream
<1>t. turn \in Nat /\ turn' \in Turns
  BY BoundsAssumption DEF StartTurn, TypeInv, TypeOK, Turns
<1>2. /\ pc \notin OpenPoints \union ClosingPoints \union BatchPoints
      /\ pc' \notin OpenPoints \union ClosingPoints \union BatchPoints \union {"aPrompt", "aRecovery"}
  BY <1>1 DEF OpenPoints, ClosingPoints, BatchPoints
<1>3. ~Working'
  BY <1>1 DEF Working
<1>4. WellFormed(history)'
  BY <1>1 DEF StageInv, WellFormed, ReadsAsTurns, PromptOf
<1>5. Before(history, turn)' /\ \A i \in 1 .. Len(history') : history'[i].turn <= turn'
  <2>1. history \in Seq(Entries)
    BY DEF TypeInv, TypeOK
  <2>2. \A i \in 1 .. Len(history) : history[i].turn \in Nat
    BY <2>1, ElementsAreEntries DEF Turns
  <2> QED BY <1>1, <1>t, <2>2 DEF StageInv, Before
<1>6. StageInv'
  BY <1>1, <1>t, <1>2, <1>3, <1>4, <1>5 DEF StageInv
<1>7. batch = <<>>
  BY <1>2 DEF CallsInv
<1>8. pc' \notin Collecting \union Executing
  BY <1>1 DEF Collecting, Executing
<1>9. CallsInv'
  BY <1>1, <1>2, <1>7, <1>8 DEF CallsInv
<1> QED BY <1>6, <1>9

LEMMA CompactHistory ==
    ASSUME TypeInv, StageInv, CallsInv, CompactionSeesWholeHistory, CompactedInv, CompactDone
    PROVE  StageInv' /\ CallsInv'
<1>1. /\ pc = "none" /\ history # <<>> /\ history' = Append(history, Summary)
      /\ UNCHANGED <<pc, turn, batch, promptRecorded, terminalRecorded>>
  BY DEF CompactDone, CompactionSeesWholeHistory, CompactedInv, ledger, stream
<1>2. pc \notin OpenPoints \union ClosingPoints \union BatchPoints \union Collecting \union Executing
  BY <1>1 DEF OpenPoints, ClosingPoints, BatchPoints, Collecting, Executing
<1>3. history \in Seq(Entries) /\ turn \in Nat
  BY DEF TypeInv, TypeOK
<1>4. ~Working'
  BY <1>1 DEF Working
<1>5. WellFormed(history')
  BY <1>1, <1>3, SummaryKeepsForm DEF StageInv
<1>6. WellFormed(history)'
  BY <1>5 DEF WellFormed, ReadsAsTurns, PromptOf
<1>7. \A i \in 1 .. Len(history') : history'[i].turn <= turn'
  <2>1. /\ Len(history) \in Nat /\ Len(history') = Len(history) + 1
        /\ history'[Len(history) + 1] = Summary
        /\ \A i \in 1 .. Len(history) : history'[i] = history[i]
    BY <1>1, <1>3, Appended, SummaryIsEntry
  <2>2. Summary.turn = 0
    BY DEF Summary, Entry
  <2> QED BY <1>1, <1>3, <2>1, <2>2 DEF StageInv
<1>8. StageInv'
  BY <1>1, <1>2, <1>4, <1>6, <1>7 DEF StageInv
<1>9. batch = <<>>
  BY <1>2 DEF CallsInv
<1>10. CallsInv'
  BY <1>1, <1>2, <1>9 DEF CallsInv
<1> QED BY <1>8, <1>10

LEMMA HistoryKept ==
    ASSUME StageInv, CallsInv,
           UNCHANGED <<history, snapshot, turn, pc, batch, closing, promptRecorded, terminalRecorded>>
    PROVE  StageInv' /\ CallsInv'
<1>1. StageInv'
  BY DEF StageInv, Working, WellFormed, ReadsAsTurns, PromptOf, Before, OpenIn, ClosedIn, Recorded
<1>2. CallsInv'
  BY DEF CallsInv, Unnamed, Unanswered, AllAnswered, CallEntry
<1> QED BY <1>1, <1>2

LEMMA StageStep ==
    SessionInv /\ CompactedInv /\ StageInv /\ CallsInv /\ [Next]_vars => StageInv' /\ CallsInv'
<1> SUFFICES ASSUME SessionInv, CompactedInv, StageInv, CallsInv, [Next]_vars
             PROVE  StageInv' /\ CallsInv'
  OBVIOUS
<1>a. TypeInv /\ CompactionSeesWholeHistory /\ SnapshotInv
  BY DEF SessionInv
<1>1. CASE TurnStep
  BY <1>a, <1>1, TurnHistory
<1>2. CASE StartTurn
  BY <1>a, <1>2, StartHistory
<1>3. CASE CompactDone
  BY <1>a, <1>3, CompactHistory
<1>4. CASE Abandon
  BY <1>4, FinishHistory DEF Abandon
<1>5. CASE Interrupt \/ UserDecides \/ CompactStart \/ CompactFails \/ UNCHANGED vars
  BY <1>5, HistoryKept DEF Interrupt, UserDecides, Decide, CompactStart, CompactFails, vars,
     session, ledger, stream, attempt
<1> QED BY <1>1, <1>2, <1>3, <1>4, <1>5 DEF Next, CompactorStep, Rest

-----------------------------------------------------------------------------
(* The turns that have ended stay as they were recorded.                   *)

\* A turn step leaves the entries of every other turn.
LEMMA OtherTurnsStay ==
    ASSUME SessionInv, TypeInv', TurnStep, NEW t \in Turns, t # turn
    PROVE  SameOfTurn(history, history', t)
<1> USE DEF SessionInv, session
<1>a. history \in Seq(Entries) /\ history' \in Seq(Entries) /\ snapshot \in Seq(Entries)
  BY DEF TypeInv, TypeOK
<1>1. CASE Works \/ Begins
  BY <1>a, <1>1, BeginAdds, AddedIsSame DEF Works, Begins
<1>2. CASE Starts \/ Ends
  BY <1>2 DEF Starts, Ends, SameOfTurn
<1>3. CASE Retries
  <2>1. AddsToTurn(snapshot, history) /\ history' = snapshot
    BY <1>3 DEF Retries, Working, SnapshotInv, Recover, RecoverFrom
  <2> QED BY <1>a, <2>1, AddedIsSame
<1>4. CASE Recovers
  <2>1. CASE BeginAttempt(Append(history, Summary))
    <3>1. Append(history, Summary) \in Seq(Entries)
      BY <1>a, SummaryIsEntry
    <3>2. SameOfTurn(Append(history, Summary), history', t)
      BY <1>a, <2>1, <3>1, BeginAdds, AddedIsSame
    <3> QED BY <1>a, <3>2, SummaryIsSame, SameTransitive
  <2>2. CASE \E k \in TerminalKinds : Close(history, k)
    BY <1>a, <2>2, CloseAdds, AddedIsSame
  <2> QED BY <1>4, <2>1, <2>2 DEF Recovers
<1> QED BY <1>1, <1>2, <1>3, <1>4, TurnEffect

LEMMA OutcomesKept ==
    ASSUME TypeInv', OutcomeInv, UNCHANGED <<turn, outcome>>, pc' # "none" => pc # "none",
           \A t \in Turns : t # turn \/ pc = "none" => SameOfTurn(history, history', t)
    PROVE  OutcomeInv'
<1>1. \A t \in Turns : t > turn \/ (t = turn /\ pc' # "none") => outcome[t] = "none"
  BY DEF OutcomeInv
<1>2. ASSUME NEW t \in Turns, outcome[t] \in TerminalKinds \union FinishedKinds
      PROVE  SameOfTurn(history, history', t)
  BY <1>2 DEF OutcomeInv, TerminalKinds, FinishedKinds
<1>3. \A t \in Turns : outcome[t] \in TerminalKinds => ClosedIsRecorded(history', t, outcome[t])
  BY <1>2, SameKeepsClosed DEF OutcomeInv, Closed
<1>4. \A t \in Turns : outcome[t] \in FinishedKinds => AllAnswered(history', t, {})
  BY <1>2, SameKeepsAnswered DEF OutcomeInv, TypeInv, TypeOK
<1> QED BY <1>1, <1>3, <1>4 DEF OutcomeInv, Closed, ClosedIsRecorded, AllAnswered, PromptOf

LEMMA ShutNow ==
    ASSUME TypeInv, StageInv, SnapshotInv, pc \in ClosingPoints
    PROVE  turn \in Turns /\ Shut(snapshot, history, closing)
<1>1. pc \notin {"none", "created", "yStarted", "aRecovery"}
  BY DEF ClosingPoints
<1> QED BY <1>1 DEF StageInv, Working, SnapshotInv, Shut, TypeInv, TypeOK

LEMMA ShutIsRecorded ==
    ASSUME turn \in Turns, NEW g, NEW h, NEW k \in TerminalKinds, Shut(g, h, k)
    PROVE  ClosedIsRecorded(h, turn, k)
<1>1. g \in Seq(Entries) /\ h \in Seq(Entries) /\ Len(g) \in Nat /\ Len(h) \in Nat /\ turn \in Nat
  BY DEF Shut, Turns
<1>2. Len(g) + 1 \in 1 .. Len(h) /\ Len(h) \in 1 .. Len(h)
  BY <1>1 DEF Shut, ClosedIn
<1>3. h[Len(g) + 1] = PromptOf(turn) /\ h[Len(h)] = Entry(turn, k, NoCall)
  BY DEF Shut, ClosedIn, Recorded
<1>4. ASSUME NEW i \in 1 .. Len(h), h[i].turn = turn, i # Len(g) + 1, i # Len(h)
      PROVE  Len(g) + 1 < i /\ i < Len(h) /\ h[i].kind \in ToolKinds
  <2>1. i \notin 1 .. Len(g)
    BY <1>1, <1>4 DEF Shut, AddsToTurn, Before
  <2>2. i \in Len(g) + 2 .. Len(h) - 1
    BY <1>1, <1>4, <2>1
  <2> QED BY <1>1, <2>2 DEF Shut, ClosedIn
<1> QED BY <1>2, <1>3, <1>4 DEF ClosedIsRecorded

\* Only the end of a turn changes what its consumer was told.
LEMMA TurnLedger == TurnStep => UNCHANGED ledger \/ ResumeTerminal
BY DEF TurnStep, ProviderStops, StreamStart, ResumeStarted, PromptReady, PromptFails,
       ReceiveAfterInterrupt, ReceiveEvents, ReceiveTerminal, ProviderEnds, ProviderThrows,
       ReceiveCall, WindowElapsed, ReadAhead, ResumeFlush, ResumeEvents, ResumePendingPart,
       ResumeRequested, DecisionArrives, ResumeCleared, ActOnDecision, ResumeRunning, ToolReturns,
       ToolThrows, ResumeResult, SubmitDone, SubmitFails, RecoveryDone, RecoveryFails, ResumeFinal,
       ResumeClosing

LEMMA FinishOutcome ==
    ASSUME TypeInv, OutcomeInv, pc # "none", turn \in Turns, NEW o, Finish(o),
           o \in TerminalKinds => ClosedIsRecorded(history, turn, o),
           o \in FinishedKinds => AllAnswered(history, turn, {})
    PROVE  OutcomeInv'
<1>1. /\ UNCHANGED <<history, turn>> /\ pc' = "none"
      /\ outcome' = [outcome EXCEPT ![turn] = o] /\ outcome \in [Turns -> TerminalKinds \union {"none", "abandoned"}]
  BY DEF Finish, TypeInv, TypeOK
<1>2. outcome'[turn] = o /\ \A t \in Turns \ {turn} : outcome'[t] = outcome[t]
  BY <1>1
<1>3. turn \in Nat /\ Turns \subseteq Nat
  BY DEF Turns
<1>4. \A t \in Turns : t > turn' \/ (t = turn' /\ pc' # "none") => outcome'[t] = "none"
  BY <1>1, <1>2, <1>3 DEF OutcomeInv
<1>5. \A t \in Turns : outcome'[t] \in TerminalKinds => ClosedIsRecorded(history', t, outcome'[t])
  BY <1>1, <1>2 DEF OutcomeInv, Closed
<1>6. \A t \in Turns : outcome'[t] \in FinishedKinds => AllAnswered(history', t, {})
  BY <1>1, <1>2 DEF OutcomeInv
<1> QED BY <1>4, <1>5, <1>6 DEF OutcomeInv, Closed, ClosedIsRecorded, AllAnswered, PromptOf

LEMMA OutcomeStep ==
    SessionInv /\ TypeInv' /\ StageInv /\ CallsInv /\ OutcomeInv /\ [Next]_vars => OutcomeInv'
<1> SUFFICES ASSUME SessionInv, TypeInv', StageInv, CallsInv, OutcomeInv, [Next]_vars
             PROVE  OutcomeInv'
  OBVIOUS
<1> USE DEF SessionInv
<1>a. history \in Seq(Entries) /\ history' \in Seq(Entries)
  BY DEF TypeInv, TypeOK
<1>b. UNCHANGED history => \A t \in Turns : SameOfTurn(history, history', t)
  BY DEF SameOfTurn
<1>1. CASE TurnStep /\ UNCHANGED ledger
  <2>1. pc # "none"
    BY <1>1, TurnEffect DEF Works, Retries, Starts, Begins, Recovers, Ends, Working
  <2> QED BY <1>1, <2>1, OtherTurnsStay, OutcomesKept DEF ledger
<1>2. CASE ResumeTerminal
  <2>1. pc \in ClosingPoints /\ pc # "none" /\ Finish(closing) /\ closing \in TerminalKinds
    BY <1>2 DEF ResumeTerminal, ClosingPoints, TypeInv, Shape
  <2>2. turn \in Turns /\ ClosedIsRecorded(history, turn, closing)
    BY <2>1, ShutNow, ShutIsRecorded
  <2>3. closing \in FinishedKinds => AllAnswered(history, turn, {})
    BY <2>1 DEF CallsInv
  <2> QED BY <2>1, <2>2, <2>3, FinishOutcome
<1>3. CASE Abandon
  <2>1. pc # "none" /\ Finish("abandoned")
    BY <1>3 DEF Abandon, Yields
  <2> QED BY <2>1, FinishOutcome DEF StageInv, TerminalKinds, FinishedKinds
<1>4. CASE StartTurn
  <2>1. /\ UNCHANGED <<history, outcome>> /\ turn' = turn + 1 /\ turn \in Nat /\ Turns \subseteq Nat
    BY <1>4 DEF StartTurn, session, TypeInv, TypeOK, Turns
  <2>2. \A t \in Turns : t > turn' \/ (t = turn' /\ pc' # "none") => outcome[t] = "none"
    BY <2>1 DEF OutcomeInv
  <2>3. /\ \A t \in Turns : outcome'[t] \in TerminalKinds => ClosedIsRecorded(history', t, outcome'[t])
        /\ \A t \in Turns : outcome'[t] \in FinishedKinds => AllAnswered(history', t, {})
    BY <2>1 DEF OutcomeInv, Closed
  <2>4. \A t \in Turns : t > turn' \/ (t = turn' /\ pc' # "none") => outcome'[t] = "none"
    BY <2>1, <2>2
  <2> QED BY <2>3, <2>4 DEF OutcomeInv, Closed, ClosedIsRecorded, AllAnswered, PromptOf
<1>5. CASE CompactDone
  <2>1. \A t \in Turns : SameOfTurn(history, history', t)
    BY <1>a, <1>5, SummaryIsSame DEF CompactDone
  <2> QED BY <1>5, <2>1, OutcomesKept DEF CompactDone, ledger
<1>6. CASE Interrupt \/ UserDecides \/ CompactStart \/ CompactFails \/ UNCHANGED vars
  <2>1. UNCHANGED <<history, turn, outcome, pc>>
    BY <1>6 DEF Interrupt, UserDecides, Decide, CompactStart, CompactFails, vars, session, ledger
  <2> QED BY <1>b, <2>1, OutcomesKept
<1> QED BY <1>1, <1>2, <1>3, <1>4, <1>5, <1>6, TurnLedger DEF Next, CompactorStep, Rest

LEMMA HistoryInit == Init => HistoryInv /\ CompactedInv
<1> SUFFICES ASSUME Init PROVE HistoryInv /\ CompactedInv
  OBVIOUS
<1>1. /\ history = <<>> /\ batch = <<>> /\ pc = "none" /\ promptRecorded = FALSE /\ terminalRecorded = FALSE
      /\ compaction = "idle" /\ outcome = [t \in Turns |-> "none"]
  BY DEF Init
<1>2. pc \notin OpenPoints \union ClosingPoints \union BatchPoints \union Collecting \union Executing
  BY <1>1 DEF OpenPoints, ClosingPoints, BatchPoints, Collecting, Executing
<1>3. ~Working
  BY <1>1 DEF Working
<1>4. StageInv
  BY <1>1, <1>2, <1>3 DEF StageInv, WellFormed, ReadsAsTurns
<1>5. CallsInv
  BY <1>1, <1>2 DEF CallsInv
<1>6. OutcomeInv
  BY <1>1 DEF OutcomeInv, Closed, TerminalKinds, FinishedKinds
<1> QED BY <1>1, <1>4, <1>5, <1>6 DEF HistoryInv, CompactedInv

LEMMA HistoryInvariant == Spec => [](SessionInv /\ CompactedInv /\ HistoryInv)
<1>1. SessionInv /\ SessionInv' /\ CompactedInv /\ HistoryInv /\ [Next]_vars => CompactedInv' /\ HistoryInv'
  <2>1. SessionInv /\ CompactedInv /\ [Next]_vars => CompactedInv'
    BY CompactedStep DEF SessionInv
  <2>2. SessionInv' => TypeInv'
    BY DEF SessionInv
  <2> QED BY <2>1, <2>2, StageStep, OutcomeStep DEF HistoryInv
<1> QED BY <1>1, HistoryInit, SessionInvariant, PTL DEF Spec

-----------------------------------------------------------------------------
(* What the runs check of the history.                                     *)

LEMMA FormReads == TypeInv /\ StageInv => HistoryReadsAsTurns
<1> SUFFICES ASSUME TypeInv, StageInv, NEW j \in DOMAIN history, history[j].turn # 0
             PROVE  LET before == {history[i] : i \in 1 .. j - 1}
                    IN /\ history[j] \notin before
                       /\ \A e \in before : e.turn <= history[j].turn
                       /\ history[j].kind # "user_prompt" =>
                             Entry(history[j].turn, "user_prompt", NoCall) \in before
                       /\ history[j].kind = "tool_result" =>
                             [history[j] EXCEPT !.kind = "tool_call"] \in before
  BY DEF HistoryReadsAsTurns
<1>1. history \in Seq(Entries) /\ j \in 1 .. Len(history) /\ history[j] \in Entries
  BY DEF TypeInv, TypeOK
<1>2. [history[j] EXCEPT !.kind = "tool_call"] = Entry(history[j].turn, "tool_call", history[j].call)
  BY <1>1 DEF Entry, Entries
<1>3. /\ \A i \in 1 .. j - 1 : history[i] # history[j] /\ history[i].turn <= history[j].turn
      /\ history[j].kind # "user_prompt" => \E i \in 1 .. j - 1 : history[i] = PromptOf(history[j].turn)
      /\ history[j].kind = "tool_result" =>
            \E i \in 1 .. j - 1 : history[i] = Entry(history[j].turn, "tool_call", history[j].call)
  BY <1>1 DEF StageInv, WellFormed, ReadsAsTurns
<1> QED BY <1>2, <1>3 DEF PromptOf

LEMMA RecordedReads == TypeInv /\ OutcomeInv => ClosedTurnsAreRecorded
<1> SUFFICES ASSUME TypeInv, OutcomeInv, NEW t \in Turns, Closed(t)
             PROVE  \E first, last \in Positions(t) :
                       /\ history[first] = Entry(t, "user_prompt", NoCall)
                       /\ history[last] = Entry(t, outcome[t], NoCall)
                       /\ \A i \in Positions(t) \ {first, last} :
                             /\ first < i /\ i < last
                             /\ history[i].kind \in {"tool_call", "tool_result"}
  BY DEF ClosedTurnsAreRecorded
<1>1. history \in Seq(Entries) /\ Positions(t) = {i \in 1 .. Len(history) : history[i].turn = t}
  BY DEF TypeInv, TypeOK, Positions
<1>2. PICK first \in 1 .. Len(history), last \in 1 .. Len(history) :
        /\ history[first] = PromptOf(t) /\ history[last] = Entry(t, outcome[t], NoCall)
        /\ \A i \in 1 .. Len(history) : history[i].turn = t /\ i # first /\ i # last =>
              first < i /\ i < last /\ history[i].kind \in ToolKinds
  BY DEF OutcomeInv, ClosedIsRecorded
<1>3. history[first].turn = t /\ history[last].turn = t
  BY <1>2 DEF PromptOf, Entry
<1>4. first \in Positions(t) /\ last \in Positions(t)
  BY <1>1, <1>3
<1> QED BY <1>1, <1>2, <1>4 DEF PromptOf, ToolKinds

\* However completions, provider errors, early ends, interruptions, denials and
\* overflow recoveries meet (the finalizers of assistantConversationRunner and
\* RuntimeConversationTurnSessionRecorder): the session's entries read as turns one
\* after the other, and a turn its consumer saw end has its prompt, its tool entries
\* and one terminal entry, of the kind the consumer was told.
THEOREM HistoryInOrder == Spec => []HistoryIsInOrder
<1>1. SessionInv /\ HistoryInv => HistoryIsInOrder
  BY FormReads, RecordedReads DEF SessionInv, HistoryInv, HistoryIsInOrder
<1> QED BY <1>1, HistoryInvariant, PTL

\* No tool call of a turn that is recorded as completed or incomplete is left
\* without its result, forbidden, denied and failed calls included.
THEOREM FinishedTurnsAnswered == Spec => []FinishedTurnsAnswerTheirCalls
<1>1. SessionInv /\ HistoryInv => FinishedTurnsAnswerTheirCalls
  <2> SUFFICES ASSUME TypeInv, OutcomeInv, NEW t \in Turns, NEW i \in DOMAIN history,
                      outcome[t] \in {"completed", "incomplete"},
                      history[i].turn = t, history[i].kind = "tool_call"
               PROVE  \E j \in Positions(t) : history[j] = [history[i] EXCEPT !.kind = "tool_result"]
    BY DEF SessionInv, HistoryInv, FinishedTurnsAnswerTheirCalls
  <2>1. history \in Seq(Entries) /\ i \in 1 .. Len(history) /\ history[i] \in Entries
    BY DEF TypeInv, TypeOK
  <2>2. PICK j \in 1 .. Len(history) : history[j] = Entry(t, "tool_result", history[i].call)
    BY <2>1 DEF OutcomeInv, AllAnswered, FinishedKinds
  <2>3. history[j].turn = t /\ history[j] = [history[i] EXCEPT !.kind = "tool_result"]
    BY <2>1, <2>2 DEF Entry, Entries
  <2> QED BY <2>1, <2>2, <2>3 DEF Positions
<1> QED BY <1>1, HistoryInvariant, PTL

-----------------------------------------------------------------------------
(* What the history says of a turn.                                        *)

KindsIn(h, t) == {h[i].kind : i \in {n \in 1 .. Len(h) : h[n].turn = t}}
LogIn(h, t) ==
    LET closed == KindsIn(h, t) \intersect TerminalKinds
    IN IF closed # {} THEN CHOOSE k \in closed : TRUE
       ELSE IF "user_prompt" \in KindsIn(h, t) THEN "open" ELSE "absent"

LEMMA LogNow ==
    ASSUME TypeInv, NEW t
    PROVE  LogOf(t) = LogIn(history, t)
<1>1. RecordedKinds(t) = KindsIn(history, t)
  BY DEF RecordedKinds, Positions, KindsIn, TypeInv, TypeOK
<1> QED BY <1>1 DEF LogOf, LogIn

LEMMA LogNext ==
    ASSUME TypeInv', NEW t
    PROVE  LogOf(t)' = LogIn(history', t)
<1>1. RecordedKinds(t)' = KindsIn(history', t)
  BY DEF RecordedKinds, Positions, KindsIn, TypeInv, TypeOK
<1> QED BY <1>1 DEF LogOf, LogIn

LEMMA SameLog ==
    ASSUME NEW g, NEW h, NEW t, SameOfTurn(g, h, t)
    PROVE  LogIn(g, t) = LogIn(h, t)
<1>1. KindsIn(g, t) = KindsIn(h, t)
  BY DEF SameOfTurn, KindsIn
<1> QED BY <1>1 DEF LogIn

LEMMA AbsentLog ==
    ASSUME turn \in Turns, NEW h \in Seq(Entries), Before(h, turn)
    PROVE  LogIn(h, turn) = "absent"
<1>1. KindsIn(h, turn) = {}
  BY DEF KindsIn, Before, Turns
<1> QED BY <1>1 DEF LogIn

LEMMA OpenLog ==
    ASSUME turn \in Turns, NEW g, NEW h, Open(g, h)
    PROVE  LogIn(h, turn) = "open"
<1>1. KindsIn(h, turn) \subseteq ToolKinds \union {"user_prompt"}
  BY OpenFacts DEF KindsIn
<1>2. PICK i \in 1 .. Len(h) : h[i] = PromptOf(turn)
  BY OpenFacts
<1>3. h[i].turn = turn /\ h[i].kind = "user_prompt"
  BY <1>2 DEF PromptOf, Entry
<1>4. "user_prompt" \in KindsIn(h, turn)
  BY <1>3 DEF KindsIn
<1>5. KindsIn(h, turn) \intersect TerminalKinds = {}
  BY <1>1 DEF ToolKinds, TerminalKinds
<1> QED BY <1>4, <1>5 DEF LogIn

LEMMA ShutLog ==
    ASSUME turn \in Turns, NEW g, NEW h, NEW k \in TerminalKinds, Shut(g, h, k)
    PROVE  LogIn(h, turn) = k
<1>1. PICK first \in 1 .. Len(h), last \in 1 .. Len(h) :
        /\ h[first] = PromptOf(turn) /\ h[last] = Entry(turn, k, NoCall)
        /\ \A i \in 1 .. Len(h) : h[i].turn = turn /\ i # first /\ i # last =>
              first < i /\ i < last /\ h[i].kind \in ToolKinds
  BY ShutIsRecorded DEF ClosedIsRecorded
<1>2. h[first].kind = "user_prompt" /\ h[last].turn = turn /\ h[last].kind = k
  BY <1>1 DEF PromptOf, Entry
<1>3. k \in KindsIn(h, turn)
  BY <1>2 DEF KindsIn
<1>4. KindsIn(h, turn) \subseteq ToolKinds \union {"user_prompt", k}
  BY <1>1, <1>2 DEF KindsIn
<1>5. KindsIn(h, turn) \intersect TerminalKinds = {k}
  BY <1>3, <1>4 DEF ToolKinds, TerminalKinds
<1> QED BY <1>5 DEF LogIn

LEMMA PromptIsLogged ==
    ASSUME NEW h \in Seq(Entries), NEW i \in 1 .. Len(h), h[i].kind = "user_prompt"
    PROVE  LogIn(h, h[i].turn) # "absent"
<1>1. "user_prompt" \in KindsIn(h, h[i].turn)
  BY DEF KindsIn
<1>2. \A S : S # {} => (CHOOSE k \in S : TRUE) \in S
  OBVIOUS
<1>3. "absent" \notin TerminalKinds
  BY DEF TerminalKinds
<1> QED BY <1>1, <1>2, <1>3 DEF LogIn

\* The log of the running turn, by where its generator stands.
StageLog ==
    /\ pc \in BeforePrompt => LogIn(history, turn) = "absent"
    /\ pc \in OpenPoints => LogIn(history, turn) = "open"
    /\ pc \in ClosingPoints => LogIn(history, turn) = closing

LEMMA StageTells == TypeInv /\ SnapshotInv /\ StageInv => StageLog
<1> SUFFICES ASSUME TypeInv, SnapshotInv, StageInv PROVE StageLog
  OBVIOUS
<1>1. pc \in BeforePrompt => LogIn(history, turn) = "absent"
  BY NotYetOpen, AbsentLog
<1>2. pc \in OpenPoints => LogIn(history, turn) = "open"
  BY OpenNow, OpenLog
<1>3. ASSUME pc \in ClosingPoints PROVE LogIn(history, turn) = closing
  <2>1. closing \in TerminalKinds
    BY <1>3 DEF ClosingPoints, TypeInv, Shape
  <2> QED BY <1>3, <2>1, ShutNow, ShutLog
<1> QED BY <1>1, <1>2, <1>3 DEF StageLog

LEMMA Stages == ProgramPoints \ {"none"} = BeforePrompt \union OpenPoints \union ClosingPoints
BY DEF ProgramPoints, Yields, Awaits, BeforePrompt, OpenPoints, ClosingPoints, BatchPoints

-----------------------------------------------------------------------------
(* The turn implements the abstract session.                               *)

AbstractLog == [t \in Turns |-> LogOf(t)]

LEMMA LogKept ==
    ASSUME TypeInv, TypeInv', \A t \in Turns : LogIn(history', t) = LogIn(history, t)
    PROVE  AbstractLog' = AbstractLog
<1>1. \A t \in Turns : LogOf(t)' = LogOf(t)
  BY LogNow, LogNext
<1> QED BY <1>1 DEF AbstractLog

LEMMA LogUpdated ==
    ASSUME TypeInv, TypeInv', turn \in Turns, NEW k, LogIn(history', turn) = k,
           \A t \in Turns : t # turn => LogIn(history', t) = LogIn(history, t)
    PROVE  AbstractLog' = [AbstractLog EXCEPT ![turn] = k]
<1>1. AbstractLog = [t \in Turns |-> LogIn(history, t)]
  BY LogNow DEF AbstractLog
<1>2. AbstractLog' = [t \in Turns |-> LogIn(history', t)]
  BY LogNext DEF AbstractLog
<1> QED BY <1>1, <1>2

\* Outside the points of a turn, and in a turn outside a recovery, nothing is
\* being compacted.
LEMMA NothingCompacted ==
    ASSUME CompactionSeesWholeHistory, pc \notin {"none", "aRecovery"}
    PROVE  compaction = "idle"
BY DEF CompactionSeesWholeHistory

\* Steps from the points where the log of the turn is settled.
LEMMA ClosingSteps == TurnStep /\ pc \in ClosingPoints => ResumeClosing \/ ResumeTerminal
BY DEF TurnStep, ProviderStops, StreamStart, ResumeStarted, PromptReady, PromptFails,
       ReceiveAfterInterrupt, ReceiveEvents, ReceiveTerminal, ProviderEnds, ProviderThrows,
       ReceiveCall, WindowElapsed, ReadAhead, ResumeFlush, ResumeEvents, ResumePendingPart,
       ResumeRequested, DecisionArrives, ResumeCleared, ActOnDecision, ResumeRunning, ToolReturns,
       ToolThrows, ResumeResult, SubmitDone, SubmitFails, RecoveryDone, RecoveryFails, ResumeFinal,
       ClosingPoints

LEMMA PromptSteps == TurnStep /\ pc = "aPrompt" => pc' # "aRecovery"
<1> SUFFICES ASSUME TurnStep, pc = "aPrompt" PROVE pc' # "aRecovery"
  OBVIOUS
<1>1. PromptReady \/ PromptFails
  BY DEF TurnStep, ProviderStops, StreamStart, ResumeStarted,
       ReceiveAfterInterrupt, ReceiveEvents, ReceiveTerminal, ProviderEnds, ProviderThrows,
       ReceiveCall, WindowElapsed, ReadAhead, ResumeFlush, ResumeEvents, ResumePendingPart,
       ResumeRequested, DecisionArrives, ResumeCleared, ActOnDecision, ResumeRunning, ToolReturns,
       ToolThrows, ResumeResult, SubmitDone, SubmitFails, RecoveryDone, RecoveryFails, ResumeFinal,
       ResumeClosing, ResumeTerminal
<1>2. CASE Throw("other")
  BY <1>2 DEF Throw, Close, EmitTerminal
<1> QED BY <1>1, <1>2 DEF PromptReady, PromptFails

LEMMA UnopenedIsBefore ==
    TypeInv /\ StageInv /\ pc \in BeforePrompt => turn \in Turns /\ Before(history, turn)
BY NotYetOpen

\* Nothing that only adds to the history takes an open turn back.
LEMMA OpenStays ==
    ASSUME TypeInv, StageInv, SnapshotInv, TypeInv', StageInv', pc \in OpenPoints,
           pc' \in BeforePrompt, turn' = turn, AddsToTurn(history, history')
    PROVE  FALSE
<1>1. PICK i \in 1 .. Len(history) : history[i] = PromptOf(turn)
  BY OpenNow, OpenFacts
<1>2. history[i].turn = turn
  BY <1>1 DEF PromptOf, Entry
<1>3. i \in 1 .. Len(history') /\ history'[i] = history[i]
  <2>1. history \in Seq(Entries) /\ history' \in Seq(Entries)
    BY DEF TypeInv, TypeOK
  <2>2. Len(history) \in Nat /\ Len(history') \in Nat
    BY <2>1
  <2> QED BY <1>1, <2>2 DEF AddsToTurn
<1>4. turn' \in Turns /\ Before(history', turn')
  <2>1. (TypeInv /\ StageInv /\ pc \in BeforePrompt)'
    OBVIOUS
  <2>2. (turn \in Turns /\ Before(history, turn))'
    BY <2>1, UnopenedIsBefore, PTL
  <2> QED BY <2>2 DEF Before
<1> QED BY <1>2, <1>3, <1>4 DEF Before, Turns

\* A step of the turn that is not its end, seen from the session.
LEMMA TurnRefines ==
    ASSUME SessionInv, TypeInv', SnapshotInv', StageInv, StageInv', TurnStep, ~ResumeTerminal
    PROVE  Abstract!SessionNext \/ UNCHANGED Abstract!sessionVars
<1> USE DEF SessionInv
<1>1. StageLog /\ StageLog'
  <2>1. (TypeInv /\ SnapshotInv /\ StageInv)'
    OBVIOUS
  <2> QED BY <2>1, StageTells, PTL
<1>2. Works \/ Retries \/ Starts \/ Begins \/ Recovers
  BY TurnEffect DEF Ends
<1>3. /\ UNCHANGED <<turn, outcome>> /\ turn \in Turns
      /\ pc # "none" /\ pc \in BeforePrompt \union OpenPoints \union ClosingPoints
  <2>1. UNCHANGED <<turn, outcome>>
    BY TurnLedger DEF ledger
  <2>2. pc # "none"
    BY <1>2 DEF Works, Retries, Starts, Begins, Recovers, Working
  <2> QED BY <2>1, <2>2, Stages DEF StageInv, TypeInv, TypeOK
<1>4. pc' # "none" /\ pc' \in BeforePrompt \union OpenPoints \union ClosingPoints
  <2>1. history \in Seq(Entries) /\ Append(history, Summary) \in Seq(Entries)
    BY SummaryIsEntry DEF TypeInv, TypeOK
  <2>2. pc' # "none"
    BY <1>2, <2>1, BeginAdds, CloseAdds
    DEF Works, Retries, Starts, Begins, Recovers, Working, Recover, RecoverFrom
  <2> QED BY <2>2, Stages DEF TypeInv, TypeOK
<1>5. \A t \in Turns : t # turn => LogIn(history', t) = LogIn(history, t)
  BY OtherTurnsStay, SameLog
<1>6. AbstractLog[turn] = LogIn(history, turn)
  BY <1>3, LogNow DEF AbstractLog
<1>a. ASSUME LogIn(history', turn) = LogIn(history, turn), compaction' = compaction
      PROVE  UNCHANGED Abstract!sessionVars
  <2>1. AbstractLog' = AbstractLog
    BY <1>5, <1>a, LogKept
  <2> QED BY <1>3, <1>4, <1>a, <2>1 DEF Abstract!sessionVars, AbstractLog
<1>b. ASSUME pc \in BeforePrompt \union OpenPoints, pc' \in ClosingPoints, compaction' = "idle"
      PROVE  Abstract!SessionNext
  <2>1. PICK k \in TerminalKinds : k = closing'
    BY <1>b DEF ClosingPoints, TypeInv, Shape
  <2>2. LogIn(history', turn) = k
    BY <1>1, <1>3, <1>b, <2>1 DEF StageLog
  <2>3. AbstractLog' = [AbstractLog EXCEPT ![turn] = k]
    BY <1>3, <1>5, <2>2, LogUpdated
  <2>4. AbstractLog[turn] \in {"absent", "open"}
    BY <1>1, <1>6, <1>b DEF StageLog
  <2>5. Abstract!CloseTurn(k)
    BY <1>3, <1>4, <1>b, <2>3, <2>4 DEF Abstract!CloseTurn, AbstractLog
  <2> QED BY <2>1, <2>5 DEF Abstract!SessionNext, Abstract!ClosedKinds, TerminalKinds
<1>7. CASE pc \in ClosingPoints
  <2>1. UNCHANGED <<history, compaction>>
    BY <1>7, ClosingSteps DEF ResumeClosing, session, compactor
  <2> QED BY <1>a, <2>1
<1>8. CASE pc \notin ClosingPoints /\ (Works \/ Starts \/ Begins)
  <2>1. compaction = "idle" /\ compaction' = "idle"
    BY <1>3, <1>8, NothingCompacted DEF Works, Starts, Begins, Working, compactor
  <2>2. CASE pc' \in ClosingPoints
    BY <1>3, <1>8, <1>b, <2>1, <2>2
  <2>3. CASE (pc \in BeforePrompt /\ pc' \in BeforePrompt) \/ (pc \in OpenPoints /\ pc' \in OpenPoints)
    BY <1>1, <1>3, <1>a, <2>1, <2>3 DEF StageLog
  <2>4. CASE pc \in BeforePrompt /\ pc' \in OpenPoints
    <3>1. LogIn(history, turn) = "absent" /\ LogIn(history', turn) = "open"
      BY <1>1, <1>3, <2>4 DEF StageLog
    <3>2. AbstractLog' = [AbstractLog EXCEPT ![turn] = "open"]
      BY <1>3, <1>5, <3>1, LogUpdated
    <3>3. Abstract!Open
      BY <1>3, <1>4, <1>6, <2>1, <3>1, <3>2 DEF Abstract!Open, AbstractLog
    <3> QED BY <3>3 DEF Abstract!SessionNext
  <2>5. CASE pc \in OpenPoints /\ pc' \in BeforePrompt
    <3>1. AddsToTurn(history, history')
      BY <1>8, <2>5 DEF Works, Starts, Begins, OpenPoints, BatchPoints
    <3> QED BY <1>3, <2>5, <3>1, OpenStays
  <2>6. pc \in BeforePrompt \/ pc \in OpenPoints
    BY <1>3, <1>8
  <2>7. pc' \in BeforePrompt \/ pc' \in OpenPoints \/ pc' \in ClosingPoints
    BY <1>4
  <2> QED BY <2>2, <2>3, <2>4, <2>5, <2>6, <2>7
<1>9. CASE pc \notin ClosingPoints /\ Retries
  <2>1. pc' = "aRecovery" /\ compaction' = "recovery"
    BY <1>9 DEF Retries, Recover, RecoverFrom
  <2>2. pc \in OpenPoints /\ compaction = "idle"
    BY <1>3, <1>9, <2>1, PromptSteps, NothingCompacted DEF Retries, Working, BeforePrompt
  <2>3. LogIn(history, turn) = "open" /\ LogIn(history', turn) = "absent"
    BY <1>1, <1>3, <2>1, <2>2 DEF StageLog, BeforePrompt
  <2>4. AbstractLog' = [AbstractLog EXCEPT ![turn] = "absent"]
    BY <1>3, <1>5, <2>3, LogUpdated
  <2>5. Abstract!Retract
    BY <1>3, <1>4, <1>6, <2>1, <2>2, <2>3, <2>4 DEF Abstract!Retract, AbstractLog
  <2> QED BY <2>5 DEF Abstract!SessionNext
<1>10. CASE Recovers
  <2>1. pc \in BeforePrompt /\ compaction' = "idle"
    BY <1>10 DEF Recovers, BeforePrompt
  <2>2. pc' \in BeforePrompt \union ClosingPoints
    <3>1. history \in Seq(Entries) /\ Append(history, Summary) \in Seq(Entries)
      BY SummaryIsEntry DEF TypeInv, TypeOK
    <3> QED BY <1>10, <3>1, BeginAdds, CloseAdds DEF Recovers, BeforePrompt, ClosingPoints
  <2>3. CASE pc' \in ClosingPoints
    BY <1>b, <2>1, <2>3
  <2>4. CASE pc' \in BeforePrompt
    <3>1. LogIn(history', turn) = LogIn(history, turn)
      BY <1>1, <1>3, <2>1, <2>4 DEF StageLog
    <3>2. CASE compaction = "idle"
      BY <1>a, <2>1, <3>1, <3>2
    <3>3. CASE compaction # "idle"
      <4>1. AbstractLog' = AbstractLog
        BY <1>5, <3>1, LogKept
      <4>2. Abstract!CompactEnd
        BY <1>3, <1>4, <2>1, <3>3, <4>1 DEF Abstract!CompactEnd, AbstractLog
      <4> QED BY <4>2 DEF Abstract!SessionNext
    <3> QED BY <3>2, <3>3
  <2> QED BY <2>2, <2>3, <2>4
<1> QED BY <1>2, <1>7, <1>8, <1>9, <1>10

\* The end of a turn, and the calls from outside.
LEMMA OthersRefine ==
    ASSUME SessionInv, TypeInv', StageInv, StageLog, CompactedInv,
           \/ ResumeTerminal \/ Abandon \/ StartTurn \/ CompactStart \/ CompactDone \/ CompactFails
           \/ Interrupt \/ UserDecides \/ UNCHANGED vars
    PROVE  Abstract!SessionNext \/ UNCHANGED Abstract!sessionVars
<1> USE DEF SessionInv
<1>1. UNCHANGED history => AbstractLog' = AbstractLog
  BY LogKept
<1>2. ASSUME NEW k, Finish(k), pc \notin {"none", "aRecovery"},
             k = "abandoned" \/ (k \in TerminalKinds /\ k = LogIn(history, turn))
      PROVE  Abstract!SessionNext
  <2>1. turn \in Turns /\ compaction = "idle"
    BY <1>2, NothingCompacted DEF StageInv
  <2>2. /\ UNCHANGED <<history, compaction, turn>> /\ pc' = "none"
        /\ outcome' = [outcome EXCEPT ![turn] = k]
    BY <1>2 DEF Finish, compactor
  <2>3. AbstractLog[turn] = LogIn(history, turn)
    BY <2>1, LogNow DEF AbstractLog
  <2>4. k \in {AbstractLog[turn]} \intersect Abstract!ClosedKinds \/ k = "abandoned"
    BY <1>2, <2>3 DEF Abstract!ClosedKinds, TerminalKinds
  <2>5. Abstract!Hear(k)
    BY <1>1, <1>2, <2>1, <2>2, <2>4 DEF Abstract!Hear, AbstractLog
  <2> QED BY <1>2, <2>5 DEF Abstract!SessionNext, Abstract!ClosedKinds, TerminalKinds
<1>3. CASE ResumeTerminal
  <2>1. /\ Finish(closing) /\ pc \in ClosingPoints /\ pc \notin {"none", "aRecovery"}
        /\ closing \in TerminalKinds
    BY <1>3 DEF ResumeTerminal, ClosingPoints, TypeInv, Shape
  <2> QED BY <1>2, <2>1 DEF StageLog
<1>4. CASE Abandon
  <2>1. Finish("abandoned") /\ pc \notin {"none", "aRecovery"}
    BY <1>4 DEF Abandon, Yields
  <2> QED BY <1>2, <2>1
<1>5. CASE StartTurn
  <2>1. Abstract!Begin
    BY <1>1, <1>5 DEF StartTurn, session, compactor, Abstract!Begin, AbstractLog
  <2> QED BY <2>1 DEF Abstract!SessionNext
<1>6. CASE CompactStart
  <2>1. history \in Seq(Entries) /\ history # <<>>
    BY <1>6 DEF CompactStart, TypeInv, TypeOK
  <2>2. 1 \in 1 .. Len(history) /\ history[1].turn # 0 /\ history[1].turn <= turn
    BY <2>1 DEF StageInv, WellFormed
  <2>3. history[1].kind = "user_prompt"
    BY <2>2 DEF StageInv, WellFormed, ReadsAsTurns
  <2>4. history[1].turn \in Turns /\ history[1].turn \in 1 .. turn
    <3>1. history[1].turn \in Turns
      BY <2>1, <2>2, ElementsAreEntries
    <3> QED BY <2>2, <3>1 DEF Turns, TypeInv, TypeOK
  <2>5. AbstractLog[history[1].turn] # "absent"
    <3>1. LogOf(history[1].turn) = LogIn(history, history[1].turn)
      BY LogNow
    <3> QED BY <2>1, <2>2, <2>3, <2>4, <3>1, PromptIsLogged DEF AbstractLog
  <2>6. \E t \in 1 .. turn : AbstractLog[t] # "absent"
    BY <2>4, <2>5
  <2>7. Abstract!CompactBegin
    BY <1>1, <1>6, <2>6 DEF CompactStart, session, ledger, Abstract!CompactBegin, AbstractLog
  <2> QED BY <2>7 DEF Abstract!SessionNext
<1>7. CASE CompactDone \/ CompactFails
  <2>1. history \in Seq(Entries)
    BY DEF TypeInv, TypeOK
  <2>2. \A t \in Turns : SameOfTurn(history, Append(history, Summary), t)
    BY <2>1, SummaryIsSame
  <2>3. history' = Append(history, Summary) \/ history' = history
    BY <1>7 DEF CompactDone, CompactFails, session
  <2>4. AbstractLog' = AbstractLog
    <3>1. \A t \in Turns : LogIn(Append(history, Summary), t) = LogIn(history, t)
      BY <2>2, SameLog
    <3>2. \A t \in Turns : LogIn(history', t) = LogIn(history, t)
      BY <2>3, <3>1
    <3> QED BY <3>2, LogKept
  <2>5. compaction = "manual" /\ compaction' = "idle" /\ UNCHANGED <<pc, turn, outcome>>
    BY <1>7 DEF CompactDone, CompactFails, ledger
  <2>6. Abstract!CompactEnd
    BY <2>4, <2>5 DEF Abstract!CompactEnd, AbstractLog
  <2> QED BY <2>6 DEF Abstract!SessionNext
<1>8. CASE Interrupt \/ UserDecides \/ UNCHANGED vars
  <2>1. UNCHANGED <<history, turn, outcome, pc, compaction>>
    BY <1>8 DEF Interrupt, UserDecides, Decide, vars, session, ledger, compactor
  <2> QED BY <1>1, <2>1 DEF Abstract!sessionVars, AbstractLog
<1> QED BY <1>3, <1>4, <1>5, <1>6, <1>7, <1>8

\* What the application sees of the engine is a conversation session: turns and
\* compactions exclude each other, a closed turn stays closed with its kind, only an
\* overflow recovery takes a turn back, and the consumer hears what was recorded.
THEOREM TurnRefinesSession == Spec => ImplementsConversationSession
<1>1. Init => Abstract!SessionInit
  <2> SUFFICES ASSUME Init PROVE Abstract!SessionInit
    OBVIOUS
  <2>1. /\ history = <<>> /\ pc = "none" /\ compaction = "idle" /\ turn = 0
        /\ outcome = [t \in Turns |-> "none"]
    BY DEF Init
  <2>2. \A t \in Turns : RecordedKinds(t) = {}
    BY <2>1 DEF RecordedKinds, Positions
  <2>3. \A t \in Turns : LogOf(t) = "absent"
    BY <2>2 DEF LogOf
  <2> QED BY <2>1, <2>3 DEF Abstract!SessionInit, Turns
<1>2. SessionInv /\ SessionInv' /\ CompactedInv /\ HistoryInv /\ HistoryInv' /\ [Next]_vars
      => [Abstract!SessionNext]_(Abstract!sessionVars)
  <2> SUFFICES ASSUME SessionInv, SessionInv', CompactedInv, HistoryInv, HistoryInv', [Next]_vars
               PROVE  Abstract!SessionNext \/ UNCHANGED Abstract!sessionVars
    OBVIOUS
  <2>1. TypeInv' /\ SnapshotInv' /\ StageInv /\ StageInv'
    BY DEF SessionInv, HistoryInv
  <2>2. StageLog
    BY <2>1, StageTells DEF SessionInv
  <2> QED BY <2>1, <2>2, TurnRefines, OthersRefine DEF Next, CompactorStep, Rest
<1> QED
  BY <1>1, <1>2, HistoryInvariant, SessionInvariant, PTL
  DEF Spec, ImplementsConversationSession, Abstract!SessionSpec

-----------------------------------------------------------------------------
(* How a history is written, entry by entry.                               *)

InTurnKinds == {"user_prompt", "tool_call", "tool_result"}

\* Entry n of h may stand behind those before it: a turn begins with its prompt,
\* behind all earlier turns; a result directly follows its call, and a further call
\* the result; a terminal entry is the last of its turn.
Follows(h, n) ==
    \/ h[n] = Summary
    \/ /\ h[n] = PromptOf(h[n].turn) /\ h[n].turn # 0
       /\ \A i \in 1 .. n - 1 : h[i].turn < h[n].turn
    \/ /\ n > 1 /\ h[n].turn # 0 /\ h[n - 1].turn = h[n].turn
       /\ \/ /\ h[n].kind = "tool_call" /\ h[n - 1].kind \in {"user_prompt", "tool_result"}
             /\ \A i \in 1 .. n - 1 : h[i].call # h[n].call
          \/ h[n].kind = "tool_result" /\ h[n - 1] = Entry(h[n].turn, "tool_call", h[n].call)
          \/ h[n].kind \in TerminalKinds /\ h[n - 1].kind \in InTurnKinds

Grammar(h) == \A n \in 1 .. Len(h) : Follows(h, n)

LEMMA GrammarGoesOn ==
    ASSUME NEW h \in Seq(Entries), NEW e \in Entries, Grammar(h), Follows(Append(h, e), Len(h) + 1)
    PROVE  Grammar(Append(h, e))
<1> DEFINE g == Append(h, e)
<1>1. /\ Len(h) \in Nat /\ Len(g) = Len(h) + 1
      /\ g[Len(h) + 1] = e /\ \A i \in 1 .. Len(h) : g[i] = h[i]
  BY Appended
<1> HIDE DEF g
<1> SUFFICES ASSUME NEW n \in 1 .. Len(g) PROVE Follows(g, n)
  BY DEF Grammar, g
<1>2. CASE n = Len(h) + 1
  BY <1>2 DEF g
<1>3. CASE n # Len(h) + 1
  <2>1. n \in 1 .. Len(h) /\ (n > 1 => n - 1 \in 1 .. Len(h)) /\ \A i \in 1 .. n - 1 : i \in 1 .. Len(h)
    BY <1>1, <1>3
  <2>2. g[n] = h[n] /\ (n > 1 => g[n - 1] = h[n - 1]) /\ \A i \in 1 .. n - 1 : g[i] = h[i]
    BY <1>1, <2>1
  <2>3. Follows(h, n)
    BY <2>1 DEF Grammar
  <2> QED BY <2>2, <2>3 DEF Follows
<1> QED BY <1>2, <1>3

LEMMA PrefixOfGrammar ==
    ASSUME NEW g \in Seq(Entries), NEW h \in Seq(Entries), Len(g) <= Len(h),
           \A i \in 1 .. Len(g) : h[i] = g[i], Grammar(h)
    PROVE  Grammar(g)
<1> SUFFICES ASSUME NEW n \in 1 .. Len(g) PROVE Follows(g, n)
  BY DEF Grammar
<1>1. Len(g) \in Nat /\ Len(h) \in Nat
  OBVIOUS
<1>2. n \in 1 .. Len(h) /\ (n > 1 => n - 1 \in 1 .. Len(g)) /\ \A i \in 1 .. n - 1 : i \in 1 .. Len(g)
  BY <1>1
<1>3. g[n] = h[n] /\ (n > 1 => g[n - 1] = h[n - 1]) /\ \A i \in 1 .. n - 1 : g[i] = h[i]
  BY <1>2
<1>4. Follows(h, n)
  BY <1>2 DEF Grammar
<1> QED BY <1>3, <1>4 DEF Follows

\* A summary is the only entry of no turn.
LEMMA OfTurnOrSummary ==
    ASSUME NEW h, Grammar(h), NEW n \in 1 .. Len(h)
    PROVE  \/ h[n] = Summary /\ h[n].turn = 0 /\ h[n].kind = "compaction_summary"
           \/ h[n].turn # 0 /\ h[n].kind \in InTurnKinds \union TerminalKinds
<1>1. Follows(h, n)
  BY DEF Grammar
<1>2. Summary.turn = 0 /\ Summary.kind = "compaction_summary"
  BY DEF Summary, Entry
<1>3. PromptOf(h[n].turn).kind = "user_prompt"
  BY DEF PromptOf, Entry
<1> QED BY <1>1, <1>2, <1>3 DEF Follows, InTurnKinds

-----------------------------------------------------------------------------
(* Lists.                                                                  *)

LEMMA ListsTogether ==
    ASSUME NEW E, NEW Q \in Seq(E), NEW R \in Seq(E), NEW h, NEW K, NEW L,
           \A a \in K, b \in L : a < b, Lists(Q, h, K), Lists(R, h, L)
    PROVE  Lists(Q \o R, h, K \union L)
<1> DEFINE s == Q \o R
           q == Len(Q)
<1>1. /\ q \in Nat /\ Len(R) \in Nat /\ Len(s) = q + Len(R)
      /\ \A i \in 1 .. q : s[i] = Q[i] /\ i \in 1 .. Len(s)
      /\ \A i \in 1 .. Len(R) : s[q + i] = R[i] /\ q + i \in 1 .. Len(s)
      /\ \A i \in 1 .. Len(s) : i \in 1 .. q \/ (i > q /\ i - q \in 1 .. Len(R) /\ s[i] = R[i - q])
  OBVIOUS
<1> HIDE DEF s, q
<1>2. ASSUME NEW i \in 1 .. Len(s) PROVE \E a \in K \union L : s[i] = h[a]
  <2>1. CASE i \in 1 .. q
    <3>1. s[i] = Q[i] /\ i \in 1 .. Len(Q)
      BY <1>1, <2>1 DEF q
    <3>2. \E a \in K : Q[i] = h[a]
      BY <3>1 DEF Lists
    <3> QED BY <3>1, <3>2
  <2>2. CASE i > q /\ i - q \in 1 .. Len(R) /\ s[i] = R[i - q]
    BY <2>2 DEF Lists
  <2> QED BY <1>1, <2>1, <2>2
<1>3. ASSUME NEW a \in K \union L PROVE \E i \in 1 .. Len(s) : s[i] = h[a]
  <2>1. CASE a \in K
    <3>1. PICK i \in 1 .. q : Q[i] = h[a]
      BY <2>1 DEF Lists, q
    <3> QED BY <1>1, <3>1
  <2>2. CASE a \in L
    <3>1. PICK i \in 1 .. Len(R) : R[i] = h[a]
      BY <2>2 DEF Lists
    <3> QED BY <1>1, <3>1
  <2> QED BY <2>1, <2>2
<1>4. ASSUME NEW i \in 1 .. Len(s), NEW j \in 1 .. Len(s), i < j
      PROVE  \E a, b \in K \union L : a < b /\ s[i] = h[a] /\ s[j] = h[b]
  <2>1. CASE j \in 1 .. q
    <3>1. i \in 1 .. q
      BY <1>1, <1>4, <2>1
    <3>2. PICK a, b \in K : a < b /\ Q[i] = h[a] /\ Q[j] = h[b]
      BY <1>4, <2>1, <3>1 DEF Lists, q
    <3> QED BY <1>1, <2>1, <3>1, <3>2
  <2>2. CASE i > q
    <3>1. i - q \in 1 .. Len(R) /\ j - q \in 1 .. Len(R) /\ i - q < j - q /\ s[i] = R[i - q] /\ s[j] = R[j - q]
      BY <1>1, <1>4, <2>2
    <3>2. PICK a, b \in L : a < b /\ R[i - q] = h[a] /\ R[j - q] = h[b]
      BY <3>1 DEF Lists
    <3> QED BY <3>1, <3>2
  <2>3. CASE i \in 1 .. q /\ j > q
    <3>1. j - q \in 1 .. Len(R) /\ s[j] = R[j - q] /\ s[i] = Q[i]
      BY <1>1, <2>3
    <3>2. PICK a \in K : Q[i] = h[a]
      BY <2>3 DEF Lists, q
    <3>3. PICK b \in L : R[j - q] = h[b]
      BY <3>1 DEF Lists
    <3> QED BY <3>1, <3>2, <3>3
  <2> QED BY <1>1, <2>1, <2>2, <2>3
<1> QED BY <1>2, <1>3, <1>4 DEF Lists, s

LEMMA ListsSame ==
    ASSUME NEW Q, NEW g, NEW h, NEW K, Lists(Q, h, K), \A a \in K : g[a] = h[a]
    PROVE  Lists(Q, g, K)
<1>1. ASSUME NEW i \in 1 .. Len(Q) PROVE \E a \in K : Q[i] = g[a]
  BY DEF Lists
<1>2. ASSUME NEW a \in K PROVE \E i \in 1 .. Len(Q) : Q[i] = g[a]
  BY DEF Lists
<1>3. ASSUME NEW i \in 1 .. Len(Q), NEW j \in 1 .. Len(Q), i < j
      PROVE  \E a, b \in K : a < b /\ Q[i] = g[a] /\ Q[j] = g[b]
  <2>1. PICK a, b \in K : a < b /\ Q[i] = h[a] /\ Q[j] = h[b]
    BY <1>3 DEF Lists
  <2> QED BY <2>1
<1> QED BY <1>1, <1>2, <1>3 DEF Lists

LEMMA ListsSegment ==
    ASSUME NEW E, NEW h \in Seq(E), NEW p \in Nat, NEW q \in Nat, p >= 1, q <= Len(h), p <= q + 1
    PROVE  Lists(SubSeq(h, p, q), h, p .. q)
<1> DEFINE s == SubSeq(h, p, q)
<1>1. Len(s) = q + 1 - p /\ \A i \in 1 .. Len(s) : s[i] = h[p + i - 1] /\ p + i - 1 \in p .. q
  OBVIOUS
<1>2. Len(s) \in Nat
  OBVIOUS
<1> HIDE DEF s
<1>3. \A i, j \in 1 .. Len(s) : i < j => p + i - 1 < p + j - 1
  BY <1>2
<1>4. \A a \in p .. q : a - p + 1 \in 1 .. Len(s) /\ p + (a - p + 1) - 1 = a
  BY <1>1
<1>5. ASSUME NEW i \in 1 .. Len(s) PROVE p + i - 1 \in p .. q /\ s[i] = h[p + i - 1]
  BY <1>1
<1>6. ASSUME NEW a \in p .. q PROVE \E i \in 1 .. Len(s) : s[i] = h[a]
  BY <1>1, <1>4
<1>7. ASSUME NEW i \in 1 .. Len(s), NEW j \in 1 .. Len(s), i < j
      PROVE  \E a, b \in p .. q : a < b /\ s[i] = h[a] /\ s[j] = h[b]
  BY <1>3, <1>5, <1>7
<1> QED BY <1>5, <1>6, <1>7 DEF Lists, s

-----------------------------------------------------------------------------
(* What is shown of a history.                                             *)

\* The entries told before any turn is about to be answered.
Shown(h) == {i \in SinceSummary(h) : Tells(h, 0, h[i])}

\* The turn at the end of h, without terminal entry, begins at position p.
OpenFrom(h, p) ==
    /\ p \in 1 .. Len(h)
    /\ h[p] = PromptOf(h[p].turn) /\ h[p].turn # 0
    /\ \A i \in 1 .. p - 1 : h[i].turn < h[p].turn
    /\ \A i \in p + 1 .. Len(h) : h[i].turn = h[p].turn /\ h[i].kind \in ToolKinds

\* The pass over the entries has told what is to be shown, and holds what it
\* has seen of the turn that is open.
Story(h) ==
    /\ Told(h).items \in Seq(Entries)
    /\ Lists(Told(h).items, h, Shown(h))
    /\ h # <<>> /\ h[Len(h)].kind \in InTurnKinds =>
          \E p \in 1 .. Len(h) : OpenFrom(h, p) /\ Told(h).pending = <<h[p]>>
                                /\ Told(h).after = SubSeq(h, p + 1, Len(h))

LEMMA SinceAppended ==
    ASSUME NEW h \in Seq(Entries), NEW e \in Entries
    PROVE  SinceSummary(Append(h, e)) = (IF IsSummary(e) THEN {} ELSE SinceSummary(h)) \union {Len(h) + 1}
<1> DEFINE g == Append(h, e)
           n == Len(h) + 1
<1>1. /\ Len(h) \in Nat /\ Len(g) = n
      /\ g[n] = e /\ \A i \in 1 .. Len(h) : g[i] = h[i]
  BY Appended
<1> HIDE DEF g
<1>2. n \in SinceSummary(g)
  BY <1>1 DEF SinceSummary
<1>3. ASSUME NEW i \in 1 .. Len(h)
      PROVE  i \in SinceSummary(g) <=> ~IsSummary(e) /\ i \in SinceSummary(h)
  <2>1. n \in i + 1 .. Len(g) /\ i \in 1 .. Len(g)
    BY <1>1
  <2>2. \A j \in i + 1 .. Len(h) : j \in i + 1 .. Len(g) /\ g[j] = h[j]
    BY <1>1
  <2>3. \A j \in i + 1 .. Len(g) : j \in i + 1 .. Len(h) \/ j = n
    BY <1>1
  <2> HIDE DEF n
  <2> QED BY <1>1, <2>1, <2>2, <2>3 DEF SinceSummary, IsSummary
<1>4. \A i \in SinceSummary(g) : i \in 1 .. Len(h) \/ i = n
  BY <1>1 DEF SinceSummary
<1>5. \A i \in SinceSummary(h) : i \in 1 .. Len(h)
  BY DEF SinceSummary
<1> HIDE DEF n
<1> QED BY <1>2, <1>3, <1>4, <1>5 DEF g, n

LEMMA SummaryTells ==
    ASSUME NEW h \in Seq(Entries), NEW e \in Entries, IsSummary(e)
    PROVE  Story(Append(h, e))
<1> DEFINE g == Append(h, e)
           n == Len(h) + 1
<1>1. Len(h) \in Nat /\ Len(g) = n /\ g[n] = e
  BY Appended
<1>2. SinceSummary(g) = {n}
  BY SinceAppended
<1> HIDE DEF g
<1>3. Shown(g) = {n}
  BY <1>1, <1>2 DEF Shown, Tells, IsSummary
<1>4. Told(g) = [items |-> <<e>>, pending |-> <<>>, after |-> <<>>]
  BY ToldSummary DEF g
<1>5. Lists(<<e>>, g, {n})
  BY <1>1 DEF Lists
<1>6. g[Len(g)].kind \notin InTurnKinds
  BY <1>1 DEF IsSummary, InTurnKinds
<1>7. <<e>> \in Seq(Entries)
  OBVIOUS
<1> QED BY <1>3, <1>4, <1>5, <1>6, <1>7 DEF Story, g

\* An entry of one turn changes nothing about what is told of another.
LEMMA TellsOfOthers ==
    ASSUME NEW h \in Seq(Entries), NEW e \in Entries, NEW x \in Entries, x.turn # e.turn
    PROVE  Tells(Append(h, e), 0, x) <=> Tells(h, 0, x)
<1> DEFINE g == Append(h, e)
<1>1. /\ Len(h) \in Nat /\ Len(g) = Len(h) + 1
      /\ g[Len(h) + 1] = e /\ \A i \in 1 .. Len(h) : g[i] = h[i]
  BY Appended
<1> HIDE DEF g
<1>2. \A i \in 1 .. Len(g) : i \in 1 .. Len(h) \/ i = Len(h) + 1
  BY <1>1
<1>3. \A i \in 1 .. Len(h) : i \in 1 .. Len(g)
  BY <1>1
<1>4. ASSUME NEW kinds PROVE HasEntry(g, x.turn, kinds) <=> HasEntry(h, x.turn, kinds)
  BY <1>1, <1>2, <1>3 DEF HasEntry
<1>5. Entry(x.turn, "tool_result", x.call).turn = x.turn
  BY DEF Entry
<1>6. (\E i \in 1 .. Len(g) : g[i] = Entry(x.turn, "tool_result", x.call))
      <=> (\E i \in 1 .. Len(h) : h[i] = Entry(x.turn, "tool_result", x.call))
  BY <1>1, <1>2, <1>3, <1>5
<1> QED BY <1>4, <1>6 DEF Tells, g

LEMMA OpenIsUntold ==
    ASSUME NEW h, NEW x \in Entries, x.kind # "compaction_summary", x.turn # 0,
           ~HasEntry(h, x.turn, TerminalKinds)
    PROVE  ~Tells(h, 0, x)
BY DEF Tells, HasEntry, TerminalKinds

\* An entry of an open turn leaves what is shown as it was.
LEMMA OpenShowsTheSame ==
    ASSUME NEW h \in Seq(Entries), NEW e \in Entries, Grammar(h), ~IsSummary(e), e.turn # 0,
           ~HasEntry(Append(h, e), e.turn, TerminalKinds)
    PROVE  Shown(Append(h, e)) = Shown(h)
<1> DEFINE g == Append(h, e)
           n == Len(h) + 1
<1>1. /\ Len(h) \in Nat /\ Len(g) = n
      /\ g[n] = e /\ \A i \in 1 .. Len(h) : g[i] = h[i] /\ h[i] \in Entries
  BY Appended, ElementsAreEntries
<1>2. SinceSummary(g) = SinceSummary(h) \union {n}
  BY SinceAppended
<1>3. SinceSummary(h) \subseteq 1 .. Len(h)
  BY DEF SinceSummary
<1>4. ~Tells(g, 0, e)
  BY OpenIsUntold DEF IsSummary
<1>5. ~HasEntry(h, e.turn, TerminalKinds)
  <2>1. \A i \in 1 .. Len(h) : i \in 1 .. Len(g)
    BY <1>1
  <2> HIDE DEF g
  <2> QED BY <1>1, <2>1 DEF HasEntry, g
<1> HIDE DEF g
<1>6. ASSUME NEW i \in 1 .. Len(h) PROVE Tells(g, 0, g[i]) <=> Tells(h, 0, h[i])
  <2>1. CASE h[i].turn # e.turn
    BY <1>1, <2>1, TellsOfOthers DEF g
  <2>2. CASE h[i].turn = e.turn
    <3>1. h[i].kind # "compaction_summary"
      BY <2>2, OfTurnOrSummary DEF InTurnKinds, TerminalKinds
    <3>2. ~Tells(h, 0, h[i])
      BY <1>1, <1>5, <2>2, <3>1, OpenIsUntold
    <3>3. ~Tells(g, 0, h[i])
      BY <1>1, <2>2, <3>1, OpenIsUntold DEF g
    <3> QED BY <1>1, <3>2, <3>3
  <2> QED BY <2>1, <2>2
<1> HIDE DEF n
<1> QED BY <1>1, <1>2, <1>3, <1>4, <1>6 DEF Shown, g

LEMMA PromptTells ==
    ASSUME NEW h \in Seq(Entries), NEW e \in Entries, Grammar(h), Story(h),
           e = PromptOf(e.turn), e.turn # 0, \A i \in 1 .. Len(h) : h[i].turn < e.turn
    PROVE  Story(Append(h, e))
<1> DEFINE g == Append(h, e)
           n == Len(h) + 1
<1>1. /\ Len(h) \in Nat /\ Len(g) = n /\ g \in Seq(Entries)
      /\ g[n] = e /\ \A i \in 1 .. Len(h) : g[i] = h[i]
  BY Appended
<1>2. e.kind = "user_prompt" /\ ~IsSummary(e)
  BY DEF PromptOf, Entry, IsSummary
<1>3. IsState(Told(h)) /\ Told(g) = Project(Told(h), e)
  BY <1>2, ToldIsState, ToldAppend
<1> HIDE DEF g
<1>4. Told(g) = [items |-> Told(h).items, pending |-> <<e>>, after |-> <<>>]
  BY <1>2, <1>3 DEF IsState, Project
<1>5. e.turn \in Nat
  BY DEF Entries, Turns
<1>6. ~HasEntry(g, e.turn, TerminalKinds)
  <2> SUFFICES ASSUME NEW i \in 1 .. Len(g), g[i].turn = e.turn, g[i].kind \in TerminalKinds PROVE FALSE
    BY DEF HasEntry
  <2>1. CASE i = n
    BY <1>1, <1>2, <2>1 DEF TerminalKinds
  <2>2. CASE i \in 1 .. Len(h)
    BY <1>1, <1>5, <2>2
  <2> QED BY <1>1, <2>1, <2>2
<1>7. Shown(g) = Shown(h)
  BY <1>2, <1>6, OpenShowsTheSame DEF g
<1>8. Shown(h) \subseteq 1 .. Len(h)
  BY DEF Shown, SinceSummary
<1>9. Lists(Told(h).items, g, Shown(h))
  <2>1. \A a \in Shown(h) : g[a] = h[a]
    BY <1>1, <1>8
  <2> QED BY <2>1, ListsSame DEF Story
<1>10. OpenFrom(g, n)
  <2>1. n \in 1 .. Len(g) /\ \A i \in 1 .. n - 1 : i \in 1 .. Len(h)
    BY <1>1
  <2>2. \A i \in n + 1 .. Len(g) : FALSE
    BY <1>1
  <2> HIDE DEF n
  <2> QED BY <1>1, <2>1, <2>2 DEF OpenFrom
<1>11. SubSeq(g, n + 1, Len(g)) = <<>> /\ n \in 1 .. Len(g)
  BY <1>1
<1>12. \E p \in 1 .. Len(g) : OpenFrom(g, p) /\ Told(g).pending = <<g[p]>>
                              /\ Told(g).after = SubSeq(g, p + 1, Len(g))
  <2>1. Told(g).pending = <<g[n]>> /\ Told(g).after = SubSeq(g, n + 1, Len(g))
    BY <1>1, <1>4, <1>11
  <2> HIDE DEF n
  <2> QED BY <1>10, <1>11, <2>1
<1>13. Told(g).items = Told(h).items /\ Told(h).items \in Seq(Entries)
  BY <1>4 DEF Story
<1> QED BY <1>7, <1>9, <1>12, <1>13 DEF Story, g

LEMMA TailAppended ==
    ASSUME NEW h \in Seq(Entries), NEW e \in Entries, NEW p \in 1 .. Len(h)
    PROVE  SubSeq(Append(h, e), p + 1, Len(h) + 1) = Append(SubSeq(h, p + 1, Len(h)), e)
<1> DEFINE n == Len(h) + 1
           g == Append(h, e)
           s == SubSeq(h, p + 1, Len(h))
           r == SubSeq(g, p + 1, n)
           t == Append(s, e)
<1>1. /\ Len(h) \in Nat /\ Len(g) = n /\ g \in Seq(Entries) /\ p \in Nat
      /\ g[n] = e /\ \A i \in 1 .. Len(h) : g[i] = h[i]
  BY Appended
<1> HIDE DEF g
<1>2. /\ s \in Seq(Entries) /\ Len(s) = Len(h) - p
      /\ \A i \in 1 .. Len(s) : s[i] = h[p + i] /\ p + i \in 1 .. Len(h)
  BY <1>1
<1>3. /\ r \in Seq(Entries) /\ Len(r) = Len(h) - p + 1 /\ \A i \in 1 .. Len(r) : r[i] = g[p + i]
  <2>1. p + 1 \in 1 .. Len(g) /\ n \in p + 1 .. Len(g) /\ n - (p + 1) + 1 = Len(h) - p + 1
    BY <1>1
  <2> HIDE DEF n
  <2>2. r \in Seq(Entries) /\ Len(r) = n - (p + 1) + 1
    BY <1>1, <2>1
  <2>3. p + 1 \in Int /\ n \in Int /\ p \in Int
    BY <1>1, <2>1
  <2>4. \A i \in 1 .. n - (p + 1) + 1 : r[i] = g[(p + 1) + i - 1]
    BY ONLY <1>1, <2>1, <2>3
  <2>5. \A i \in 1 .. n - (p + 1) + 1 : (p + 1) + i - 1 = p + i
    BY ONLY <2>3
  <2> HIDE DEF r
  <2> QED BY <2>1, <2>2, <2>4, <2>5
<1> HIDE DEF s, r
<1>4. /\ t \in Seq(Entries) /\ Len(t) = Len(s) + 1 /\ \A i \in 1 .. Len(s) : t[i] = s[i]
      /\ t[Len(s) + 1] = e
  BY <1>2, Appended
<1> HIDE DEF t
<1>5. ASSUME NEW i \in 1 .. Len(r) PROVE r[i] = t[i]
  <2>1. CASE i \in 1 .. Len(s)
    BY <1>1, <1>2, <1>3, <1>4, <2>1
  <2>2. CASE i = Len(s) + 1
    <3>1. p + i = n
      BY <1>1, <1>2, <2>2
    <3> QED BY <1>1, <1>3, <1>4, <2>2, <3>1
  <2>3. Len(s) \in Nat /\ Len(r) = Len(s) + 1
    BY <1>2, <1>3
  <2> QED BY <2>1, <2>2, <2>3
<1>6. r = t
  <2>1. Len(r) = Len(t)
    BY <1>1, <1>2, <1>3, <1>4
  <2> QED BY <1>3, <1>4, <1>5, <2>1, SeqEqual
<1> QED BY <1>6 DEF g, r, s, t

LEMMA ToolTells ==
    ASSUME NEW h \in Seq(Entries), NEW e \in Entries, Grammar(h), Story(h),
           h # <<>>, h[Len(h)].kind \in InTurnKinds, h[Len(h)].turn = e.turn, e.turn # 0,
           e.kind \in ToolKinds
    PROVE  Story(Append(h, e))
<1> DEFINE g == Append(h, e)
           n == Len(h) + 1
<1>1. /\ Len(h) \in Nat /\ Len(g) = n /\ g \in Seq(Entries)
      /\ g[n] = e /\ \A i \in 1 .. Len(h) : g[i] = h[i]
  BY Appended
<1>2. ~IsSummary(e) /\ e.kind # "user_prompt" /\ e.kind \notin Terminals
  BY DEF ToolKinds, IsSummary, Terminals
<1>3. IsState(Told(h)) /\ Told(g) = Project(Told(h), e)
  BY <1>2, ToldIsState, ToldAppend
<1>4. PICK p \in 1 .. Len(h) : OpenFrom(h, p) /\ Told(h).pending = <<h[p]>>
                               /\ Told(h).after = SubSeq(h, p + 1, Len(h))
  BY DEF Story
<1> HIDE DEF g
<1>5. Told(g) = [items |-> Told(h).items, pending |-> <<h[p]>>, after |-> Append(Told(h).after, e)]
  <2>1. Told(h).pending # <<>> /\ e.kind # "compaction_summary"
    BY <1>2, <1>4 DEF IsSummary
  <2> QED BY <1>2, <1>3, <1>4, <2>1 DEF IsState, Project
<1>6. h[p].turn = e.turn
  <2>1. p = Len(h) \/ Len(h) \in p + 1 .. Len(h)
    BY <1>1
  <2> QED BY <1>4, <2>1 DEF OpenFrom
<1>7. OpenFrom(g, p)
  <2>1. p \in 1 .. Len(g) /\ g[p] = h[p] /\ \A i \in 1 .. p - 1 : g[i] = h[i]
    BY <1>1
  <2>2. ASSUME NEW i \in p + 1 .. Len(g) PROVE g[i].turn = g[p].turn /\ g[i].kind \in ToolKinds
    <3>1. CASE i = n
      BY <1>1, <1>6, <2>1, <3>1
    <3>2. CASE i \in p + 1 .. Len(h)
      <4>1. h[i].turn = h[p].turn /\ h[i].kind \in ToolKinds
        BY <1>4, <3>2 DEF OpenFrom
      <4>2. g[i] = h[i]
        BY <1>1, <3>2
      <4> QED BY <2>1, <4>1, <4>2
    <3> QED BY <1>1, <3>1, <3>2
  <2> QED BY <1>4, <2>1, <2>2 DEF OpenFrom
<1>8. SubSeq(g, p + 1, Len(g)) = Append(SubSeq(h, p + 1, Len(h)), e)
  BY <1>1, TailAppended DEF g
<1>9. ~HasEntry(g, e.turn, TerminalKinds)
  <2> SUFFICES ASSUME NEW i \in 1 .. Len(g), g[i].turn = e.turn, g[i].kind \in TerminalKinds PROVE FALSE
    BY DEF HasEntry
  <2>0. e.turn \in Nat
    BY DEF Entries, Turns
  <2>1. CASE i \in 1 .. p - 1
    <3>1. g[i].turn < g[p].turn /\ g[p].turn = e.turn
      BY <1>1, <1>6, <1>7, <2>1 DEF OpenFrom
    <3> QED BY <2>0, <3>1
  <2>2. CASE i = p
    BY <1>7, <2>2 DEF OpenFrom, PromptOf, Entry, TerminalKinds
  <2>3. CASE i \in p + 1 .. Len(g)
    BY <1>7, <2>3 DEF OpenFrom, ToolKinds, TerminalKinds
  <2> QED BY <1>1, <2>1, <2>2, <2>3
<1>10. Shown(g) = Shown(h)
  BY <1>2, <1>9, OpenShowsTheSame DEF g
<1>11. Lists(Told(h).items, g, Shown(h))
  <2>1. \A a \in Shown(h) : g[a] = h[a]
    BY <1>1 DEF Shown, SinceSummary
  <2> QED BY <2>1, ListsSame DEF Story
<1>12. p \in 1 .. Len(g) /\ g[p] = h[p]
  BY <1>1
<1>13. Told(g).pending = <<g[p]>> /\ Told(g).after = SubSeq(g, p + 1, Len(g))
  <2>1. Told(g).pending = <<h[p]>> /\ Told(g).after = Append(Told(h).after, e)
    BY <1>5
  <2>2. Told(h).after = SubSeq(h, p + 1, Len(h))
    BY <1>4
  <2>3. Told(g).after = SubSeq(g, p + 1, Len(g))
    BY ONLY <1>8, <2>1, <2>2
  <2> QED BY ONLY <1>12, <2>1, <2>3
<1>14. Told(g).items = Told(h).items /\ Told(h).items \in Seq(Entries)
  BY <1>5 DEF Story
<1> QED BY <1>7, <1>10, <1>11, <1>12, <1>13, <1>14 DEF Story, g

-----------------------------------------------------------------------------
(* The end of a turn.                                                      *)

\* The tool entries of the open turn are serial.
LEMMA OpenIsSerial ==
    ASSUME NEW h \in Seq(Entries), Grammar(h), NEW p, OpenFrom(h, p)
    PROVE  Serial(SubSeq(h, p + 1, Len(h)))
<1> DEFINE A == SubSeq(h, p + 1, Len(h))
<1>1. /\ p \in 1 .. Len(h) /\ Len(h) \in Nat /\ Len(A) = Len(h) - p
      /\ \A i \in 1 .. Len(A) : A[i] = h[p + i] /\ p + i \in p + 1 .. Len(h)
  BY DEF OpenFrom
<1> HIDE DEF A
<1>2. SUFFICES ASSUME NEW i \in 1 .. Len(A)
               PROVE  /\ A[i].kind \in ToolKinds
                      /\ A[i].kind = "tool_result" =>
                            i > 1 /\ A[i - 1].kind = "tool_call" /\ A[i - 1].call = A[i].call
                      /\ A[i].kind = "tool_call" =>
                            /\ i > 1 => A[i - 1].kind = "tool_result"
                            /\ \A j \in 1 .. i - 1 : A[j].call # A[i].call
  BY DEF Serial, ToolKinds, A
<1> DEFINE n == p + i
<1>3. /\ n \in p + 1 .. Len(h) /\ A[i] = h[n] /\ n \in 1 .. Len(h) /\ n > 1
      /\ (i > 1 => A[i - 1] = h[n - 1] /\ n - 1 \in p + 1 .. Len(h))
      /\ (~(i > 1) => n - 1 = p)
      /\ \A j \in 1 .. i - 1 : A[j] = h[p + j] /\ p + j \in 1 .. n - 1
  <2>1. n \in p + 1 .. Len(h) /\ A[i] = h[n] /\ n \in 1 .. Len(h) /\ n > 1 /\ (~(i > 1) => n - 1 = p)
    BY <1>1
  <2>2. ASSUME i > 1 PROVE A[i - 1] = h[n - 1] /\ n - 1 \in p + 1 .. Len(h)
    <3>1. i - 1 \in 1 .. Len(A) /\ p + (i - 1) = n - 1
      BY <1>1, <2>2
    <3> QED BY <1>1, <3>1
  <2>3. ASSUME NEW j \in 1 .. i - 1 PROVE A[j] = h[p + j] /\ p + j \in 1 .. n - 1
    <3>1. j \in 1 .. Len(A) /\ p + j \in 1 .. n - 1
      BY <1>1
    <3> QED BY <1>1, <3>1
  <2> QED BY <2>1, <2>2, <2>3
<1> HIDE DEF n
<1>4. h[n].kind \in ToolKinds /\ Follows(h, n)
  BY <1>3 DEF OpenFrom, Grammar
<1>5. h[p].kind = "user_prompt"
  BY DEF OpenFrom, PromptOf, Entry
<1>6. /\ h[n].kind = "tool_call" =>
            /\ h[n - 1].kind \in {"user_prompt", "tool_result"}
            /\ \A j \in 1 .. n - 1 : h[j].call # h[n].call
      /\ h[n].kind = "tool_result" => h[n - 1].kind = "tool_call" /\ h[n - 1].call = h[n].call
  <2>1. h[n] # Summary /\ h[n] # PromptOf(h[n].turn)
    <3>1. Summary.kind = "compaction_summary" /\ PromptOf(h[n].turn).kind = "user_prompt"
      BY DEF Summary, PromptOf, Entry
    <3> QED BY <1>4, <3>1 DEF ToolKinds
  <2>2. h[n].kind \notin TerminalKinds
    BY <1>4 DEF ToolKinds, TerminalKinds
  <2> QED BY <1>4, <2>1, <2>2 DEF Follows, Entry
<1>7. i > 1 => h[n - 1].kind \in ToolKinds
  BY <1>3 DEF OpenFrom
<1> QED BY <1>3, <1>4, <1>5, <1>6, <1>7 DEF ToolKinds

\* A terminal entry adds its turn to what is shown, from the prompt on.
LEMMA TerminalShows ==
    ASSUME NEW h \in Seq(Entries), NEW e \in Entries, Grammar(h), NEW p, OpenFrom(h, p),
           e.turn = h[p].turn, e.kind \in TerminalKinds
    PROVE  LET g == Append(h, e)
           IN /\ Shown(g) = Shown(h) \union {i \in p .. Len(h) + 1 : Tells(g, 0, g[i])}
              /\ \A i \in Shown(h) : i < p /\ i \in 1 .. Len(h)
<1> DEFINE g == Append(h, e)
           n == Len(h) + 1
<1>1. /\ Len(h) \in Nat /\ Len(g) = n /\ p \in 1 .. Len(h)
      /\ g[n] = e /\ \A i \in 1 .. Len(h) : g[i] = h[i] /\ h[i] \in Entries
  BY Appended, ElementsAreEntries DEF OpenFrom
<1>2. SinceSummary(g) = SinceSummary(h) \union {n}
  BY SinceAppended DEF IsSummary, TerminalKinds
<1> HIDE DEF g
<1>3. /\ e.turn # 0 /\ e.turn \in Nat
      /\ \A i \in 1 .. p - 1 : h[i].turn < e.turn
      /\ \A i \in p .. Len(h) : h[i].turn = e.turn /\ h[i].kind \in InTurnKinds
  <2>1. h[p].kind = "user_prompt"
    BY DEF OpenFrom, PromptOf, Entry
  <2>2. \A i \in p .. Len(h) : i = p \/ i \in p + 1 .. Len(h)
    BY <1>1
  <2>3. e.turn \in Nat
    BY DEF Entries, Turns
  <2> QED BY <2>1, <2>2, <2>3 DEF OpenFrom, ToolKinds, InTurnKinds
<1>4. \A i \in p .. Len(h) : i \in SinceSummary(h)
  <2>1. \A i \in p .. Len(h) : i \in 1 .. Len(h) /\ \A j \in i + 1 .. Len(h) : j \in p .. Len(h)
    BY <1>1
  <2> QED BY <1>3, <2>1 DEF SinceSummary, InTurnKinds
<1>5. SinceSummary(h) \subseteq 1 .. Len(h)
  BY DEF SinceSummary
<1>6. ~HasEntry(h, e.turn, TerminalKinds)
  <2> SUFFICES ASSUME NEW i \in 1 .. Len(h), h[i].turn = e.turn, h[i].kind \in TerminalKinds PROVE FALSE
    BY DEF HasEntry
  <2>1. CASE i \in 1 .. p - 1
    BY <1>3, <2>1
  <2>2. CASE i \in p .. Len(h)
    BY <1>3, <2>2 DEF InTurnKinds, TerminalKinds
  <2> QED BY <1>1, <2>1, <2>2
<1>7. ASSUME NEW i \in Shown(h) PROVE i < p /\ i \in 1 .. Len(h)
  <2>1. i \in 1 .. Len(h) /\ Tells(h, 0, h[i])
    BY <1>5, <1>7 DEF Shown
  <2>2. CASE i \in p .. Len(h)
    <3>1. h[i].turn = e.turn /\ h[i].kind # "compaction_summary"
      BY <1>3, <2>2 DEF InTurnKinds
    <3> QED BY <1>1, <1>3, <1>6, <2>1, <3>1, OpenIsUntold
  <2> QED BY <1>1, <2>1, <2>2
<1>8. ASSUME NEW i \in 1 .. p - 1 PROVE i \in Shown(g) <=> i \in Shown(h)
  <2>1. i \in 1 .. Len(h) /\ i # n
    BY <1>1
  <2>2. h[i].turn # e.turn
    <3>1. h[i].turn < e.turn /\ ~(e.turn < e.turn)
      BY <1>3
    <3> QED BY <3>1
  <2>3. Tells(g, 0, g[i]) <=> Tells(h, 0, h[i])
    BY <1>1, <2>1, <2>2, TellsOfOthers DEF g
  <2> QED BY <1>2, <2>1, <2>3 DEF Shown
<1>9. \A i \in p .. n : i \in Shown(g) <=> Tells(g, 0, g[i])
  BY <1>1, <1>2, <1>4 DEF Shown
<1>10. \A i \in Shown(g) : i \in 1 .. p - 1 \/ i \in p .. n
  BY <1>1, <1>2, <1>5 DEF Shown
<1>11. \A i \in Shown(h) : i \in 1 .. p - 1
  BY <1>1, <1>7
<1> HIDE DEF n
<1> QED BY <1>7, <1>8, <1>9, <1>10, <1>11 DEF g, n

\* A finished turn is shown as its prompt and its terminal entry.
LEMMA FinishedTells ==
    ASSUME NEW h \in Seq(Entries), NEW e \in Entries, Grammar(h), Story(h),
           h # <<>>, h[Len(h)].kind \in InTurnKinds, h[Len(h)].turn = e.turn,
           e.turn # 0, e.kind \in FinishedKinds
    PROVE  Story(Append(h, e))
<1> DEFINE g == Append(h, e)
           n == Len(h) + 1
<1>1. PICK p \in 1 .. Len(h) : OpenFrom(h, p) /\ Told(h).pending = <<h[p]>>
                               /\ Told(h).after = SubSeq(h, p + 1, Len(h))
  BY DEF Story
<1> HIDE DEF g
<1>2. /\ Len(h) \in Nat /\ Len(g) = n /\ g \in Seq(Entries) /\ p \in Nat /\ p < n /\ h[p] \in Entries
      /\ g[n] = e /\ \A i \in 1 .. Len(h) : g[i] = h[i]
  BY Appended DEF g
<1>3. h[p].turn = e.turn
  <2>1. p = Len(h) \/ Len(h) \in p + 1 .. Len(h)
    BY <1>2
  <2> QED BY <1>1, <2>1 DEF OpenFrom
<1>4. e.kind \in TerminalKinds /\ ~IsSummary(e) /\ e.kind \in Terminals /\ e.kind # "user_prompt"
  BY DEF FinishedKinds, TerminalKinds, IsSummary, Terminals
<1>5. Told(g) = [items |-> Told(h).items \o TurnItems(h[p], Append(Told(h).after, e)),
                 pending |-> <<>>, after |-> <<>>]
  <2>1. IsState(Told(h)) /\ Told(g) = Project(Told(h), e)
    BY <1>4, ToldIsState, ToldAppend DEF g
  <2>2. Told(h).pending # <<>> /\ Told(h).pending[1] = h[p]
    BY <1>1
  <2> QED BY <1>4, <2>1, <2>2 DEF Project, IsSummary
<1>6. TurnItems(h[p], Append(Told(h).after, e)) = <<h[p], e>>
  <2>1. Told(h).after \in Seq(Entries)
    BY <1>1, <1>2
  <2>2. Last(Append(Told(h).after, e)) = e
    BY <2>1 DEF Last
  <2> QED BY <2>2 DEF TurnItems, FinishedKinds
<1>7. /\ Shown(g) = Shown(h) \union {i \in p .. n : Tells(g, 0, g[i])}
      /\ \A i \in Shown(h) : i < p /\ i \in 1 .. Len(h)
  BY <1>1, <1>3, <1>4, TerminalShows DEF g
<1>8. {i \in p .. n : Tells(g, 0, g[i])} = {p, n}
  <2>1. HasEntry(g, e.turn, FinishedKinds)
    <3>1. n \in 1 .. Len(g)
      BY <1>2
    <3> HIDE DEF n
    <3> QED BY <1>2, <3>1 DEF HasEntry
  <2>2. g[p].turn = e.turn /\ g[p].kind = "user_prompt" /\ g[n].turn = e.turn /\ g[n].kind \in TerminalKinds
    BY <1>1, <1>2, <1>3, <1>4 DEF OpenFrom, PromptOf, Entry
  <2>3. Tells(g, 0, g[p]) /\ Tells(g, 0, g[n])
    BY <2>1, <2>2 DEF Tells, FinishedKinds
  <2>4. ~HasEntry(g, e.turn, {"failed", "interrupted"})
    <3> SUFFICES ASSUME NEW i \in 1 .. Len(g), g[i].turn = e.turn, g[i].kind \in {"failed", "interrupted"} PROVE FALSE
      BY DEF HasEntry
    <3>1. e.turn \in Nat
      BY DEF Entries, Turns
    <3>2. CASE i \in 1 .. p - 1
      <4>1. g[i].turn < e.turn
        BY <1>1, <1>2, <1>3, <3>2 DEF OpenFrom
      <4> QED BY <3>1, <4>1
    <3>3. CASE i = p
      BY <2>2, <3>3
    <3>4. CASE i \in p + 1 .. Len(h)
      <4>1. i \in 1 .. Len(h) /\ h[i].kind \in ToolKinds
        BY <1>1, <1>2, <3>4 DEF OpenFrom
      <4> QED BY <1>2, <4>1 DEF ToolKinds
    <3>5. CASE i = n
      BY <1>2, <3>5 DEF FinishedKinds
    <3> QED BY <1>2, <3>2, <3>3, <3>4, <3>5
  <2>5. ASSUME NEW i \in p + 1 .. Len(h) PROVE ~Tells(g, 0, g[i])
    <3>1. g[i].turn = e.turn /\ g[i].kind \in ToolKinds
      <4>1. i \in 1 .. Len(h) /\ h[i].turn = h[p].turn /\ h[i].kind \in ToolKinds
        BY <1>1, <1>2, <2>5 DEF OpenFrom
      <4>2. g[i] = h[i]
        BY <1>2, <4>1
      <4> QED BY <1>3, <4>1, <4>2
    <3> QED BY <2>4, <3>1 DEF Tells, ToolKinds, TerminalKinds
  <2>6. \A i \in p .. n : i = p \/ i = n \/ i \in p + 1 .. Len(h)
    BY <1>2
  <2>7. p \in p .. n /\ n \in p .. n
    BY <1>2
  <2> HIDE DEF n
  <2> QED BY <2>3, <2>5, <2>6, <2>7
<1>9. Lists(<<h[p], e>>, g, {p, n})
  <2> DEFINE s == <<h[p], e>>
  <2>1. Len(s) = 2 /\ s[1] = g[p] /\ s[2] = g[n]
    BY <1>1, <1>2
  <2>2. \A i \in 1 .. 2 : i = 1 \/ i = 2
    OBVIOUS
  <2> HIDE DEF s, n
  <2>3. \A i \in 1 .. Len(s) : \E a \in {p, n} : s[i] = g[a]
    BY <2>1, <2>2
  <2>4. \A a \in {p, n} : \E i \in 1 .. Len(s) : s[i] = g[a]
    <3>1. 1 \in 1 .. Len(s) /\ 2 \in 1 .. Len(s)
      BY <2>1
    <3> QED BY <2>1, <3>1
  <2>5. ASSUME NEW i \in 1 .. Len(s), NEW j \in 1 .. Len(s), i < j
        PROVE  \E a, b \in {p, n} : a < b /\ s[i] = g[a] /\ s[j] = g[b]
    <3>1. i = 1 /\ j = 2
      BY <2>1, <2>5
    <3> QED BY <1>2, <2>1, <3>1
  <2>6. Lists(s, g, {p, n})
    BY <2>3, <2>4, <2>5 DEF Lists
  <2> QED BY <2>6 DEF s
<1>10. Lists(Told(h).items, g, Shown(h))
  <2>1. \A a \in Shown(h) : g[a] = h[a]
    BY <1>2, <1>7
  <2> QED BY <2>1, ListsSame DEF Story
<1>11. Told(h).items \in Seq(Entries) /\ <<h[p], e>> \in Seq(Entries)
  BY <1>2 DEF Story
<1>12. Told(g).items = Told(h).items \o <<h[p], e>>
  BY <1>5, <1>6
<1>13. Lists(Told(g).items, g, Shown(g)) /\ Told(g).items \in Seq(Entries)
  <2>1. \A a \in Shown(h), b \in {p, n} : a < b
    BY <1>2, <1>7
  <2> HIDE DEF n
  <2>2. Lists(Told(h).items \o <<h[p], e>>, g, Shown(h) \union {p, n})
    BY <1>9, <1>10, <1>11, <2>1, ListsTogether
  <2>3. Told(h).items \o <<h[p], e>> \in Seq(Entries)
    BY <1>11
  <2> QED BY <1>7, <1>8, <1>12, <2>2, <2>3
<1>14. g[Len(g)].kind \notin InTurnKinds
  BY <1>2, <1>4 DEF TerminalKinds, InTurnKinds
<1> QED BY <1>13, <1>14 DEF Story, g

\* The tool entries of a stopped turn that are shown.
LEMMA ReachedFacts ==
    ASSUME NEW A \in Seq(Entries), Serial(A)
    PROVE  LET m == Reached(A, Len(A))
           IN /\ m \in Nat /\ m <= Len(A)
              /\ m > 0 <=> \E i \in 1 .. Len(A) : A[i].kind = "tool_result"
              /\ \A i \in 1 .. Len(A) : A[i].kind = "tool_result" => i <= m
              /\ \A i \in 1 .. Len(A) : A[i].kind = "tool_call" =>
                    (i <= m <=> \E j \in 1 .. Len(A) : A[j].kind = "tool_result" /\ A[j].call = A[i].call)
<1> DEFINE n == Len(A)
           m == Reached(A, n)
<1>1. n \in Nat
  OBVIOUS
<1>2. \A i \in 1 .. n :
        /\ A[i].kind = "tool_call" \/ A[i].kind = "tool_result"
        /\ A[i].kind = "tool_result" =>
              i > 1 /\ i - 1 \in 1 .. n /\ A[i - 1].kind = "tool_call" /\ A[i - 1].call = A[i].call
        /\ A[i].kind = "tool_call" =>
              /\ i > 1 => A[i - 1].kind = "tool_result"
              /\ \A j \in 1 .. i - 1 : A[j].call # A[i].call
  BY <1>1 DEF Serial
<1>3. m = IF n = 0 THEN 0 ELSE IF A[n].kind = "tool_result" THEN n ELSE n - 1
  BY <1>1 DEF Reached
<1> HIDE DEF m, n
<1>4. m \in Nat /\ m <= n /\ n - 1 <= m
  BY <1>1, <1>3
<1>5. ASSUME NEW i \in 1 .. n, A[i].kind = "tool_result" PROVE i <= m
  BY <1>1, <1>3, <1>5
<1>6. ASSUME m > 0 PROVE \E i \in 1 .. n : A[i].kind = "tool_result"
  <2>1. CASE A[n].kind = "tool_result"
    BY <1>1, <1>3, <1>6, <2>1
  <2>2. CASE A[n].kind # "tool_result"
    <3>1. n \in 1 .. n /\ n > 1 /\ n - 1 \in 1 .. n
      BY <1>1, <1>3, <1>6, <2>2
    <3>2. A[n - 1].kind = "tool_result"
      BY <1>2, <2>2, <3>1
    <3> QED BY <3>1, <3>2
  <2> QED BY <2>1, <2>2
<1>7. ASSUME NEW i \in 1 .. n, A[i].kind = "tool_result" PROVE m > 0
  BY <1>4, <1>5, <1>7
<1>8. ASSUME NEW i \in 1 .. n, A[i].kind = "tool_call", i <= m
      PROVE  \E j \in 1 .. n : A[j].kind = "tool_result" /\ A[j].call = A[i].call
  <2>1. i < n
    <3>1. i # n \/ A[n].kind = "tool_call"
      BY <1>8
    <3> QED BY <1>1, <1>3, <1>8, <3>1
  <2>2. i + 1 \in 1 .. n /\ i + 1 > 1 /\ (i + 1) - 1 = i
    BY <1>1, <2>1
  <2>3. A[i + 1].kind = "tool_result"
    <3>1. A[i + 1].kind = "tool_call" => A[(i + 1) - 1].kind = "tool_result"
      BY <1>2, <2>2
    <3> QED BY <1>2, <1>8, <2>2, <3>1
  <2>4. A[(i + 1) - 1].call = A[i + 1].call
    BY <1>2, <2>2, <2>3
  <2> QED BY <2>2, <2>3, <2>4
<1>9. ASSUME NEW i \in 1 .. n, A[i].kind = "tool_call",
             NEW j \in 1 .. n, A[j].kind = "tool_result", A[j].call = A[i].call
      PROVE  i <= m
  <2>1. j > 1 /\ j - 1 \in 1 .. n /\ A[j - 1].kind = "tool_call" /\ A[j - 1].call = A[i].call
    BY <1>2, <1>9
  <2>2. ~(j - 1 \in 1 .. i - 1)
    BY <1>2, <1>9, <2>1
  <2>3. ~(i \in 1 .. (j - 1) - 1)
    BY <1>2, <1>9, <2>1
  <2>4. j - 1 = i
    BY <1>1, <2>1, <2>2, <2>3
  <2> QED BY <1>1, <1>4, <2>4
<1> QED BY <1>4, <1>5, <1>6, <1>7, <1>8, <1>9 DEF m, n

\* What a request tells of a turn that failed or was interrupted, h its entries and
\* those before it, and e its terminal entry.
LEMMA StoppedPositions ==
    ASSUME NEW h \in Seq(Entries), NEW e \in Entries, Grammar(h), NEW p, OpenFrom(h, p),
           e.turn = h[p].turn, e.kind \in {"failed", "interrupted"}
    PROVE  LET g == Append(h, e)
               A == SubSeq(h, p + 1, Len(h))
               m == Reached(A, Len(A))
           IN {i \in p .. Len(h) + 1 : Tells(g, 0, g[i])} = IF m = 0 THEN {} ELSE p .. p + m
<1> DEFINE g == Append(h, e)
           A == SubSeq(h, p + 1, Len(h))
           m == Reached(A, Len(A))
           n == Len(h) + 1
           t == e.turn
<1>1. /\ Len(h) \in Nat /\ Len(g) = n /\ p \in 1 .. Len(h)
      /\ g[n] = e /\ \A i \in 1 .. Len(h) : g[i] = h[i] /\ g[i] \in Entries
  BY Appended, ElementsAreEntries DEF OpenFrom
<1>2. A \in Seq(Entries) /\ Len(A) = Len(h) - p /\ \A i \in 1 .. Len(A) : A[i] = g[p + i]
  BY <1>1
<1>3. Serial(A)
  BY OpenIsSerial
<1> HIDE DEF g, A
<1>4. /\ m \in Nat /\ m <= Len(A)
      /\ m > 0 <=> \E i \in 1 .. Len(A) : A[i].kind = "tool_result"
      /\ \A i \in 1 .. Len(A) : A[i].kind = "tool_result" => i <= m
      /\ \A i \in 1 .. Len(A) : A[i].kind = "tool_call" =>
            (i <= m <=> \E j \in 1 .. Len(A) : A[j].kind = "tool_result" /\ A[j].call = A[i].call)
  BY <1>2, <1>3, ReachedFacts
<1> HIDE DEF m
<1>5. /\ g[p].turn = t /\ g[p].kind = "user_prompt"
      /\ \A i \in p + 1 .. Len(h) : g[i].turn = t /\ g[i].kind \in ToolKinds
      /\ \A i \in 1 .. p - 1 : g[i].turn # t
      /\ g[n].turn = t /\ g[n].kind \in {"failed", "interrupted"}
  <2>1. g[p].turn = t /\ g[p].kind = "user_prompt"
    BY <1>1 DEF OpenFrom, PromptOf, Entry
  <2>2. \A i \in p + 1 .. Len(h) : g[i].turn = t /\ g[i].kind \in ToolKinds
    BY <1>1 DEF OpenFrom
  <2>3. ASSUME NEW i \in 1 .. p - 1 PROVE g[i].turn # t
    <3>1. h[i].turn < t /\ g[i] = h[i] /\ ~(t < t)
      BY <1>1 DEF OpenFrom, Entries, Turns
    <3> QED BY <3>1
  <2> QED BY <1>1, <2>1, <2>2, <2>3
<1> HIDE DEF t
<1>6. \A i \in 1 .. Len(g) : i \in 1 .. p - 1 \/ i = p \/ i \in p + 1 .. Len(h) \/ i = n
  BY <1>1
<1>7. \A i \in p + 1 .. Len(h) : i - p \in 1 .. Len(A) /\ A[i - p] = g[i] /\ i \in 1 .. Len(g)
  <2> SUFFICES ASSUME NEW i \in p + 1 .. Len(h)
               PROVE  i - p \in 1 .. Len(A) /\ A[i - p] = g[i] /\ i \in 1 .. Len(g)
    OBVIOUS
  <2>1. i - p \in 1 .. Len(A) /\ p + (i - p) = i /\ i \in 1 .. Len(g)
    BY <1>1, <1>2
  <2> QED BY <1>2, <2>1
<1>8. ~HasEntry(g, t, {"completed", "incomplete"})
  BY <1>5, <1>6 DEF HasEntry, ToolKinds
<1>9. HasEntry(g, t, {"failed", "interrupted"})
  <2>1. n \in 1 .. Len(g)
    BY <1>1
  <2> HIDE DEF n
  <2> QED BY <1>5, <2>1 DEF HasEntry
<1>10. HasEntry(g, t, {"tool_result"}) <=> m > 0
  <2>1. ASSUME NEW i \in 1 .. Len(g), g[i].turn = t, g[i].kind \in {"tool_result"} PROVE m > 0
    <3>1. i \in p + 1 .. Len(h)
      BY <1>5, <1>6, <2>1
    <3>2. i - p \in 1 .. Len(A) /\ A[i - p].kind = "tool_result"
      BY <1>7, <2>1, <3>1
    <3> QED BY ONLY <1>4, <3>2
  <2>2. ASSUME m > 0 PROVE HasEntry(g, t, {"tool_result"})
    <3>1. PICK i \in 1 .. Len(A) : A[i].kind = "tool_result"
      BY <1>4, <2>2
    <3>2. g[p + i] = A[i]
      BY <1>2
    <3>3. p \in Nat /\ Len(h) \in Nat /\ Len(A) = Len(h) - p /\ Len(g) = Len(h) + 1
      BY <1>1, <1>2
    <3>4. p + i \in p + 1 .. Len(h) /\ p + i \in 1 .. Len(g)
      BY ONLY <3>3
    <3> QED BY <1>5, <3>1, <3>2, <3>4 DEF HasEntry
  <2> QED BY <2>1, <2>2 DEF HasEntry
<1>11. Tells(g, 0, g[p]) <=> m > 0
  <2>1. t # 0
    BY DEF OpenFrom, t
  <2> QED BY <1>5, <1>8, <1>9, <1>10, <2>1 DEF Tells, TerminalKinds
<1>12. ~Tells(g, 0, g[n])
  BY <1>5, <1>8 DEF Tells, TerminalKinds
<1>13. ASSUME NEW i \in p + 1 .. Len(h) PROVE Tells(g, 0, g[i]) <=> i - p <= m /\ m > 0
  <2>1. /\ g[i].turn = t /\ g[i].kind \in ToolKinds /\ i - p \in 1 .. Len(A) /\ A[i - p] = g[i]
        /\ i \in 1 .. Len(g) /\ i \in 1 .. Len(h) /\ g[i] \in Entries
    BY <1>1, <1>5, <1>7
  <2>2. Tells(g, 0, g[i]) <=> m > 0 /\ \E j \in 1 .. Len(g) : g[j] = Entry(t, "tool_result", g[i].call)
    BY <1>9, <1>10, <2>1 DEF Tells, ToolKinds, TerminalKinds
  <2>3. CASE g[i].kind = "tool_result"
    <3>1. g[i] = Entry(t, "tool_result", g[i].call)
      BY <2>1, <2>3 DEF Entries, Entry
    <3>2. i - p <= m
      BY <1>4, <2>1, <2>3
    <3> QED BY <2>1, <2>2, <3>1, <3>2
  <2>4. CASE g[i].kind = "tool_call"
    <3>1. i - p <= m <=> \E j \in 1 .. Len(A) : A[j].kind = "tool_result" /\ A[j].call = g[i].call
      BY <1>4, <2>1, <2>4
    <3>2. ASSUME NEW j \in 1 .. Len(A), A[j].kind = "tool_result", A[j].call = g[i].call
          PROVE  \E k \in 1 .. Len(g) : g[k] = Entry(t, "tool_result", g[i].call)
      <4>1. p + j \in p + 1 .. Len(h) /\ p + j \in 1 .. Len(g) /\ p + j \in 1 .. Len(h) /\ g[p + j] = A[j]
        BY <1>1, <1>2
      <4>2. g[p + j].turn = t /\ g[p + j] \in Entries
        BY <1>1, <1>5, <4>1
      <4>3. g[p + j] = Entry(t, "tool_result", g[i].call)
        BY <3>2, <4>1, <4>2 DEF Entries, Entry
      <4> QED BY <4>1, <4>3
    <3>3. ASSUME NEW k \in 1 .. Len(g), g[k] = Entry(t, "tool_result", g[i].call)
          PROVE  \E j \in 1 .. Len(A) : A[j].kind = "tool_result" /\ A[j].call = g[i].call
      <4>1. g[k].turn = t /\ g[k].kind = "tool_result" /\ g[k].call = g[i].call
        BY <3>3 DEF Entry
      <4>2. k \in p + 1 .. Len(h)
        BY <1>5, <1>6, <4>1
      <4> QED BY <1>7, <4>1, <4>2
    <3> QED BY <2>2, <3>1, <3>2, <3>3
  <2> QED BY <2>1, <2>3, <2>4 DEF ToolKinds
<1>14. \A i \in p .. n : i = p \/ i = n \/ i \in p + 1 .. Len(h)
  BY <1>1
<1>15. \A i \in p .. p + m : i = p \/ (i \in p + 1 .. Len(h) /\ i - p <= m)
  BY <1>1, <1>2, <1>4
<1>16. \A i \in p + 1 .. Len(h) : i - p <= m => i \in p .. p + m
  <2>1. p \in Nat /\ m \in Nat /\ Len(h) \in Nat
    BY <1>1, <1>4
  <2> QED BY ONLY <2>1
<1>17. \A i \in p .. p + m : i \in p .. n
  BY <1>1, <1>2, <1>4
<1>18. CASE m = 0
  <2> HIDE DEF n
  <2>1. {i \in p .. n : Tells(g, 0, g[i])} = {}
    BY <1>11, <1>12, <1>13, <1>14, <1>18
  <2> QED BY <1>18, <2>1 DEF g, m, n, A
<1>19. CASE m # 0
  <2>1. m > 0 /\ p \in p .. p + m
    BY <1>1, <1>4, <1>19
  <2> HIDE DEF n
  <2>2. {i \in p .. n : Tells(g, 0, g[i])} = p .. p + m
    BY <1>11, <1>12, <1>13, <1>14, <1>15, <1>16, <1>17, <2>1
  <2> QED BY <1>19, <2>2 DEF g, m, n, A
<1> QED BY <1>18, <1>19

\* The prompt and the shown tool entries of a stopped turn are a segment of h.
LEMMA ShownSegment ==
    ASSUME NEW h \in Seq(Entries), NEW p \in 1 .. Len(h), NEW m \in Nat, m <= Len(h) - p
    PROVE  <<h[p]>> \o SubSeq(SubSeq(h, p + 1, Len(h)), 1, m) = SubSeq(h, p, p + m)
<1> DEFINE A == SubSeq(h, p + 1, Len(h))
           B == SubSeq(A, 1, m)
           s == <<h[p]>> \o B
           r == SubSeq(h, p, p + m)
<1>1. p \in Nat /\ Len(h) \in Nat /\ p <= Len(h) /\ p >= 1
  OBVIOUS
<1>2. A \in Seq(Entries) /\ Len(A) = Len(h) - p /\ \A i \in 1 .. Len(A) : A[i] = h[p + i]
  BY <1>1
<1> HIDE DEF A
<1>3. B \in Seq(Entries) /\ Len(B) = m /\ \A i \in 1 .. m : B[i] = A[i] /\ i \in 1 .. Len(A)
  BY <1>1, <1>2
<1> HIDE DEF B
<1>4. s \in Seq(Entries) /\ Len(s) = m + 1 /\ s[1] = h[p] /\ \A i \in 2 .. m + 1 : s[i] = B[i - 1] /\ i - 1 \in 1 .. m
  BY <1>1, <1>3
<1>5. r \in Seq(Entries) /\ Len(r) = m + 1 /\ \A i \in 1 .. m + 1 : r[i] = h[p + i - 1]
  BY <1>1
<1> HIDE DEF s, r
<1>6. ASSUME NEW i \in 1 .. m + 1 PROVE s[i] = r[i]
  <2>1. CASE i = 1
    BY <1>1, <1>4, <1>5, <2>1
  <2>2. CASE i \in 2 .. m + 1
    <3>1. s[i] = h[p + (i - 1)] /\ p + (i - 1) = p + i - 1
      BY <1>1, <1>2, <1>3, <1>4, <2>2
    <3> QED BY <1>5, <3>1
  <2> QED BY <2>1, <2>2
<1>7. s = r
  BY <1>4, <1>5, <1>6, SeqEqual
<1> QED BY <1>7 DEF s, r, B, A

\* A turn that failed or was interrupted is shown as its prompt and its answered
\* calls, and not at all if it has none.
LEMMA StoppedTells ==
    ASSUME NEW h \in Seq(Entries), NEW e \in Entries, Grammar(h), Story(h),
           h # <<>>, h[Len(h)].kind \in InTurnKinds, h[Len(h)].turn = e.turn,
           e.turn # 0, e.kind \in {"failed", "interrupted"}
    PROVE  Story(Append(h, e))
<1> DEFINE g == Append(h, e)
           n == Len(h) + 1
<1>1. PICK p \in 1 .. Len(h) : OpenFrom(h, p) /\ Told(h).pending = <<h[p]>>
                               /\ Told(h).after = SubSeq(h, p + 1, Len(h))
  BY DEF Story
<1> DEFINE A == SubSeq(h, p + 1, Len(h))
           m == Reached(A, Len(A))
           items == IF m = 0 THEN <<>> ELSE SubSeq(h, p, p + m)
           K == IF m = 0 THEN {} ELSE p .. p + m
<1> HIDE DEF g
<1>2. /\ Len(h) \in Nat /\ Len(g) = n /\ g \in Seq(Entries) /\ p \in Nat /\ p < n /\ p >= 1
      /\ g[n] = e /\ \A i \in 1 .. Len(h) : g[i] = h[i]
  BY Appended DEF g
<1>3. h[p].turn = e.turn
  <2>1. p = Len(h) \/ Len(h) \in p + 1 .. Len(h)
    BY <1>2
  <2> QED BY <1>1, <2>1 DEF OpenFrom
<1>4. /\ e.kind \in TerminalKinds /\ ~IsSummary(e) /\ e.kind \in Terminals /\ e.kind # "user_prompt"
      /\ e.kind \notin {"completed", "incomplete"}
  BY DEF TerminalKinds, IsSummary, Terminals
<1>5. A \in Seq(Entries) /\ Len(A) = Len(h) - p /\ Told(h).after = A
  BY <1>1, <1>2
<1>6. Serial(A)
  BY <1>1, OpenIsSerial
<1>7. Told(g) = [items |-> Told(h).items \o TurnItems(h[p], Append(A, e)),
                 pending |-> <<>>, after |-> <<>>]
  <2>1. IsState(Told(h)) /\ Told(g) = Project(Told(h), e)
    BY <1>4, ToldIsState, ToldAppend DEF g
  <2>2. Told(h).pending # <<>> /\ Told(h).pending[1] = h[p]
    BY <1>1
  <2> HIDE DEF A
  <2> QED BY <1>4, <1>5, <2>1, <2>2 DEF Project, IsSummary
<1>8. m \in Nat /\ m <= Len(A)
  <2> HIDE DEF A
  <2> QED BY <1>5, <1>6, ReachedFacts
<1>9. PairedTools(A) = SubSeq(A, 1, m)
  <2> HIDE DEF A
  <2> QED BY <1>5, <1>6, SerialIsShown
<1>10. TurnItems(h[p], Append(A, e)) = items
  <2>1. <<h[p]>> \o SubSeq(A, 1, m) = SubSeq(h, p, p + m)
    <3>1. m <= Len(h) - p
      BY <1>5, <1>8
    <3> HIDE DEF m
    <3> QED BY <1>8, <3>1, ShownSegment
  <2> HIDE DEF A, m
  <2>2. Front(Append(A, e)) = A /\ Last(Append(A, e)) = e
    BY <1>5 DEF Front, Last
  <2>3. SubSeq(A, 1, m) = <<>> <=> m = 0
    BY <1>5, <1>8
  <2> QED BY <1>4, <1>9, <2>1, <2>2, <2>3 DEF TurnItems
<1>11. /\ Shown(g) = Shown(h) \union {i \in p .. n : Tells(g, 0, g[i])}
       /\ \A i \in Shown(h) : i < p /\ i \in 1 .. Len(h)
  BY <1>1, <1>3, <1>4, TerminalShows DEF g
<1>12. {i \in p .. n : Tells(g, 0, g[i])} = K
  BY <1>1, <1>3, StoppedPositions DEF g
<1> HIDE DEF A, m
<1>13. Lists(items, g, K) /\ items \in Seq(Entries)
  <2>1. CASE m = 0
    <3>1. K = {} /\ items = <<>>
      BY <2>1
    <3> HIDE DEF K, items
    <3> QED BY <3>1 DEF Lists
  <2>2. CASE m # 0
    <3>1. p + m \in Nat /\ p + m <= Len(h) /\ p <= p + m + 1
      BY <1>2, <1>5, <1>8
    <3>2. Lists(SubSeq(h, p, p + m), h, p .. p + m) /\ SubSeq(h, p, p + m) \in Seq(Entries)
      <4>1. SubSeq(h, p, p + m) \in Seq(Entries)
        BY <1>2, <3>1
      <4> QED BY <1>2, <3>1, <4>1, ListsSegment
    <3>3. \A a \in p .. p + m : g[a] = h[a]
      <4>1. p \in Nat /\ p >= 1 /\ Len(h) \in Nat /\ p + m \in Nat /\ p + m <= Len(h)
        BY <1>2, <3>1
      <4>2. \A a \in p .. p + m : a \in 1 .. Len(h)
        BY ONLY <4>1
      <4> QED BY <1>2, <4>2
    <3>4. Lists(SubSeq(h, p, p + m), g, p .. p + m)
      BY <3>2, <3>3, ListsSame
    <3> QED BY <2>2, <3>2, <3>4
  <2> QED BY <2>1, <2>2
<1>14. Lists(Told(h).items, g, Shown(h)) /\ Told(h).items \in Seq(Entries)
  <2>1. \A a \in Shown(h) : g[a] = h[a]
    BY <1>2, <1>11
  <2> QED BY <2>1, ListsSame DEF Story
<1>15. \A a \in Shown(h), b \in K : a < b
  <2>1. \A b \in K : b \in p .. n
    BY <1>12
  <2> HIDE DEF K
  <2> QED BY <1>2, <1>11, <2>1
<1> HIDE DEF K, items
<1>16. Lists(Told(h).items \o items, g, Shown(h) \union K) /\ Told(h).items \o items \in Seq(Entries)
  BY <1>13, <1>14, <1>15, ListsTogether
<1>17. Told(g).items = Told(h).items \o items
  BY <1>7, <1>10
<1>18. g[Len(g)].kind \notin InTurnKinds
  BY <1>2, <1>4 DEF TerminalKinds, InTurnKinds
<1>19. Shown(g) = Shown(h) \union K
  BY <1>11, <1>12
<1>20. Lists(Told(g).items, g, Shown(g)) /\ Told(g).items \in Seq(Entries)
  BY ONLY <1>16, <1>17, <1>19
<1> QED BY <1>18, <1>20 DEF Story, g

-----------------------------------------------------------------------------
(* Every history written this way is told.                                 *)

LEMMA GrammarTells ==
    ASSUME NEW h \in Seq(Entries), Grammar(h)
    PROVE  Story(h)
<1> DEFINE S == {n \in Nat : \A g \in Seq(Entries) : Len(g) = n /\ Grammar(g) => Story(g)}
<1>1. 0 \in S
  <2> SUFFICES ASSUME NEW g \in Seq(Entries), Len(g) = 0 PROVE Story(g)
    OBVIOUS
  <2>1. g = <<>>
    OBVIOUS
  <2>2. Told(g) = Nowhere
    BY <2>1, ToldNothing
  <2>3. Told(g).items = <<>>
    BY <2>2 DEF Nowhere
  <2>4. Shown(g) = {}
    <3>1. \A i \in 1 .. Len(g) : FALSE
      OBVIOUS
    <3> QED BY <3>1 DEF Shown, SinceSummary
  <2>5. Lists(Told(g).items, g, Shown(g))
    BY <2>3, <2>4 DEF Lists
  <2>6. Told(g).items \in Seq(Entries)
    BY <2>3
  <2> QED BY <2>1, <2>5, <2>6 DEF Story
<1>2. ASSUME NEW n \in Nat, n \in S PROVE n + 1 \in S
  <2> SUFFICES ASSUME NEW g \in Seq(Entries), Len(g) = n + 1, Grammar(g) PROVE Story(g)
    OBVIOUS
  <2> DEFINE f == SubSeq(g, 1, n)
             e == g[n + 1]
  <2>1. /\ f \in Seq(Entries) /\ Len(f) = n /\ e \in Entries /\ g = Append(f, e)
        /\ \A i \in 1 .. n : g[i] = f[i] /\ f[i] \in Entries
    OBVIOUS
  <2> HIDE DEF f
  <2>2. Grammar(f) /\ Follows(g, n + 1)
    <3>1. n + 1 \in 1 .. Len(g) /\ Len(f) <= Len(g)
      BY <2>1
    <3>2. Grammar(f)
      BY <2>1, <3>1, PrefixOfGrammar
    <3> QED BY <3>1, <3>2 DEF Grammar
  <2>3. Story(f)
    BY <1>2, <2>1, <2>2
  <2>4. CASE e = Summary
    <3>1. IsSummary(e)
      BY <2>4 DEF IsSummary, Summary, Entry
    <3> QED BY <2>1, <3>1, SummaryTells
  <2>5. CASE /\ e = PromptOf(e.turn) /\ e.turn # 0
             /\ \A i \in 1 .. n : g[i].turn < e.turn
    <3> HIDE DEF e
    <3>1. \A i \in 1 .. Len(f) : f[i].turn < e.turn
      BY <2>1, <2>5
    <3>2. Story(Append(f, e))
      BY <2>1, <2>2, <2>3, <2>5, <3>1, PromptTells
    <3> QED BY <2>1, <3>2
  <2>6. CASE /\ n + 1 > 1 /\ e.turn # 0 /\ g[n].turn = e.turn
             /\ \/ e.kind \in ToolKinds /\ g[n].kind \in InTurnKinds
                \/ e.kind \in TerminalKinds /\ g[n].kind \in InTurnKinds
    <3>1. n \in 1 .. n /\ f # <<>> /\ f[Len(f)] = g[n]
      BY <2>1, <2>6
    <3> HIDE DEF e
    <3>2. f[Len(f)].kind \in InTurnKinds /\ f[Len(f)].turn = e.turn
      BY <2>6, <3>1
    <3>3. CASE e.kind \in ToolKinds
      BY <2>1, <2>2, <2>3, <2>6, <3>1, <3>2, <3>3, ToolTells
    <3>4. CASE e.kind \in FinishedKinds
      BY <2>1, <2>2, <2>3, <2>6, <3>1, <3>2, <3>4, FinishedTells
    <3>5. CASE e.kind \in {"failed", "interrupted"}
      BY <2>1, <2>2, <2>3, <2>6, <3>1, <3>2, <3>5, StoppedTells
    <3> QED BY <2>6, <3>3, <3>4, <3>5 DEF TerminalKinds, FinishedKinds
  <2>7. n + 1 - 1 = n /\ Entry(e.turn, "tool_call", e.call).kind = "tool_call"
    BY DEF Entry
  <2> QED BY <2>2, <2>4, <2>5, <2>6, <2>7 DEF Follows, ToolKinds, InTurnKinds
<1> HIDE DEF S
<1>3. Len(h) \in S
  BY <1>1, <1>2, AllNaturals
<1> QED BY <1>3 DEF S

\* The request that a prompt at the end of the history is sent with.
LEMMA RequestTells ==
    ASSUME NEW h \in Seq(Entries), Grammar(h), NEW t, t # 0, h # <<>>, h[Len(h)] = PromptOf(t)
    PROVE  Lists(ModelContextItems(h), h, {i \in SinceSummary(h) : Tells(h, t, h[i])})
<1> DEFINE n == Len(h)
           K == {i \in SinceSummary(h) : Tells(h, t, h[i])}
<1>1. n \in Nat /\ n \in 1 .. n /\ \A i \in 1 .. n : h[i] \in Entries
  BY ElementsAreEntries
<1>2. Story(h)
  BY GrammarTells
<1>3. h[n].kind = "user_prompt" /\ h[n].turn = t
  BY DEF PromptOf, Entry
<1>4. PICK p \in 1 .. n : OpenFrom(h, p) /\ Told(h).pending = <<h[p]>> /\ Told(h).after = SubSeq(h, p + 1, n)
  BY <1>2, <1>3 DEF Story, InTurnKinds
<1>5. p = n
  <2>1. p # n => n \in p + 1 .. n
    BY <1>1
  <2> QED BY <1>3, <1>4, <2>1 DEF OpenFrom, ToolKinds
<1>6. ModelContextItems(h) = Told(h).items \o <<h[n]>>
  <2>1. SubSeq(h, n + 1, n) = <<>>
    BY <1>1
  <2>2. Told(h).after = <<>> /\ Told(h).pending = <<h[n]>>
    BY <1>4, <1>5, <2>1
  <2> QED BY <2>2, RequestIsTold
<1> HIDE DEF n
<1>7. \A i \in 1 .. n : i = n \/ (i \in 1 .. n - 1 /\ h[i].turn < t)
  BY <1>1, <1>3, <1>4, <1>5 DEF OpenFrom
<1>8. t \in Nat
  BY <1>1, <1>3 DEF Entries, Turns
<1>9. ASSUME NEW i \in 1 .. n, i # n PROVE Tells(h, t, h[i]) <=> Tells(h, 0, h[i])
  <2>1. h[i].turn # t
    BY <1>7, <1>8, <1>9
  <2>2. h[i].turn = 0 => h[i].kind = "compaction_summary"
    BY OfTurnOrSummary DEF n
  <2> QED BY <2>1, <2>2 DEF Tells
<1>10. SinceSummary(h) \subseteq 1 .. n /\ n \in SinceSummary(h)
  <2>1. \A j \in n + 1 .. n : FALSE
    BY <1>1
  <2> QED BY <1>1, <2>1 DEF SinceSummary, n
<1>11. Tells(h, t, h[n])
  BY <1>3 DEF Tells
<1>12. K = Shown(h) \union {n}
  BY <1>9, <1>10, <1>11 DEF Shown
<1>13. n \notin Shown(h)
  <2>1. ~HasEntry(h, t, TerminalKinds)
    <3> SUFFICES ASSUME NEW i \in 1 .. Len(h), h[i].turn = t, h[i].kind \in TerminalKinds PROVE FALSE
      BY DEF HasEntry
    <3>1. i = n
      BY <1>7, <1>8 DEF n
    <3> QED BY <1>3, <3>1 DEF TerminalKinds
  <2> QED BY <1>1, <1>3, <2>1, OpenIsUntold DEF Shown
<1>14. \A a \in Shown(h), b \in {n} : a < b
  <2>1. \A a \in Shown(h) : a \in 1 .. n /\ a # n
    BY <1>10, <1>13 DEF Shown
  <2> QED BY <1>1, <2>1
<1>15. Lists(<<h[n]>>, h, {n})
  BY DEF Lists
<1>16. /\ <<h[n]>> \in Seq(Entries) /\ Told(h).items \in Seq(Entries)
       /\ Lists(Told(h).items, h, Shown(h))
  BY <1>1, <1>2 DEF Story
<1>17. Lists(Told(h).items \o <<h[n]>>, h, Shown(h) \union {n})
  BY <1>14, <1>15, <1>16, ListsTogether
<1> QED BY <1>6, <1>12, <1>17

-----------------------------------------------------------------------------
(* What the engine records is written this way.                            *)

LEMMA FieldsOfEntry ==
    \A t, k, c : /\ Entry(t, k, c).turn = t /\ Entry(t, k, c).kind = k /\ Entry(t, k, c).call = c
BY DEF Entry

LEMMA SummaryGoesOn ==
    ASSUME NEW h \in Seq(Entries), Grammar(h)
    PROVE  Grammar(Append(h, Summary))
<1>1. Append(h, Summary)[Len(h) + 1] = Summary
  BY Appended, SummaryIsEntry
<1>2. Follows(Append(h, Summary), Len(h) + 1)
  BY <1>1 DEF Follows
<1> QED BY <1>2, SummaryIsEntry, GrammarGoesOn

LEMMA PromptGoesOn ==
    ASSUME turn \in Turns, NEW h \in Seq(Entries), Grammar(h), Before(h, turn)
    PROVE  Grammar(Append(h, Recorded("user_prompt")))
<1> DEFINE e == Recorded("user_prompt")
           g == Append(h, e)
<1>1. e \in Entries /\ e = PromptOf(e.turn) /\ e.turn = turn /\ turn # 0
  BY EntryFields, FieldsOfEntry DEF Recorded, PromptOf, EntryKinds, Turns
<1> HIDE DEF e
<1>2. /\ Len(h) \in Nat /\ g[Len(h) + 1] = e
      /\ \A i \in 1 .. Len(h) : g[i] = h[i]
  BY <1>1, Appended
<1> HIDE DEF g
<1>3. \A i \in 1 .. (Len(h) + 1) - 1 : g[i].turn < g[Len(h) + 1].turn
  BY <1>1, <1>2 DEF Before
<1>4. Follows(g, Len(h) + 1)
  BY <1>1, <1>2, <1>3 DEF Follows
<1> QED BY <1>1, <1>4, GrammarGoesOn DEF g, e

\* The last entry is one of the running turn, which is open.
OpenEnd(h, kinds) == h # <<>> /\ h[Len(h)].turn = turn /\ h[Len(h)].kind \in kinds

LEMMA OpenGoesOn ==
    ASSUME turn \in Turns, NEW h \in Seq(Entries), Grammar(h), NEW k \in TerminalKinds \union ToolKinds,
           NEW c \in Calls \union {NoCall},
           \/ k \in TerminalKinds /\ OpenEnd(h, InTurnKinds)
           \/ k = "tool_call" /\ OpenEnd(h, {"user_prompt", "tool_result"}) /\ Unnamed(c, h)
           \/ k = "tool_result" /\ h # <<>> /\ h[Len(h)] = CallEntry("tool_call", c)
    PROVE  Grammar(Append(h, CallEntry(k, c)))
<1> DEFINE e == CallEntry(k, c)
           g == Append(h, e)
           n == Len(h) + 1
<1>1. e \in Entries /\ e.turn = turn /\ e.kind = k /\ e.call = c /\ turn # 0
  BY FieldsOfEntry DEF CallEntry, Entry, Entries, EntryKinds, ToolKinds, Turns
<1> HIDE DEF e
<1>2. /\ Len(h) \in Nat /\ g[n] = e /\ \A i \in 1 .. Len(h) : g[i] = h[i]
  BY <1>1, Appended
<1> HIDE DEF g
<1>3. h # <<>> /\ h[Len(h)].turn = turn
  BY FieldsOfEntry DEF OpenEnd, CallEntry
<1>4. n > 1 /\ n - 1 = Len(h) /\ Len(h) \in 1 .. Len(h)
  BY <1>2, <1>3
<1>5. g[n - 1] = h[Len(h)] /\ \A i \in 1 .. n - 1 : g[i] = h[i]
  BY <1>2, <1>4
<1>6. k = "tool_call" => \A i \in 1 .. n - 1 : h[i].call # c
  BY <1>4 DEF Unnamed, TerminalKinds
<1>7. CallEntry("tool_call", c) = Entry(turn, "tool_call", c)
  BY DEF CallEntry
<1> HIDE DEF n
<1>8. Follows(g, n)
  <2>1. CASE k \in TerminalKinds /\ OpenEnd(h, InTurnKinds)
    BY <1>1, <1>2, <1>3, <1>4, <1>5, <2>1 DEF Follows, OpenEnd
  <2>2. CASE k = "tool_call" /\ OpenEnd(h, {"user_prompt", "tool_result"}) /\ Unnamed(c, h)
    BY <1>1, <1>2, <1>3, <1>4, <1>5, <1>6, <2>2 DEF Follows, OpenEnd
  <2>3. CASE k = "tool_result" /\ h[Len(h)] = CallEntry("tool_call", c)
    BY <1>1, <1>2, <1>3, <1>4, <1>5, <1>7, <2>3 DEF Follows
  <2> QED BY <2>1, <2>2, <2>3
<1> QED BY <1>1, <1>8, GrammarGoesOn DEF g, e, n

LEMMA OpenEnds ==
    ASSUME turn \in Turns, NEW g, NEW h, Open(g, h)
    PROVE  OpenEnd(h, InTurnKinds)
<1>1. /\ Len(g) \in Nat /\ Len(h) \in Nat /\ Len(h) > Len(g) /\ h \in Seq(Entries)
  BY DEF Open, OpenIn
<1>2. h # <<>> /\ Len(h) \in Len(g) + 1 .. Len(h)
  BY <1>1
<1>3. h[Len(h)].turn = turn
  BY <1>2 DEF Open, AddsToTurn
<1>4. Len(h) \in 1 .. Len(h)
  BY <1>1
<1>5. h[Len(h)].kind \in InTurnKinds
  BY <1>3, <1>4, OpenFacts DEF InTurnKinds, ToolKinds
<1> QED BY <1>2, <1>3, <1>5 DEF OpenEnd

LEMMA AnsweredEnds ==
    ASSUME turn \in Turns, NEW g, NEW h, Open(g, h), Grammar(h), AllAnswered(h, turn, {})
    PROVE  OpenEnd(h, {"user_prompt", "tool_result"})
<1> DEFINE n == Len(h)
<1>1. OpenEnd(h, InTurnKinds) /\ h \in Seq(Entries)
  BY OpenEnds DEF Open
<1>2. n \in Nat /\ n \in 1 .. n
  BY <1>1 DEF OpenEnd
<1>3. h[n].kind # "tool_call"
  <2> SUFFICES ASSUME h[n].kind = "tool_call" PROVE FALSE
    OBVIOUS
  <2>1. PICK j \in 1 .. n : h[j] = Entry(turn, "tool_result", h[n].call)
    BY <1>1, <1>2 DEF AllAnswered, OpenEnd
  <2>2. h[j].kind = "tool_result" /\ h[j].call = h[n].call
    BY <2>1, FieldsOfEntry
  <2>3. j \in 1 .. n - 1
    BY <1>2, <2>2
  <2>4. Follows(h, n)
    BY <1>2 DEF Grammar
  <2>5. h[n] # Summary /\ h[n] # PromptOf(h[n].turn)
    BY FieldsOfEntry DEF Summary, PromptOf
  <2>6. \A i \in 1 .. n - 1 : h[i].call # h[n].call
    BY <2>4, <2>5 DEF Follows, TerminalKinds
  <2> QED BY <2>2, <2>3, <2>6
<1> QED BY <1>1, <1>3 DEF OpenEnd, InTurnKinds

LEMMA CallEnds ==
    ASSUME turn \in Turns, NEW g, NEW h, Open(g, h), Grammar(h), NEW c, Unanswered(h, c)
    PROVE  h # <<>> /\ h[Len(h)] = CallEntry("tool_call", c)
<1> DEFINE n == Len(h)
<1>1. OpenEnd(h, InTurnKinds) /\ h \in Seq(Entries) /\ n \in Nat /\ Len(g) \in Nat
  BY OpenEnds DEF Open
<1>2. PICK i \in 1 .. n : h[i] = CallEntry("tool_call", c)
  BY DEF Unanswered
<1>3. h[i].turn = turn /\ h[i].kind = "tool_call" /\ h[i].call = c
  BY <1>2, FieldsOfEntry DEF CallEntry
<1>4. CASE i # n
  <2>1. ~(i \in 1 .. Len(g))
    <3> SUFFICES ASSUME i \in 1 .. Len(g) PROVE FALSE
      OBVIOUS
    <3>1. g[i].turn < turn /\ g[i] = h[i]
      BY DEF Open, Before, AddsToTurn
    <3> QED BY <1>3, <3>1 DEF Turns
  <2>2. /\ i + 1 \in 1 .. n /\ i + 1 \in Len(g) + 2 .. n /\ (i + 1) - 1 = i /\ i + 1 > 1
    BY <1>1, <1>4, <2>1
  <2> DEFINE m == i + 1
  <2>3. h[m].kind \in ToolKinds /\ Follows(h, m)
    BY <2>2 DEF Open, OpenIn, Grammar
  <2>4. h[m].kind = "tool_result" => h[m].call # c
    BY <2>2 DEF Unanswered
  <2> HIDE DEF m
  <2>5. m - 1 = i
    BY <2>2 DEF m
  <2>6. h[m] # Summary /\ h[m] # PromptOf(h[m].turn) /\ h[m].kind \notin TerminalKinds
    BY <2>3, FieldsOfEntry DEF Summary, PromptOf, ToolKinds, TerminalKinds
  <2>7. h[m].kind = "tool_result" /\ h[i] = Entry(h[m].turn, "tool_call", h[m].call)
    BY <1>3, <2>3, <2>5, <2>6 DEF Follows, ToolKinds
  <2> QED BY <1>3, <2>4, <2>7, FieldsOfEntry
<1> QED BY <1>1, <1>2, <1>4 DEF OpenEnd

-----------------------------------------------------------------------------
(* Every step goes on with the history this way.                           *)

\* The turn's prompt, and the entry it ends with.
LEMMA CloseUnopenedGoesOn ==
    ASSUME turn \in Turns, promptRecorded = FALSE, terminalRecorded = FALSE,
           NEW h \in Seq(Entries), Grammar(h), Before(h, turn),
           NEW k \in {"failed", "interrupted"}, Close(h, k), WellFormed(h)
    PROVE  Grammar(history')
<1> DEFINE opened == Append(h, Recorded("user_prompt"))
<1>1. history' = Append(opened, CallEntry(k, NoCall))
  BY DEF Close, CallEntry, Recorded
<1>2. Grammar(opened) /\ Open(h, opened)
  BY PromptGoesOn, PromptOpens
<1> HIDE DEF opened
<1>3. OpenEnd(opened, InTurnKinds) /\ opened \in Seq(Entries) /\ k \in TerminalKinds
  BY <1>2, OpenEnds DEF Open, TerminalKinds
<1>4. Grammar(Append(opened, CallEntry(k, NoCall)))
  BY <1>2, <1>3, OpenGoesOn
<1> QED BY <1>1, <1>4

LEMMA TerminalGoesOn ==
    ASSUME TypeInv, StageInv, SnapshotInv, Grammar(history), pc \in OpenPoints, NEW k \in TerminalKinds
    PROVE  Grammar(Append(history, Recorded(k)))
<1>1. turn \in Turns /\ Open(snapshot, history)
  BY OpenNow
<1>2. OpenEnd(history, InTurnKinds) /\ history \in Seq(Entries)
  BY <1>1, OpenEnds DEF Open
<1>3. Recorded(k) = CallEntry(k, NoCall)
  BY DEF Recorded, CallEntry
<1>4. Grammar(Append(history, CallEntry(k, NoCall)))
  BY <1>1, <1>2, OpenGoesOn
<1> QED BY <1>3, <1>4

LEMMA ThrowGoesOn ==
    ASSUME TypeInv, StageInv, SnapshotInv, Grammar(history), pc \in OpenPoints \union {"aPrompt"},
           NEW e, Throw(e)
    PROVE  Grammar(history')
<1>1. CASE e = "overflow" /\ CanRecover
  <2>1. history' = snapshot
    BY <1>1 DEF Throw, Recover, RecoverFrom
  <2>2. AddsToTurn(snapshot, history) /\ history \in Seq(Entries) /\ snapshot \in Seq(Entries)
    BY DEF SnapshotInv, OpenPoints, BatchPoints, TypeInv, TypeOK
  <2>3. Len(snapshot) <= Len(history) /\ \A i \in 1 .. Len(snapshot) : history[i] = snapshot[i]
    BY <2>2 DEF AddsToTurn
  <2>4. Grammar(snapshot)
    BY <2>2, <2>3, PrefixOfGrammar
  <2> QED BY <2>1, <2>4
<1>2. CASE ~(e = "overflow" /\ CanRecover)
  <2>1. PICK k \in {"failed", "interrupted"} : Close(history, k)
    BY <1>2 DEF Throw
  <2>2. CASE pc \in OpenPoints
    <3>1. promptRecorded /\ ~terminalRecorded
      BY <2>2, OpenNow
    <3>2. history' = Append(history, Recorded(k))
      BY <2>1, <3>1 DEF Close
    <3>3. Grammar(Append(history, Recorded(k)))
      BY <2>2, TerminalGoesOn DEF TerminalKinds
    <3> QED BY <3>2, <3>3
  <2>3. CASE pc = "aPrompt"
    <3>1. pc \in BeforePrompt
      BY <2>3 DEF BeforePrompt
    <3> QED BY <2>1, <3>1, NotYetOpen, CloseUnopenedGoesOn
  <2> QED BY <2>2, <2>3
<1> QED BY <1>1, <1>2

LEMMA StartCallGoesOn ==
    ASSUME TypeInv, StageInv, SnapshotInv, Grammar(history), pc \in OpenPoints,
           AllAnswered(history, turn, {}), NEW b \in Seq(Calls), b # <<>>, StartCall(b),
           Unnamed(b[1], history)
    PROVE  Grammar(history')
<1> DEFINE c == b[1]
           called == Append(history, CallEntry("tool_call", c))
           answered == Append(called, CallEntry("tool_result", c))
<1>1. turn \in Turns /\ Open(snapshot, history) /\ history \in Seq(Entries)
  BY OpenNow DEF Open
<1>2. c \in Calls /\ Head(b) = c
  OBVIOUS
<1>3. history' = called \/ history' = answered
  BY <1>2 DEF StartCall
<1> HIDE DEF c
<1>4. OpenEnd(history, {"user_prompt", "tool_result"})
  BY <1>1, AnsweredEnds
<1>5. Grammar(called)
  BY <1>1, <1>2, <1>4, OpenGoesOn DEF ToolKinds, c
<1>6. /\ called \in Seq(Entries) /\ called # <<>> /\ called[Len(called)] = CallEntry("tool_call", c)
  <2>1. CallEntry("tool_call", c) \in Entries
    BY <1>1, <1>2 DEF CallEntry, Entry, Entries, EntryKinds
  <2>2. /\ called \in Seq(Entries) /\ Len(history) \in Nat /\ Len(called) = Len(history) + 1
        /\ called[Len(history) + 1] = CallEntry("tool_call", c)
    BY <1>1, <2>1, Appended
  <2> HIDE DEF called
  <2> QED BY <2>2
<1> HIDE DEF called
<1>7. Grammar(answered)
  BY <1>1, <1>2, <1>5, <1>6, OpenGoesOn DEF ToolKinds
<1> QED BY <1>3, <1>5, <1>7

LEMMA ResultGoesOn ==
    ASSUME TypeInv, StageInv, SnapshotInv, CallsInv, Grammar(history), pc \in Executing,
           history' = Append(history, CallEntry("tool_result", Head(batch)))
    PROVE  Grammar(history')
<1> DEFINE c == Head(batch)
<1>1. pc \in OpenPoints /\ pc \in BatchPoints
  BY DEF Executing, OpenPoints, BatchPoints
<1>2. turn \in Turns /\ Open(snapshot, history) /\ history \in Seq(Entries)
  BY <1>1, OpenNow DEF Open
<1>3. c \in Calls
  BY <1>1 DEF TypeInv, TypeOK, Shape
<1>4. Unanswered(history, c)
  BY DEF CallsInv
<1> HIDE DEF c
<1>5. history # <<>> /\ history[Len(history)] = CallEntry("tool_call", c)
  BY <1>2, <1>4, CallEnds
<1>6. Grammar(Append(history, CallEntry("tool_result", c)))
  BY <1>2, <1>3, <1>5, OpenGoesOn DEF ToolKinds
<1> QED BY <1>6 DEF c

LEMMA BeginGoesOn ==
    ASSUME TypeInv, StageInv, pc \in BeforePrompt, NEW h \in Seq(Entries),
           Grammar(h), WellFormed(h), Before(h, turn), BeginAttempt(h)
    PROVE  Grammar(history')
<1>1. CASE interrupted
  BY <1>1, NotYetOpen, CloseUnopenedGoesOn DEF BeginAttempt
<1>2. CASE ~interrupted
  BY <1>2 DEF BeginAttempt
<1> QED BY <1>1, <1>2

LEMMA EndGoesOn ==
    ASSUME TypeInv, StageInv, SnapshotInv, Grammar(history), pc \in OpenPoints, EndBeforeCompletion
    PROVE  Grammar(history')
<1>1. history' = history \/ history' = Append(history, Recorded("failed"))
  BY DEF EndBeforeCompletion
<1>2. Grammar(Append(history, Recorded("failed")))
  BY TerminalGoesOn DEF TerminalKinds
<1> QED BY <1>1, <1>2

LEMMA ExecuteGoesOn ==
    ASSUME TypeInv, StageInv, SnapshotInv, CallsInv, Grammar(history), pc = "aBatch" \/ pc = "yFlush",
           StartCall(batch) \/ UNCHANGED session
    PROVE  Grammar(history')
<1>1. CASE StartCall(batch)
  <2>1. pc \in OpenPoints /\ pc \in BatchPoints /\ pc \in Collecting /\ pc \notin Executing
    BY DEF OpenPoints, BatchPoints, Collecting, Executing
  <2>2. batch \in Seq(Calls) /\ batch # <<>>
    BY <2>1 DEF TypeInv, TypeOK, Shape
  <2>3. Unnamed(batch[1], history) /\ AllAnswered(history, turn, {})
    <3>1. 1 \in 1 .. Len(batch)
      BY <2>2
    <3> QED BY <2>1, <3>1 DEF CallsInv
  <2> QED BY <1>1, <2>1, <2>2, <2>3, StartCallGoesOn
<1>2. CASE UNCHANGED session
  BY <1>2 DEF session
<1> QED BY <1>1, <1>2

LEMMA SubmitGoesOn ==
    ASSUME TypeInv, StageInv, SnapshotInv, CallsInv, Grammar(history), SubmitDone
    PROVE  Grammar(history')
<1>1. pc \in OpenPoints \ Executing /\ pc \in BatchPoints
  BY DEF SubmitDone, OpenPoints, BatchPoints, Executing
<1>2. CASE Tail(batch) # <<>>
  <2> DEFINE b == Tail(batch)
  <2>1. batch \in Seq(Calls) /\ batch # <<>>
    BY <1>1 DEF TypeInv, TypeOK, Shape
  <2>2. b \in Seq(Calls) /\ b # <<>> /\ b[1] = batch[2] /\ 2 \in 2 .. Len(batch)
    BY <1>2, <2>1
  <2>3. StartCall(b)
    BY <1>2 DEF SubmitDone
  <2> HIDE DEF b
  <2>4. Unnamed(b[1], history) /\ AllAnswered(history, turn, {})
    BY <1>1, <2>2 DEF CallsInv
  <2> QED BY <1>1, <2>2, <2>3, <2>4, StartCallGoesOn
<1>3. CASE AfterBatch
  BY <1>1, <1>3, EndGoesOn DEF AfterBatch, session
<1> QED BY <1>2, <1>3 DEF SubmitDone

LEMMA TurnGoesOn ==
    ASSUME TypeInv, StageInv, SnapshotInv, CallsInv, Grammar(history), TurnStep
    PROVE  Grammar(history')
<1> USE DEF session
<1>a. ASSUME NEW e, Throw(e), pc \in OpenPoints \union {"aPrompt"} PROVE Grammar(history')
  BY <1>a, ThrowGoesOn
<1>b. ASSUME UNCHANGED history PROVE Grammar(history')
  BY <1>b
<1>1. CASE StreamStart \/ ReceiveEvents \/ ResumeEvents \/ ResumePendingPart \/ ResumeRequested
           \/ DecisionArrives \/ ResumeResult \/ ResumeClosing \/ ResumeTerminal
  BY <1>1, <1>b DEF StreamStart, ReceiveEvents, ResumeEvents, ResumePendingPart, ResumeRequested,
     DecisionArrives, ResumeResult, ResumeClosing, ResumeTerminal, Finish
<1>2. CASE ResumeStarted
  <2>1. pc \in BeforePrompt /\ BeginAttempt(history)
    BY <1>2 DEF ResumeStarted, BeforePrompt
  <2> QED BY <2>1, NotYetOpen, BeginGoesOn
<1>3. CASE PromptReady
  <2>1. CASE interrupted
    BY <1>3, <2>1, <1>a DEF PromptReady
  <2>2. CASE ~interrupted
    <3>1. pc \in BeforePrompt /\ history' = Append(history, Recorded("user_prompt"))
      BY <1>3, <2>2 DEF PromptReady, BeforePrompt
    <3> QED BY <3>1, NotYetOpen, PromptGoesOn
  <2> QED BY <2>1, <2>2
<1>4. CASE PromptFails
  BY <1>4, <1>a DEF PromptFails
<1>5. CASE ReceiveAfterInterrupt
  BY <1>5, <1>a DEF ReceiveAfterInterrupt, OpenPoints, BatchPoints
<1>6. CASE \E k \in {"completed", "incomplete"} : ReceiveTerminal(k)
  BY <1>6, <1>b DEF ReceiveTerminal
<1>7. CASE ProviderEnds
  BY <1>7, EndGoesOn DEF ProviderEnds, OpenPoints
<1>8. CASE \E e \in Errors : ProviderThrows(e)
  BY <1>8, <1>a DEF ProviderThrows, OpenPoints, BatchPoints
<1>9. CASE \E c \in Calls : ReceiveCall(c)
  BY <1>9, <1>b DEF ReceiveCall
<1>10. CASE WindowElapsed \/ \E k \in {"events", "completed", "incomplete", "end"} : ReadAhead(k)
  BY <1>10, ExecuteGoesOn DEF WindowElapsed, ReadAhead, ExecuteBatch
<1>11. CASE ResumeFlush
  BY <1>11, ExecuteGoesOn DEF ResumeFlush
<1>12. CASE ResumeCleared
  <2>1. pc = "yCleared"
    BY <1>12 DEF ResumeCleared, ActOnDecision
  <2>2. CASE Throw("other")
    BY <2>1, <2>2, <1>a DEF OpenPoints, BatchPoints
  <2>3. CASE history' = Append(history, CallEntry("tool_result", Head(batch)))
    BY <2>1, <2>3, ResultGoesOn DEF Executing
  <2>4. CASE UNCHANGED session
    BY <2>4, <1>b
  <2> QED BY <1>12, <2>2, <2>3, <2>4 DEF ResumeCleared, ActOnDecision
<1>13. CASE ResumeRunning
  BY <1>13, <1>a, <1>b DEF ResumeRunning, OpenPoints, BatchPoints
<1>14. CASE ToolReturns
  BY <1>14, <1>a, ResultGoesOn DEF ToolReturns, OpenPoints, BatchPoints, Executing
<1>15. CASE ToolThrows
  BY <1>15, <1>a DEF ToolThrows, OpenPoints, BatchPoints
<1>16. CASE SubmitDone
  BY <1>16, SubmitGoesOn
<1>17. CASE SubmitFails
  BY <1>17, <1>a DEF SubmitFails, OpenPoints, BatchPoints
<1>18. CASE RecoveryDone
  <2>1. pc \in BeforePrompt /\ BeginAttempt(Append(history, Summary)) /\ history # <<>>
    BY <1>18 DEF RecoveryDone, BeforePrompt, StageInv
  <2>2. turn \in Turns /\ history \in Seq(Entries) /\ WellFormed(history) /\ Before(history, turn)
    BY <2>1, NotYetOpen
  <2> DEFINE h == Append(history, Summary)
  <2>3. h \in Seq(Entries) /\ WellFormed(h) /\ Grammar(h)
    BY <2>1, <2>2, SummaryKeepsForm, SummaryIsEntry, SummaryGoesOn
  <2>4. Before(h, turn)
    <3>1. /\ Len(history) \in Nat /\ Len(h) = Len(history) + 1
          /\ h[Len(history) + 1] = Summary
          /\ \A i \in 1 .. Len(history) : h[i] = history[i]
      BY <2>2, Appended, SummaryIsEntry
    <3>2. Summary.turn < turn
      BY <2>2, FieldsOfEntry DEF Summary, Turns
    <3> HIDE DEF h
    <3> QED BY <2>2, <3>1, <3>2 DEF Before
  <2> QED BY <2>1, <2>3, <2>4, BeginGoesOn
<1>19. CASE RecoveryFails
  <2>1. PICK k \in {"failed", "interrupted"} : Close(history, k)
    BY <1>19 DEF RecoveryFails
  <2>2. pc \in BeforePrompt
    BY <1>19 DEF RecoveryFails, BeforePrompt
  <2> QED BY <2>1, <2>2, NotYetOpen, CloseUnopenedGoesOn
<1>20. CASE ResumeFinal
  <2>1. pc \in OpenPoints /\ closing \in TerminalKinds
    BY <1>20 DEF ResumeFinal, OpenPoints, StageInv, FinishedKinds, TerminalKinds
  <2>2. history' = history \/ history' = Append(history, Recorded(closing))
    BY <1>20 DEF ResumeFinal
  <2> QED BY <2>1, <2>2, TerminalGoesOn
<1> QED
  BY <1>1, <1>2, <1>3, <1>4, <1>5, <1>6, <1>7, <1>8, <1>9, <1>10, <1>11, <1>12, <1>13, <1>14, <1>15,
     <1>16, <1>17, <1>18, <1>19, <1>20
  DEF TurnStep, ProviderStops

LEMMA GrammarStep ==
    SessionInv /\ HistoryInv /\ Grammar(history) /\ [Next]_vars => Grammar(history')
<1> SUFFICES ASSUME SessionInv, HistoryInv, Grammar(history), [Next]_vars
             PROVE  Grammar(history')
  OBVIOUS
<1>1. TypeInv /\ SnapshotInv /\ StageInv /\ CallsInv /\ history \in Seq(Entries)
  BY DEF SessionInv, HistoryInv, TypeInv, TypeOK
<1>2. CASE TurnStep
  BY <1>1, <1>2, TurnGoesOn
<1>3. CASE CompactDone
  BY <1>1, <1>3, SummaryGoesOn DEF CompactDone
<1>4. CASE UNCHANGED history
  BY <1>4
<1>5. CASE StartTurn \/ Interrupt \/ UserDecides \/ Abandon \/ CompactStart \/ CompactFails \/ UNCHANGED vars
  BY <1>4, <1>5 DEF StartTurn, Interrupt, UserDecides, Decide, Abandon, Finish, CompactStart, CompactFails,
     vars, session
<1> QED BY <1>2, <1>3, <1>5 DEF Next, CompactorStep, Rest

LEMMA GrammarInvariant == Spec => [](TypeInv /\ StageInv /\ SnapshotInv /\ Grammar(history))
<1>1. Init => Grammar(history)
  BY DEF Init, Grammar
<1>2. SessionInv /\ HistoryInv /\ Grammar(history) /\ [Next]_vars => Grammar(history)'
  BY GrammarStep DEF Grammar, Follows, PromptOf
<1>3. SessionInv /\ HistoryInv => TypeInv /\ StageInv /\ SnapshotInv
  BY DEF SessionInv, HistoryInv
<1> QED BY <1>1, <1>2, <1>3, HistoryInvariant, PTL DEF Spec

\* Whatever recoveries, abandoned turns, interruptions and compactions a history
\* has behind it, the request its next turn opens with tells the conversation
\* since the latest summary, in order: projectConversationSessionEntriesToModelContextItems.
THEOREM RequestsTold == Spec => []RequestsTellTheStory
<1>1. TypeInv /\ StageInv /\ SnapshotInv /\ Grammar(history) => RequestsTellTheStory
  <2> SUFFICES ASSUME TypeInv, StageInv, SnapshotInv, Grammar(history), pc = "aProvider",
                      Last(history) = Recorded("user_prompt")
               PROVE  Lists(ModelContextItems(history), history,
                            {i \in SinceSummary(history) : Tells(history, turn, history[i])})
    BY DEF RequestsTellTheStory
  <2>1. turn \in Turns /\ Open(snapshot, history)
    BY OpenNow DEF OpenPoints
  <2>2. history # <<>> /\ history \in Seq(Entries) /\ turn # 0
    BY <2>1, OpenEnds DEF OpenEnd, Open, Turns
  <2>3. history[Len(history)] = PromptOf(turn)
    BY DEF Last, Recorded, PromptOf
  <2> QED BY <2>2, <2>3, RequestTells
<1> QED BY <1>1, GrammarInvariant, PTL
=============================================================================
