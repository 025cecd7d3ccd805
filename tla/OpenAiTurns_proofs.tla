-------------------------- MODULE OpenAiTurns_proofs --------------------------
(***************************************************************************)
(* Theorems about OpenAiTurns for any finite number of turns and any       *)
(* number of slots, steps, retries and calls.                              *)
(***************************************************************************)
EXTENDS OpenAiTurns, FiniteSetTheorems, TLAPS

USE MaxSlotsAssumption, TurnsAreFinite, TurnsAssumption, TextsAssumption

Places == Holding \cup {"building", "acquiring", "awaiting", "done"}

CoordinatorInv ==
    /\ CoordinatorTypeOK
    /\ pc \in [Turns -> Places]
    /\ SlotsAreCounted
    /\ NoSleeperIsForgotten

Holders == {t \in Turns : pc[t] \in Holding}

-----------------------------------------------------------------------------
(* Counting the turns that hold a slot.                                    *)

\* What becomes of the holders when the generator of a turn goes elsewhere.
LEMMA HoldersMove ==
    ASSUME pc \in [Turns -> Places], NEW t \in Turns, NEW n \in Places, pc' = [pc EXCEPT ![t] = n]
    PROVE  /\ pc' \in [Turns -> Places]
           /\ Cardinality(Holders) \in Nat
           /\ (n \in Holding <=> pc[t] \in Holding) => Cardinality(Holders') = Cardinality(Holders)
           /\ n \in Holding /\ pc[t] \notin Holding => Cardinality(Holders') = Cardinality(Holders) + 1
           /\ n \notin Holding /\ pc[t] \in Holding =>
                Cardinality(Holders') = Cardinality(Holders) - 1 /\ Cardinality(Holders) > 0
<1>1. IsFiniteSet(Holders) /\ Cardinality(Holders) \in Nat
  BY FS_Subset, FS_CardinalityType DEF Holders
<1>2. (n \in Holding <=> pc[t] \in Holding) => Holders' = Holders
  BY DEF Holders
<1>3. ASSUME n \in Holding, pc[t] \notin Holding
      PROVE  Cardinality(Holders') = Cardinality(Holders) + 1
  <2>1. t \notin Holders /\ Holders' = Holders \cup {t}
    BY <1>3 DEF Holders
  <2> QED BY <1>1, <2>1, FS_AddElement
<1>4. ASSUME n \notin Holding, pc[t] \in Holding
      PROVE  Cardinality(Holders') = Cardinality(Holders) - 1 /\ Cardinality(Holders) > 0
  <2>1. t \in Holders /\ Holders' = Holders \ {t}
    BY <1>4 DEF Holders
  <2>2. Holders # {}
    BY <2>1
  <2>3. Cardinality(Holders) # 0
    BY <1>1, <2>2, FS_EmptySet
  <2>4. Cardinality(Holders') = Cardinality(Holders) - 1
    BY <1>1, <2>1, FS_RemoveElement
  <2> QED BY <1>1, <2>3, <2>4
<1>5. pc' \in [Turns -> Places]
  OBVIOUS
<1> QED BY <1>1, <1>2, <1>3, <1>4, <1>5

LEMMA CountParts ==
    /\ SlotsAreCounted <=> active = Cardinality(Holders)
    /\ SlotsAreCounted' <=> active' = Cardinality(Holders')
BY DEF SlotsAreCounted, Holders

-----------------------------------------------------------------------------
(* The parts of a step that concern the coordinator.                       *)

\* A turn moves and keeps what it had: a slot, or none.
LEMMA MoveKeepsCoordinator ==
    ASSUME CoordinatorInv, NEW t \in Turns, NEW n \in Places, pc' = [pc EXCEPT ![t] = n],
           n \in Holding <=> pc[t] \in Holding,
           active' = active, CoordinatorTypeOK', NoSleeperIsForgotten'
    PROVE  CoordinatorInv'
BY HoldersMove, CountParts DEF CoordinatorInv

\* A turn moves on with the slot it has taken.
LEMMA TakingKeepsCoordinator ==
    ASSUME CoordinatorInv, NEW t \in Turns, NEW n \in Holding, pc' = [pc EXCEPT ![t] = n],
           pc[t] \notin Holding, TakeSlot(t)
    PROVE  CoordinatorInv'
<1>1. n \in Places
  BY DEF Places
<1>2. CoordinatorTypeOK'
  BY DEF CoordinatorInv, CoordinatorTypeOK, TakeSlot
<1>3. NoSleeperIsForgotten'
  BY DEF CoordinatorInv, CoordinatorTypeOK, TakeSlot, NoSleeperIsForgotten
<1>4. active' = active + 1
  BY DEF TakeSlot
<1> QED BY <1>1, <1>2, <1>3, <1>4, HoldersMove, CountParts DEF CoordinatorInv

\* A turn moves on and leaves its slot to whoever is woken.
LEMMA ReleasingKeepsCoordinator ==
    ASSUME CoordinatorInv, NEW t \in Turns, NEW n \in Places \ Holding, pc' = [pc EXCEPT ![t] = n],
           pc[t] \in Holding,
           active' = IF active > 0 THEN active - 1 ELSE 0,
           limit' \in 1 .. MaxSlots, cooling' \in BOOLEAN, waiting' = Woken
    PROVE  CoordinatorInv'
<1>1. Cardinality(Holders') = Cardinality(Holders) - 1 /\ Cardinality(Holders) > 0
  BY HoldersMove DEF CoordinatorInv
<1>2. active' = Cardinality(Holders') /\ active' \in Nat
  BY <1>1, CountParts DEF CoordinatorInv, CoordinatorTypeOK
<1>3. waiting' \in [Turns -> {"no", "checking", "asleep", "timed"}] /\ \A u \in Turns : waiting'[u] # "asleep"
  BY DEF Woken, CoordinatorInv, CoordinatorTypeOK
<1>4. CoordinatorTypeOK' /\ NoSleeperIsForgotten'
  BY <1>2, <1>3 DEF CoordinatorTypeOK, NoSleeperIsForgotten
<1> QED BY <1>2, <1>4, HoldersMove, CountParts DEF CoordinatorInv

\* The limit after a response, and who is told of it.
LEMMA LimitsStay ==
    ASSUME CoordinatorInv, NEW signal \in Signals, limit' = LimitAfter(signal), CoolsAfter(signal)
    PROVE  limit' \in 1 .. MaxSlots /\ cooling' \in BOOLEAN
<1>1. limit \in 1 .. MaxSlots /\ cooling \in BOOLEAN
  BY DEF CoordinatorInv, CoordinatorTypeOK
<1>2. Halved \in 1 .. MaxSlots /\ Raised \in 1 .. MaxSlots
  BY <1>1 DEF Halved, Raised
<1>3. limit' \in 1 .. MaxSlots
  BY <1>1, <1>2 DEF LimitAfter, Signals
<1>4. cooling' \in BOOLEAN
  BY <1>1 DEF CoolsAfter, Signals
<1> QED BY <1>3, <1>4

LEMMA ObservingKeepsCoordinator ==
    ASSUME CoordinatorInv, NEW signal \in Signals, Observe(signal)
    PROVE  CoordinatorTypeOK' /\ NoSleeperIsForgotten' /\ active' = active
<1>1. limit' \in 1 .. MaxSlots /\ cooling' \in BOOLEAN
  BY LimitsStay DEF Observe
<1>2. waiting' \in [Turns -> {"no", "checking", "asleep", "timed"}]
  BY DEF Observe, Woken, CoordinatorInv, CoordinatorTypeOK
<1>3. CASE limit' > limit
  BY <1>1, <1>2, <1>3 DEF Observe, Woken, CoordinatorInv, CoordinatorTypeOK, NoSleeperIsForgotten
<1>4. CASE ~(limit' > limit)
  BY <1>1, <1>2, <1>4 DEF Observe, CoordinatorInv, CoordinatorTypeOK, NoSleeperIsForgotten
<1> QED BY <1>3, <1>4

\* Waiting for a slot, with the turn where it is or elsewhere without one.
LEMMA WaitingKeepsCoordinator ==
    ASSUME CoordinatorInv, NEW t \in Turns,
           \/ StartAcquiring(t) \/ FallAsleep(t) \/ TimerFires(t) \/ GiveUp(t)
           \/ CooldownEnds \/ UNCHANGED coordinator
    PROVE  CoordinatorTypeOK' /\ NoSleeperIsForgotten' /\ active' = active
<1> USE DEF CoordinatorInv, CoordinatorTypeOK, NoSleeperIsForgotten
<1>1. CASE StartAcquiring(t)
  BY <1>1 DEF StartAcquiring
<1>2. CASE FallAsleep(t)
  BY <1>2 DEF FallAsleep, HasFreeSlot
<1>3. CASE TimerFires(t)
  BY <1>3 DEF TimerFires
<1>4. CASE GiveUp(t)
  BY <1>4 DEF GiveUp
<1>5. CASE CooldownEnds
  BY <1>5 DEF CooldownEnds
<1>6. CASE UNCHANGED coordinator
  BY <1>6 DEF coordinator
<1> QED BY <1>1, <1>2, <1>3, <1>4, <1>5, <1>6

LEMMA StandingKeepsCoordinator ==
    ASSUME CoordinatorInv, pc' = pc, active' = active, CoordinatorTypeOK', NoSleeperIsForgotten'
    PROVE  CoordinatorInv'
BY DEF CoordinatorInv, SlotsAreCounted

\* One step of a generator.
LEMMA GeneratorKeepsCoordinator ==
    ASSUME CoordinatorInv, NEW t \in Turns, Generator(t)
    PROVE  CoordinatorInv'
<1> USE DEF Runs, Goes, Throw, Yield, Holding, Places
<1>0. pc[t] \in Places
  BY DEF CoordinatorInv
<1>1. CASE BuildRequest(t)
  BY <1>1, MoveKeepsCoordinator, WaitingKeepsCoordinator DEF BuildRequest
<1>2. CASE ReachStepLimit(t)
  BY <1>2, MoveKeepsCoordinator, WaitingKeepsCoordinator DEF ReachStepLimit
<1>3. CASE AcquireSlot(t)
  BY <1>3, TakingKeepsCoordinator DEF AcquireSlot
<1>4. CASE WaitForSlot(t)
  BY <1>4, StandingKeepsCoordinator, WaitingKeepsCoordinator DEF WaitForSlot, generators
<1>5. CASE SlotWaitInterrupted(t)
  BY <1>5, MoveKeepsCoordinator, WaitingKeepsCoordinator DEF SlotWaitInterrupted
<1>6. CASE RequestAnswered(t)
  BY <1>6, MoveKeepsCoordinator, ObservingKeepsCoordinator DEF RequestAnswered
<1>7. CASE RequestRetried(t)
  BY <1>7, MoveKeepsCoordinator, ObservingKeepsCoordinator DEF RequestRetried
<1>8. CASE RequestFails(t)
  BY <1>8, ReleasingKeepsCoordinator, LimitsStay DEF RequestFails, ObserveAndRelease
<1>9. CASE RetryDelayEnds(t)
  BY <1>9, MoveKeepsCoordinator, WaitingKeepsCoordinator DEF RetryDelayEnds
<1>10. CASE RetryDelayInterrupted(t) \/ StreamFails(t) \/ FinalStepEnds(t) \/ CallStepEnds(t)
  <2>1. limit' \in 1 .. MaxSlots /\ cooling' \in BOOLEAN /\ Release
    BY <1>10 DEF RetryDelayInterrupted, StreamFails, FinalStepEnds, CallStepEnds, Release,
                 CoordinatorInv, CoordinatorTypeOK
  <2>2. pc[t] \in Holding /\ \E n \in Places \ Holding : pc' = [pc EXCEPT ![t] = n]
    BY <1>10 DEF RetryDelayInterrupted, StreamFails, FinalStepEnds, CallStepEnds
  <2> QED BY <2>1, <2>2, ReleasingKeepsCoordinator DEF Release
<1>11. CASE StreamText(t) \/ StreamCalls(t)
  BY <1>11, MoveKeepsCoordinator, WaitingKeepsCoordinator DEF StreamText, StreamCalls
<1>12. CASE ResultWaitInterrupted(t) \/ AnswerCalls(t)
  BY <1>12, MoveKeepsCoordinator, WaitingKeepsCoordinator DEF ResultWaitInterrupted, AnswerCalls
<1>13. CASE CloseGenerator(t)
  <2>1. CASE pc[t] \in Holding
    <3>1. limit' \in 1 .. MaxSlots /\ cooling' \in BOOLEAN /\ Release /\ pc' = [pc EXCEPT ![t] = "done"]
      BY <1>13, <2>1 DEF CloseGenerator, Release, CoordinatorInv, CoordinatorTypeOK
    <3> QED BY <2>1, <3>1, ReleasingKeepsCoordinator DEF Release
  <2>2. CASE pc[t] \notin Holding
    BY <1>13, <2>2, MoveKeepsCoordinator, WaitingKeepsCoordinator DEF CloseGenerator
  <2> QED BY <2>1, <2>2
<1> QED BY <1>1, <1>2, <1>3, <1>4, <1>5, <1>6, <1>7, <1>8, <1>9, <1>10, <1>11, <1>12, <1>13 DEF Generator

\* The engine leaves the coordinator and the places of the generators alone.
LEMMA EngineKeepsCoordinator ==
    ASSUME CoordinatorInv,
           \/ \E t \in Turns : Reader(t)
           \/ \E t \in Turns : \E c \in CallsOf[t] : Execution(t, c)
           \/ Interrupt \/ CoolDown \/ UNCHANGED vars
    PROVE  CoordinatorInv'
<1>1. pc' = pc /\ (UNCHANGED coordinator \/ CooldownEnds)
  BY DEF Reader, Execution, Ask, Takes, TakeEvent, TakeCalls, TakeEnd, Execute, LeaveInterrupted,
     LeaveAfterCheckpoint, Leaves, StartSubagent, SubmitResult, Interrupt, CoolDown, vars, generators
<1>2. CoordinatorTypeOK' /\ NoSleeperIsForgotten' /\ active' = active
  BY <1>1, WaitingKeepsCoordinator
<1> QED BY <1>1, <1>2, StandingKeepsCoordinator

LEMMA InitCoordinator == Init => CoordinatorInv
<1>1. SUFFICES ASSUME Init PROVE CoordinatorInv
  OBVIOUS
<1>2. /\ limit = MaxSlots /\ active = 0 /\ cooling = FALSE /\ waiting = [t \in Turns |-> "no"]
      /\ pc = [t \in Turns |-> "building"]
  BY <1>1 DEF Init, CoordinatorInit
<1>3. CoordinatorTypeOK
  <2>1. limit \in 1 .. MaxSlots /\ active \in Nat
    BY <1>2
  <2>2. cooling \in BOOLEAN
    BY <1>2
  <2>3. waiting \in [Turns -> {"no", "checking", "asleep", "timed"}]
    BY <1>2
  <2> QED BY <2>1, <2>2, <2>3 DEF CoordinatorTypeOK
<1>4. NoSleeperIsForgotten /\ pc \in [Turns -> Places]
  BY <1>2 DEF Places, NoSleeperIsForgotten
<1>5. Holders = {}
  BY <1>2 DEF Holders, Holding
<1>6. active = Cardinality(Holders)
  BY <1>2, <1>5, FS_EmptySet
<1> QED BY <1>3, <1>4, <1>6, CountParts DEF CoordinatorInv

\* Nobody streams without a slot, none is lost or given back twice, and nobody sleeps
\* beside a free one: the count of the coordinator is the number of turns inside a
\* response step, in every order of answers, retries, failures and interruptions
\* (acquireResponseStepStreamSlot, releaseResponseStepStreamSlot,
\* notifyCoordinatorStateChanged).
THEOREM SlotsHandedOn == Spec => []SlotsAreHandedOn
<1>1. CoordinatorInv /\ [Next]_vars => CoordinatorInv'
  BY GeneratorKeepsCoordinator, EngineKeepsCoordinator DEF Next
<1>2. CoordinatorInv => SlotsAreHandedOn
  BY DEF CoordinatorInv, SlotsAreHandedOn
<1> QED BY InitCoordinator, <1>1, <1>2, PTL DEF Spec

-----------------------------------------------------------------------------
(* Steps, attempts, texts and tokens.                                      *)

Numbers ==
    /\ step \in [Turns -> 0 .. MaxSteps]
    /\ attempt \in [Turns -> 0 .. MaxRetries + 1]
    /\ texts \in [Turns -> Nat] /\ \A t \in Turns : texts[t] <= MaxTexts[t]
    /\ usage \in [Turns -> 0 .. MaxSteps]

\* Before a delay there are attempts left.
AttemptInv == \A t \in Turns : pc[t] = "delaying" => attempt[t] <= MaxRetries

\* The tokens of a step are counted when it ends.
UsageInv ==
    \A t \in Turns :
        /\ pc[t] \in Holding \cup {"acquiring"} => usage[t] = step[t] - 1
        /\ pc[t] \in {"building", "awaiting"} => usage[t] = step[t]
        /\ inbox[t].kind = "final" => pc[t] = "done" /\ usage[t] = step[t]

Events == [kind : {"nothing", "text", "retry", "calls", "final", "error"}, calls : SUBSET Calls]

NumberInv ==
    /\ pc \in [Turns -> Places] /\ inbox \in [Turns -> Events]
    /\ Numbers /\ AttemptInv /\ UsageInv

\* The events the generators and the readers put into an inbox.
LEMMA EventTypes ==
    /\ \A kind \in {"nothing", "text", "retry", "calls", "final", "error"}, cs \in SUBSET Calls :
         /\ Event(kind, cs) \in Events
         /\ Event(kind, cs).kind = kind /\ Event(kind, cs).calls = cs
    /\ Nothing \in Events /\ Nothing.kind = "nothing" /\ Nothing.calls = {}
BY DEF Event, Nothing, Events

\* A turn goes elsewhere with these numbers, and maybe hands an event over.
Moves(t, n, st, a, us) ==
    /\ pc[t] # "done" /\ n \in Places /\ pc' = [pc EXCEPT ![t] = n]
    /\ \/ inbox' = inbox
       \/ \E e \in Events : inbox' = [inbox EXCEPT ![t] = e] /\ (e.kind = "final" => n = "done" /\ us = st)
    /\ st \in 0 .. MaxSteps /\ step' = [step EXCEPT ![t] = st]
    /\ a \in 0 .. MaxRetries + 1 /\ attempt' = [attempt EXCEPT ![t] = a]
    /\ us \in 0 .. MaxSteps /\ usage' = [usage EXCEPT ![t] = us]
    /\ UNCHANGED texts
    /\ n \in Holding \cup {"acquiring"} => us = st - 1
    /\ n \in {"building", "awaiting"} => us = st
    /\ n = "delaying" => a <= MaxRetries

LEMMA NumbersMove ==
    ASSUME NumberInv, NEW t \in Turns, NEW n, NEW st, NEW a, NEW us, Moves(t, n, st, a, us)
    PROVE  NumberInv'
<1>1. /\ pc' \in [Turns -> Places] /\ pc'[t] = n
      /\ \A u \in Turns \ {t} : pc'[u] = pc[u]
  BY DEF NumberInv, Moves
<1>2. /\ inbox' \in [Turns -> Events]
      /\ inbox'[t].kind = "final" => n = "done" /\ us = st
      /\ \A u \in Turns \ {t} : inbox'[u] = inbox[u]
  BY DEF NumberInv, UsageInv, Moves
<1>3. /\ step' \in [Turns -> 0 .. MaxSteps] /\ step'[t] = st
      /\ attempt' \in [Turns -> 0 .. MaxRetries + 1] /\ attempt'[t] = a
      /\ usage' \in [Turns -> 0 .. MaxSteps] /\ usage'[t] = us
      /\ \A u \in Turns \ {t} : step'[u] = step[u] /\ attempt'[u] = attempt[u] /\ usage'[u] = usage[u]
  BY DEF NumberInv, Numbers, Moves
<1>4. /\ n \in Holding \cup {"acquiring"} => us = st - 1
      /\ n \in {"building", "awaiting"} => us = st
      /\ n = "delaying" => a <= MaxRetries
      /\ texts' = texts
  BY DEF Moves
<1>5. Numbers'
  BY <1>3, <1>4 DEF NumberInv, Numbers
<1>6. AttemptInv'
  BY <1>1, <1>3, <1>4 DEF NumberInv, AttemptInv
<1>7. UsageInv'
  BY <1>1, <1>2, <1>3, <1>4 DEF NumberInv, UsageInv
<1> QED BY <1>1, <1>2, <1>5, <1>6, <1>7 DEF NumberInv

\* One step of a generator.
LEMMA GeneratorKeepsNumbers ==
    ASSUME NumberInv, NEW t \in Turns, Generator(t)
    PROVE  NumberInv'
<1> DEFINE st == step[t]
           at == attempt[t]
           us == usage[t]
<1> USE DEF Runs, Goes, Throw, Yield
<1>1. /\ pc[t] \in Places /\ st \in 0 .. MaxSteps /\ at \in 0 .. MaxRetries + 1 /\ us \in 0 .. MaxSteps
      /\ step = [step EXCEPT ![t] = st] /\ attempt = [attempt EXCEPT ![t] = at]
      /\ usage = [usage EXCEPT ![t] = us] /\ pc = [pc EXCEPT ![t] = pc[t]]
      /\ 0 \in 0 .. MaxRetries + 1 /\ 1 \in 0 .. MaxRetries + 1
  BY DEF NumberInv, Numbers
<1>2. /\ pc[t] \in Holding \cup {"acquiring"} => us = st - 1
      /\ pc[t] \in {"building", "awaiting"} => us = st
      /\ pc[t] = "delaying" => at <= MaxRetries
  BY DEF NumberInv, UsageInv, AttemptInv
<1>3. ASSUME NEW kind \in {"text", "retry", "error", "final"}
      PROVE  Event(kind, {}) \in Events /\ Event(kind, {}).kind = kind
  BY DEF Event, Events
<1>4. CASE BuildRequest(t)
  <2>1. pc[t] = "building" /\ st + 1 \in 0 .. MaxSteps /\ us = (st + 1) - 1
    BY <1>1, <1>2, <1>4 DEF BuildRequest
  <2>2. Moves(t, "acquiring", st + 1, at, us)
    BY <1>1, <1>4, <2>1 DEF BuildRequest, Moves, Places, Holding, conversation
  <2> QED BY <2>2, NumbersMove
<1>5. CASE ReachStepLimit(t) \/ SlotWaitInterrupted(t) \/ StreamFails(t) \/ ResultWaitInterrupted(t)
  <2>1. /\ pc' = [pc EXCEPT ![t] = "done"] /\ pc[t] # "done" /\ UNCHANGED <<step, attempt, texts, usage>>
        /\ inbox' = [inbox EXCEPT ![t] = Event("error", {})]
    BY <1>5 DEF ReachStepLimit, SlotWaitInterrupted, StreamFails, ResultWaitInterrupted, conversation
  <2>2. Moves(t, "done", st, at, us)
    BY <1>1, <1>3, <2>1 DEF Moves, Places, Holding
  <2> QED BY <2>2, NumbersMove
<1>6. CASE AcquireSlot(t)
  <2>1. Moves(t, "requesting", st, 1, us)
    BY <1>1, <1>2, <1>6 DEF AcquireSlot, Moves, Places, Holding, conversation
  <2> QED BY <2>1, NumbersMove
<1>7. CASE WaitForSlot(t)
  BY <1>7 DEF WaitForSlot, generators, conversation, NumberInv, Numbers, AttemptInv, UsageInv
<1>8. CASE RequestAnswered(t)
  <2>1. Moves(t, "streaming", st, 0, us)
    BY <1>1, <1>2, <1>8 DEF RequestAnswered, Moves, Places, Holding, conversation
  <2> QED BY <2>1, NumbersMove
<1>9. CASE RequestRetried(t)
  <2>1. Moves(t, "delaying", st, at, us)
    BY <1>1, <1>2, <1>3, <1>9 DEF RequestRetried, Moves, Places, Holding, conversation
  <2> QED BY <2>1, NumbersMove
<1>10. CASE RequestFails(t) \/ RetryDelayInterrupted(t)
  <2>1. /\ pc[t] # "done" /\ pc' = [pc EXCEPT ![t] = "done"]
        /\ inbox' = [inbox EXCEPT ![t] = Event("error", {})]
        /\ attempt' = [attempt EXCEPT ![t] = 0] /\ UNCHANGED <<step, texts, usage>>
    BY <1>10 DEF RequestFails, RetryDelayInterrupted, conversation
  <2>2. Moves(t, "done", st, 0, us)
    BY <1>1, <1>3, <2>1 DEF Moves, Places, Holding
  <2> QED BY <2>2, NumbersMove
<1>11. CASE RetryDelayEnds(t)
  <2>1. pc[t] = "delaying" /\ at + 1 \in 0 .. MaxRetries + 1
    BY <1>1, <1>2, <1>11 DEF RetryDelayEnds
  <2>2. Moves(t, "requesting", st, at + 1, us)
    BY <1>1, <1>2, <1>11, <2>1 DEF RetryDelayEnds, Moves, Places, Holding, conversation
  <2> QED BY <2>2, NumbersMove
<1>12. CASE StreamText(t)
  <2>1. /\ pc[t] = "streaming" /\ pc' = pc /\ UNCHANGED <<step, attempt, usage>>
        /\ inbox' = [inbox EXCEPT ![t] = Event("text", {})]
        /\ texts[t] < MaxTexts[t] /\ texts' = [texts EXCEPT ![t] = @ + 1]
    BY <1>1, <1>12 DEF StreamText, conversation
  <2>2. texts' \in [Turns -> Nat] /\ \A u \in Turns : texts'[u] <= MaxTexts[u]
    BY <2>1 DEF NumberInv, Numbers
  <2>3. /\ inbox' \in [Turns -> Events] /\ inbox'[t].kind = "text"
        /\ \A u \in Turns \ {t} : inbox'[u] = inbox[u]
    BY <1>3, <2>1 DEF NumberInv
  <2> QED BY <2>1, <2>2, <2>3 DEF NumberInv, Numbers, AttemptInv, UsageInv
<1>13. CASE StreamCalls(t)
  <2>1. PICK cs \in SUBSET CallsOf[t] : inbox' = [inbox EXCEPT ![t] = Event("calls", cs)]
    BY <1>13 DEF StreamCalls
  <2>2. cs \in SUBSET Calls
    BY <2>1 DEF Calls
  <2>3. Event("calls", cs) \in Events /\ Event("calls", cs).kind # "final"
    BY <2>2 DEF Event, Events
  <2>4. pc[t] = "streaming" /\ pc' = [pc EXCEPT ![t] = "streaming"] /\ UNCHANGED <<step, attempt, texts, usage>>
    BY <1>13 DEF StreamCalls, conversation
  <2>5. Moves(t, "streaming", st, at, us)
    BY <1>1, <1>2, <2>1, <2>3, <2>4 DEF Moves, Places, Holding
  <2> QED BY <2>5, NumbersMove
<1>14. CASE FinalStepEnds(t)
  <2>1. /\ pc[t] = "streaming" /\ pc' = [pc EXCEPT ![t] = "done"]
        /\ inbox' = [inbox EXCEPT ![t] = Event("final", {})]
        /\ usage' = [usage EXCEPT ![t] = us + 1] /\ UNCHANGED <<step, attempt, texts>>
    BY <1>14 DEF FinalStepEnds, CountUsage
  <2>2. us + 1 = st /\ us + 1 \in 0 .. MaxSteps
    BY <1>1, <1>2, <2>1 DEF Holding
  <2>3. Moves(t, "done", st, at, us + 1)
    BY <1>1, <1>3, <2>1, <2>2 DEF Moves, Places, Holding
  <2> QED BY <2>3, NumbersMove
<1>15. CASE CallStepEnds(t)
  <2>1. /\ pc[t] = "streaming" /\ usage' = [usage EXCEPT ![t] = us + 1]
        /\ UNCHANGED <<step, attempt, texts>>
        /\ \/ pc' = [pc EXCEPT ![t] = "done"] /\ inbox' = [inbox EXCEPT ![t] = Event("error", {})]
           \/ pc' = [pc EXCEPT ![t] = "awaiting"] /\ inbox' = inbox
    BY <1>15 DEF CallStepEnds, CountUsage
  <2>2. us + 1 = st /\ us + 1 \in 0 .. MaxSteps
    BY <1>1, <1>2, <2>1 DEF Holding
  <2>3. Moves(t, "done", st, at, us + 1) \/ Moves(t, "awaiting", st, at, us + 1)
    BY <1>1, <1>3, <2>1, <2>2 DEF Moves, Places, Holding
  <2> QED BY <2>3, NumbersMove
<1>16. CASE AnswerCalls(t)
  <2>1. pc[t] = "awaiting" /\ us = st /\ UNCHANGED <<step, attempt, texts, usage>>
    BY <1>2, <1>16 DEF AnswerCalls
  <2>2. Moves(t, "building", st, at, us) \/ Moves(t, "done", st, at, us)
    BY <1>1, <1>3, <1>16, <2>1 DEF AnswerCalls, Moves, Places, Holding
  <2> QED BY <2>2, NumbersMove
<1>17. CASE CloseGenerator(t)
  <2>1. /\ pc[t] # "done" /\ pc' = [pc EXCEPT ![t] = "done"] /\ inbox' = inbox
        /\ attempt' = [attempt EXCEPT ![t] = 0] /\ UNCHANGED <<step, texts, usage>>
    BY <1>17 DEF CloseGenerator, conversation
  <2>2. Moves(t, "done", st, 0, us)
    BY <1>1, <2>1 DEF Moves, Places, Holding
  <2> QED BY <2>2, NumbersMove
<1> QED BY <1>4, <1>5, <1>6, <1>7, <1>8, <1>9, <1>10, <1>11, <1>12, <1>13, <1>14, <1>15, <1>16, <1>17 DEF Generator

\* The engine empties inboxes and touches no numbers.
LEMMA EngineKeepsNumbers ==
    ASSUME NumberInv,
           \/ \E t \in Turns : Reader(t)
           \/ \E t \in Turns : \E c \in CallsOf[t] : Execution(t, c)
           \/ Interrupt \/ CoolDown \/ UNCHANGED vars
    PROVE  NumberInv'
<1>1. UNCHANGED <<pc, step, attempt, texts, usage>>
  BY DEF Reader, Execution, Ask, Takes, TakeEvent, TakeCalls, TakeEnd, Execute, LeaveInterrupted,
     LeaveAfterCheckpoint, Leaves, StartSubagent, SubmitResult, Interrupt, CoolDown, vars, generators, conversation
<1>2. inbox' = inbox \/ \E t \in Turns : inbox' = [inbox EXCEPT ![t] = Nothing]
  BY DEF Reader, Execution, Ask, Takes, TakeEvent, TakeCalls, TakeEnd, Execute, LeaveInterrupted,
     LeaveAfterCheckpoint, Leaves, StartSubagent, SubmitResult, Interrupt, CoolDown, vars, generators
<1>3. inbox' \in [Turns -> Events] /\ \A t \in Turns : inbox'[t].kind = "final" => inbox'[t] = inbox[t]
  BY <1>2, EventTypes DEF NumberInv
<1> QED BY <1>1, <1>3 DEF NumberInv, Numbers, AttemptInv, UsageInv

LEMMA InitNumbers == Init => NumberInv
<1>1. SUFFICES ASSUME Init PROVE NumberInv
  OBVIOUS
<1>2. /\ pc = [t \in Turns |-> "building"] /\ inbox = [t \in Turns |-> Nothing]
      /\ step = [t \in Turns |-> 0] /\ attempt = [t \in Turns |-> 0]
      /\ texts = [t \in Turns |-> 0] /\ usage = [t \in Turns |-> 0]
  BY <1>1 DEF Init
<1>3. pc \in [Turns -> Places] /\ inbox \in [Turns -> Events]
  BY <1>2, EventTypes DEF Places
<1>4. Numbers
  BY <1>2 DEF Numbers
<1>5. AttemptInv /\ UsageInv
  BY <1>2, EventTypes DEF AttemptInv, UsageInv, Holding
<1> QED BY <1>3, <1>4, <1>5 DEF NumberInv

\* The usage a turn reports at its end counts every step once, whichever of its ends
\* it comes to (accumulatedOpenAiTurnUsage in turnSession.ts).
THEOREM UsageIsComplete == Spec => []UsageCountsEveryStep
<1>1. NumberInv /\ [Next]_vars => NumberInv'
  BY GeneratorKeepsNumbers, EngineKeepsNumbers DEF Next
<1>2. NumberInv => UsageCountsEveryStep
  BY DEF NumberInv, UsageInv, UsageCountsEveryStep
<1> QED BY InitNumbers, <1>1, <1>2, PTL DEF Spec

-----------------------------------------------------------------------------
(* Calls and their outputs.                                                *)

SetsOfCalls == [Turns -> SUBSET Calls]

\* Outside the wait for results every call has its output; in it those of the step
\* are the ones to come.
AnswerInv ==
    /\ pc \in [Turns -> Places]
    /\ calls \in SetsOfCalls /\ input \in SetsOfCalls /\ outputs \in SetsOfCalls /\ pending \in SetsOfCalls
    /\ \A t \in Turns :
          /\ pc[t] \in Holding \cup {"acquiring", "building"} => outputs[t] = input[t] /\ pending[t] = {}
          /\ pc[t] = "awaiting" => input[t] = outputs[t] \cup calls[t]

\* A turn goes elsewhere with these calls and items.
Converses(t, n, cs, i, o, p) ==
    /\ n \in Places /\ pc' = [pc EXCEPT ![t] = n]
    /\ cs \in SUBSET Calls /\ calls' = [calls EXCEPT ![t] = cs]
    /\ i \in SUBSET Calls /\ input' = [input EXCEPT ![t] = i]
    /\ o \in SUBSET Calls /\ outputs' = [outputs EXCEPT ![t] = o]
    /\ p \in SUBSET Calls /\ pending' = [pending EXCEPT ![t] = p]
    /\ n \in Holding \cup {"acquiring", "building"} => o = i /\ p = {}
    /\ n = "awaiting" => i = o \cup cs

LEMMA AnswersMove ==
    ASSUME AnswerInv, NEW t \in Turns, NEW n, NEW cs, NEW i, NEW o, NEW p, Converses(t, n, cs, i, o, p)
    PROVE  AnswerInv'
<1>1. /\ pc' \in [Turns -> Places] /\ pc'[t] = n
      /\ \A u \in Turns \ {t} : pc'[u] = pc[u]
  BY DEF AnswerInv, Converses
<1>2. /\ calls' \in SetsOfCalls /\ calls'[t] = cs
      /\ input' \in SetsOfCalls /\ input'[t] = i
      /\ outputs' \in SetsOfCalls /\ outputs'[t] = o
      /\ pending' \in SetsOfCalls /\ pending'[t] = p
  BY DEF AnswerInv, Converses, SetsOfCalls
<1>3. \A u \in Turns \ {t} : /\ calls'[u] = calls[u] /\ input'[u] = input[u]
                             /\ outputs'[u] = outputs[u] /\ pending'[u] = pending[u]
  BY DEF AnswerInv, Converses, SetsOfCalls
<1>4. /\ n \in Holding \cup {"acquiring", "building"} => o = i /\ p = {}
      /\ n = "awaiting" => i = o \cup cs
  BY DEF Converses
<1> QED BY <1>1, <1>2, <1>3, <1>4 DEF AnswerInv

\* One step of a generator.
LEMMA GeneratorKeepsAnswers ==
    ASSUME AnswerInv, NEW t \in Turns, Generator(t)
    PROVE  AnswerInv'
<1> DEFINE cs == calls[t]
           i == input[t]
           o == outputs[t]
           p == pending[t]
<1> USE DEF Runs, Goes, Throw, Yield
<1>1. /\ pc[t] \in Places /\ cs \in SUBSET Calls /\ i \in SUBSET Calls /\ o \in SUBSET Calls /\ p \in SUBSET Calls
      /\ pc = [pc EXCEPT ![t] = pc[t]]
      /\ calls = [calls EXCEPT ![t] = cs] /\ input = [input EXCEPT ![t] = i]
      /\ outputs = [outputs EXCEPT ![t] = o] /\ pending = [pending EXCEPT ![t] = p]
  BY DEF AnswerInv, SetsOfCalls
<1>2. /\ pc[t] \in Holding \cup {"acquiring", "building"} => o = i /\ p = {}
      /\ pc[t] = "awaiting" => i = o \cup cs
  BY DEF AnswerInv
<1>3. CASE BuildRequest(t)
  <2>1. pc[t] = "building" /\ pc' = [pc EXCEPT ![t] = "acquiring"]
        /\ calls' = [calls EXCEPT ![t] = {}] /\ UNCHANGED <<input, outputs, pending>>
    BY <1>3 DEF BuildRequest, conversation
  <2>2. Converses(t, "acquiring", {}, i, o, p)
    BY <1>1, <1>2, <2>1 DEF Converses, Places, Holding
  <2> QED BY <2>2, AnswersMove
<1>4. CASE \/ ReachStepLimit(t) \/ SlotWaitInterrupted(t) \/ StreamFails(t) \/ RequestFails(t)
           \/ RetryDelayInterrupted(t) \/ FinalStepEnds(t) \/ CloseGenerator(t)
  <2>1. pc' = [pc EXCEPT ![t] = "done"] /\ UNCHANGED <<calls, input, outputs, pending>>
    BY <1>4 DEF ReachStepLimit, SlotWaitInterrupted, StreamFails, RequestFails, RetryDelayInterrupted,
       FinalStepEnds, CloseGenerator, conversation
  <2>2. Converses(t, "done", cs, i, o, p)
    BY <1>1, <2>1 DEF Converses, Places, Holding
  <2> QED BY <2>2, AnswersMove
<1>5. CASE \/ AcquireSlot(t) \/ RequestAnswered(t) \/ RequestRetried(t) \/ RetryDelayEnds(t) \/ StreamText(t)
  <2>1. /\ pc[t] \in Holding \cup {"acquiring"} /\ UNCHANGED <<calls, input, outputs, pending>>
        /\ \E n \in Holding : pc' = [pc EXCEPT ![t] = n]
    BY <1>1, <1>5 DEF AcquireSlot, RequestAnswered, RequestRetried, RetryDelayEnds, StreamText, Holding, conversation
  <2>2. PICK n \in Holding : pc' = [pc EXCEPT ![t] = n]
    BY <2>1
  <2>3. n \in Places /\ n # "awaiting"
    BY <2>2 DEF Holding, Places
  <2>4. Converses(t, n, cs, i, o, p)
    BY <1>1, <1>2, <2>1, <2>2, <2>3 DEF Converses
  <2> QED BY <2>4, AnswersMove
<1>6. CASE WaitForSlot(t)
  BY <1>6 DEF WaitForSlot, generators, conversation, AnswerInv
<1>7. CASE StreamCalls(t)
  <2>1. PICK new \in SUBSET CallsOf[t] : calls' = [calls EXCEPT ![t] = cs \cup new]
    BY <1>7 DEF StreamCalls
  <2>2. cs \cup new \in SUBSET Calls
    BY <1>1, <2>1 DEF Calls
  <2>3. pc[t] = "streaming" /\ pc' = [pc EXCEPT ![t] = "streaming"] /\ UNCHANGED <<input, outputs, pending>>
    BY <1>7 DEF StreamCalls, conversation
  <2>4. Converses(t, "streaming", cs \cup new, i, o, p)
    BY <1>1, <1>2, <2>1, <2>2, <2>3 DEF Converses, Places, Holding
  <2> QED BY <2>4, AnswersMove
<1>8. CASE CallStepEnds(t)
  <2>1. /\ pc[t] = "streaming" /\ input' = [input EXCEPT ![t] = i \cup cs] /\ UNCHANGED <<calls, outputs>>
        /\ \/ pc' = [pc EXCEPT ![t] = "done"] /\ pending' = pending
           \/ pc' = [pc EXCEPT ![t] = "awaiting"] /\ pending' = [pending EXCEPT ![t] = StillAwaited(t)]
    BY <1>8 DEF CallStepEnds
  <2>2. StillAwaited(t) \in SUBSET Calls /\ i \cup cs = o \cup cs /\ i \cup cs \in SUBSET Calls
    BY <1>1, <1>2, <2>1 DEF StillAwaited, Holding
  <2>3. Converses(t, "done", cs, i \cup cs, o, p) \/ Converses(t, "awaiting", cs, i \cup cs, o, StillAwaited(t))
    BY <1>1, <2>1, <2>2 DEF Converses, Places, Holding
  <2> QED BY <2>3, AnswersMove
<1>9. CASE ResultWaitInterrupted(t)
  <2>1. pc' = [pc EXCEPT ![t] = "done"] /\ pending' = [pending EXCEPT ![t] = {}] /\ UNCHANGED <<calls, input, outputs>>
    BY <1>9 DEF ResultWaitInterrupted
  <2>2. Converses(t, "done", cs, i, o, {})
    BY <1>1, <2>1 DEF Converses, Places, Holding
  <2> QED BY <2>2, AnswersMove
<1>10. CASE AnswerCalls(t)
  <2>1. /\ pc[t] = "awaiting" /\ p = {} /\ UNCHANGED <<calls, input, pending>>
        /\ outputs' = [outputs EXCEPT ![t] = o \cup (cs \ p)]
        /\ pc' \in {[pc EXCEPT ![t] = "building"], [pc EXCEPT ![t] = "done"]}
    BY <1>10 DEF AnswerCalls, HasResults
  <2>2. o \cup (cs \ p) = i
    BY <1>2, <2>1
  <2>3. Converses(t, "building", cs, i, i, p) \/ Converses(t, "done", cs, i, i, p)
    BY <1>1, <2>1, <2>2 DEF Converses, Places, Holding
  <2> QED BY <2>3, AnswersMove
<1> QED BY <1>3, <1>4, <1>5, <1>6, <1>7, <1>8, <1>9, <1>10 DEF Generator

\* The engine submits results, which takes calls from those awaited.
LEMMA EngineKeepsAnswers ==
    ASSUME AnswerInv,
           \/ \E t \in Turns : Reader(t)
           \/ \E t \in Turns : \E c \in CallsOf[t] : Execution(t, c)
           \/ Interrupt \/ CoolDown \/ UNCHANGED vars
    PROVE  AnswerInv'
<1>1. UNCHANGED <<pc, calls, input, outputs>>
  BY DEF Reader, Execution, Ask, Takes, TakeEvent, TakeCalls, TakeEnd, Execute, LeaveInterrupted,
     LeaveAfterCheckpoint, Leaves, StartSubagent, SubmitResult, Interrupt, CoolDown, vars, generators, conversation
<1>2. pending' = pending \/ \E t \in Turns, c \in Calls : pending' = [pending EXCEPT ![t] = @ \ {c}]
  <2>1. \A t \in Turns : CallsOf[t] \subseteq Calls
    BY DEF Calls
  <2> QED BY <2>1
     DEF Reader, Execution, Ask, Takes, TakeEvent, TakeCalls, TakeEnd, Execute, LeaveInterrupted,
     LeaveAfterCheckpoint, Leaves, StartSubagent, SubmitResult, Interrupt, CoolDown, vars, generators, conversation
<1>3. pending' \in SetsOfCalls /\ \A t \in Turns : pending[t] = {} => pending'[t] = {}
  BY <1>2 DEF AnswerInv, SetsOfCalls
<1> QED BY <1>1, <1>3 DEF AnswerInv

LEMMA InitAnswers == Init => AnswerInv
<1>1. SUFFICES ASSUME Init PROVE AnswerInv
  OBVIOUS
<1>2. /\ pc = [t \in Turns |-> "building"] /\ calls = [t \in Turns |-> {}]
      /\ input = [t \in Turns |-> {}] /\ outputs = [t \in Turns |-> {}] /\ pending = [t \in Turns |-> {}]
  BY <1>1 DEF Init
<1> QED BY <1>2 DEF AnswerInv, SetsOfCalls, Places

\* Whichever order results come in, before the step ends or long after, and whoever is
\* interrupted: a request replays an output for each call it replays, and no other
\* (waitForToolResultSubmissions and the replay items in turnSession.ts).
THEOREM RequestsAreAnswered == Spec => []RequestsAnswerTheirCalls
<1>1. AnswerInv /\ [Next]_vars => AnswerInv'
  BY GeneratorKeepsAnswers, EngineKeepsAnswers DEF Next
<1>2. AnswerInv => RequestsAnswerTheirCalls
  BY DEF AnswerInv, RequestsAnswerTheirCalls
<1> QED BY InitAnswers, <1>1, <1>2, PTL DEF Spec

-----------------------------------------------------------------------------
(* Types.                                                                  *)

EngineTypes ==
    /\ asked \in [Turns -> BOOLEAN]
    /\ reader \in [Turns -> {"none", "reading", "left"}]
    /\ queued \in SetsOfCalls /\ batch \in SetsOfCalls /\ executing \in SetsOfCalls
    /\ aborted \in BOOLEAN

\* A generator stops when it hands an event over, and takes what it waited for.
LEMMA GeneratorKeepsTypes ==
    ASSUME EngineTypes, NEW t \in Turns, Generator(t)
    PROVE  EngineTypes'
<1>1. asked' = asked \/ asked' = [asked EXCEPT ![t] = FALSE]
  BY DEF Generator, BuildRequest, ReachStepLimit, AcquireSlot, WaitForSlot, SlotWaitInterrupted,
     RequestAnswered, RequestRetried, RequestFails, RetryDelayEnds, RetryDelayInterrupted, StreamText,
     StreamCalls, StreamFails, FinalStepEnds, CallStepEnds, ResultWaitInterrupted, AnswerCalls,
     CloseGenerator, Goes, Throw, Yield, generators
<1>2. queued' = queued \/ queued' = [queued EXCEPT ![t] = @ \ calls[t]]
  BY DEF Generator, BuildRequest, ReachStepLimit, AcquireSlot, WaitForSlot, SlotWaitInterrupted,
     RequestAnswered, RequestRetried, RequestFails, RetryDelayEnds, RetryDelayInterrupted, StreamText,
     StreamCalls, StreamFails, FinalStepEnds, CallStepEnds, ResultWaitInterrupted, AnswerCalls,
     CloseGenerator, generators, conversation
<1>3. UNCHANGED <<reader, batch, executing, aborted>>
  BY DEF Generator, BuildRequest, ReachStepLimit, AcquireSlot, WaitForSlot, SlotWaitInterrupted,
     RequestAnswered, RequestRetried, RequestFails, RetryDelayEnds, RetryDelayInterrupted, StreamText,
     StreamCalls, StreamFails, FinalStepEnds, CallStepEnds, ResultWaitInterrupted, AnswerCalls,
     CloseGenerator, engine
<1>4. asked' \in [Turns -> BOOLEAN]
  BY <1>1 DEF EngineTypes
<1>5. queued' \in SetsOfCalls
  BY <1>2 DEF EngineTypes, SetsOfCalls
<1> QED BY <1>3, <1>4, <1>5 DEF EngineTypes

LEMMA ReaderKeepsTypes ==
    ASSUME EngineTypes, inbox \in [Turns -> Events], NEW t \in Turns, Reader(t)
    PROVE  EngineTypes'
<1>1. inbox[t].calls \in SUBSET Calls /\ batch[t] \in SUBSET Calls
  BY DEF Events, EngineTypes, SetsOfCalls
<1>2. \A cs \in SUBSET Calls : /\ [batch EXCEPT ![t] = cs] \in SetsOfCalls
                             /\ [executing EXCEPT ![t] = cs] \in SetsOfCalls
  BY DEF EngineTypes, SetsOfCalls
<1>3. [asked EXCEPT ![t] = TRUE] \in [Turns -> BOOLEAN]
  BY DEF EngineTypes
<1>4. [reader EXCEPT ![t] = "left"] \in [Turns -> {"none", "reading", "left"}]
  BY DEF EngineTypes
<1>5. batch[t] \cup inbox[t].calls \in SUBSET Calls
  BY <1>1
<1>6. CASE Ask(t)
  BY <1>3, <1>6 DEF Ask, EngineTypes, engine, conversation
<1>7. CASE TakeEvent(t)
  BY <1>7 DEF TakeEvent, Takes, EngineTypes, conversation
<1>8. CASE TakeCalls(t)
  BY <1>1, <1>2, <1>5, <1>8 DEF TakeCalls, Takes, EngineTypes, conversation
<1>9. CASE TakeEnd(t)
  BY <1>2, <1>4, <1>9 DEF TakeEnd, Takes, EngineTypes, conversation
<1>10. CASE Execute(t)
  BY <1>1, <1>2, <1>10 DEF Execute, EngineTypes, generators, conversation
<1>11. CASE LeaveInterrupted(t) \/ LeaveAfterCheckpoint(t)
  <2>1. Leaves(t)
    BY <1>11 DEF LeaveInterrupted, LeaveAfterCheckpoint
  <2> QED BY <1>2, <1>4, <2>1 DEF Leaves, EngineTypes, conversation
<1> QED BY <1>6, <1>7, <1>8, <1>9, <1>10, <1>11 DEF Reader

LEMMA RestKeepsTypes ==
    ASSUME EngineTypes,
           \/ \E t \in Turns : \E c \in CallsOf[t] : Execution(t, c)
           \/ Interrupt \/ CoolDown \/ UNCHANGED vars
    PROVE  EngineTypes'
<1>1. CASE \E t \in Turns : \E c \in CallsOf[t] : Execution(t, c)
  <2>0. PICK t \in Turns : \E c \in CallsOf[t] : Execution(t, c)
    BY <1>1
  <2>1. PICK c \in CallsOf[t] : Execution(t, c)
    BY <2>0
  <2>2. c \in Calls
    BY DEF Calls
  <2>3. CASE StartSubagent(t, c)
    <3>1. UNCHANGED <<asked, queued, batch, executing, aborted>>
      BY <2>3 DEF StartSubagent, generators, conversation
    <3>2. reader' \in [Turns -> {"none", "reading", "left"}]
      BY <2>3 DEF StartSubagent, EngineTypes
    <3> QED BY <3>1, <3>2 DEF EngineTypes
  <2>4. CASE SubmitResult(t, c)
    <3>1. UNCHANGED <<asked, reader, batch, aborted>>
      BY <2>4 DEF SubmitResult
    <3>2. executing' \in SetsOfCalls /\ queued' \in SetsOfCalls
      BY <2>2, <2>4 DEF SubmitResult, EngineTypes, SetsOfCalls
    <3> QED BY <3>1, <3>2 DEF EngineTypes
  <2> QED BY <2>1, <2>3, <2>4 DEF Execution
<1>2. CASE Interrupt \/ CoolDown \/ UNCHANGED vars
  BY <1>2 DEF Interrupt, CoolDown, vars, generators, engine, conversation, EngineTypes
<1> QED BY <1>1, <1>2

\* Every variable stays in its range: the adaptive limit between one slot and the
\* configured most, the steps of a turn and the attempts of a request within their
\* limits (openAiRateLimitCoordinator.ts, turnSession.ts, openAiHttpRetry.ts).
THEOREM TypeCorrect == Spec => []TypeOK
<1> DEFINE I == CoordinatorInv /\ NumberInv /\ AnswerInv /\ EngineTypes
<1>1. Init => I
  <2>1. SUFFICES ASSUME Init PROVE I
    OBVIOUS
  <2>2. CoordinatorInv /\ NumberInv /\ AnswerInv
    BY <2>1, InitCoordinator, InitNumbers, InitAnswers
  <2>3. /\ asked = [t \in Turns |-> FALSE] /\ queued = [t \in Turns |-> {}]
        /\ reader = [t \in Turns |-> IF t = Main THEN "reading" ELSE "none"]
        /\ batch = [t \in Turns |-> {}] /\ executing = [t \in Turns |-> {}] /\ aborted = FALSE
    BY <2>1 DEF Init
  <2>4. EngineTypes
    BY <2>3 DEF EngineTypes, SetsOfCalls
  <2> QED BY <2>2, <2>4
<1>2. I /\ [Next]_vars => I'
  BY GeneratorKeepsCoordinator, EngineKeepsCoordinator, GeneratorKeepsNumbers, EngineKeepsNumbers,
     GeneratorKeepsAnswers, EngineKeepsAnswers, GeneratorKeepsTypes, ReaderKeepsTypes, RestKeepsTypes
     DEF Next, NumberInv
<1>3. I => TypeOK
  <2>1. SUFFICES ASSUME I PROVE TypeOK
    OBVIOUS
  <2>2. \A t \in Turns : texts[t] \in 0 .. MaxTexts[t]
    BY <2>1 DEF NumberInv, Numbers
  <2> QED BY <2>1, <2>2 DEF TypeOK, CoordinatorInv, NumberInv, Numbers, AnswerInv, EngineTypes,
     SetsOfCalls, Events, Places
<1> QED BY <1>1, <1>2, <1>3, PTL DEF Spec
=============================================================================
