---------------------- MODULE OpenAiRateLimitCoordinator ----------------------
(***************************************************************************)
(* The coordinator that all turns of one OpenAI provider share             *)
(* (openAiRateLimitCoordinator.ts).  A turn needs a slot to stream a       *)
(* response step.  The number of slots shrinks when a response says that   *)
(* a limit is exhausted and grows again with good responses; a cool-down   *)
(* stops new slots for a while.  A turn that gets no slot sleeps until the *)
(* coordinator changes, and until a timer if there is a cool-down.         *)
(*                                                                         *)
(* The operators below are the parts of the steps of a turn that concern   *)
(* the coordinator; OpenAiTurns composes them.                             *)
(***************************************************************************)
EXTENDS Integers, FiniteSets

CONSTANTS
    Turns,      \* provider turns that share the coordinator
    MaxSlots    \* maximumConcurrentResponseStepStreams

ASSUME MaxSlotsAssumption == MaxSlots \in Nat \ {0}
ASSUME TurnsAreFinite == IsFiniteSet(Turns)

VARIABLES
    limit,      \* currentConcurrentResponseStepStreamLimit
    active,     \* activeResponseStepStreamCount
    cooling,    \* requestCooldownUntilMs lies ahead
    waiting     \* how each turn waits for a slot

coordinator == <<limit, active, cooling, waiting>>

CoordinatorTypeOK ==
    /\ limit \in 1 .. MaxSlots
    /\ active \in Nat
    /\ cooling \in BOOLEAN
    /\ waiting \in [Turns -> {"no", "checking", "asleep", "timed"}]

CoordinatorInit ==
    /\ limit = MaxSlots
    /\ active = 0
    /\ cooling = FALSE
    /\ waiting = [t \in Turns |-> "no"]

\* notifyCoordinatorStateChanged: every sleeper looks again.
Woken == [t \in Turns |-> IF waiting[t] \in {"asleep", "timed"} THEN "checking" ELSE waiting[t]]

-----------------------------------------------------------------------------
(* acquireResponseStepStreamSlot: the loop of one turn. *)

StartAcquiring(t) ==
    /\ waiting' = [waiting EXCEPT ![t] = "checking"]
    /\ UNCHANGED <<limit, active, cooling>>

HasFreeSlot == active < limit /\ ~cooling

TakeSlot(t) ==
    /\ waiting[t] = "checking"
    /\ HasFreeSlot
    /\ active' = active + 1
    /\ waiting' = [waiting EXCEPT ![t] = "no"]
    /\ UNCHANGED <<limit, cooling>>

FallAsleep(t) ==
    /\ waiting[t] = "checking"
    /\ ~HasFreeSlot
    /\ waiting' = [waiting EXCEPT ![t] = IF cooling THEN "timed" ELSE "asleep"]
    /\ UNCHANGED <<limit, active, cooling>>

\* The timer of the wait fires; the cool-down may have grown since it was set.
TimerFires(t) ==
    /\ waiting[t] = "timed"
    /\ waiting' = [waiting EXCEPT ![t] = "checking"]
    /\ UNCHANGED <<limit, active, cooling>>

\* The abort signal of the turn ends its wait.
GiveUp(t) ==
    /\ waiting[t] # "no"
    /\ waiting' = [waiting EXCEPT ![t] = "no"]
    /\ UNCHANGED <<limit, active, cooling>>

CooldownEnds ==
    /\ cooling
    /\ cooling' = FALSE
    /\ UNCHANGED <<limit, active, waiting>>

-----------------------------------------------------------------------------
(* What the headers of a response tell the coordinator. *)

\* "exhausted": no requests or tokens remain; "throttled": status 429;
\* "retry after": only a cool-down; "plenty": requests remain.
Signals == {"nothing", "exhausted", "throttled", "retry after", "plenty"}

Halved == IF limit > 1 THEN limit \div 2 ELSE 1
Raised == IF limit < MaxSlots THEN limit + 1 ELSE limit

LimitAfter(signal) ==
    CASE signal \in {"exhausted", "throttled"} -> Halved
      [] signal = "plenty" -> Raised
      [] OTHER -> limit

\* An exhausted limit without a reset time, or a 429 without a retry-after,
\* gives no cool-down.
CoolsAfter(signal) ==
    cooling' \in IF signal = "retry after" THEN {TRUE}
                ELSE IF signal \in {"exhausted", "throttled"} THEN {cooling, TRUE}
                ELSE {cooling}

\* observeResponseHeaders, the turn keeps its slot.
Observe(signal) ==
    /\ limit' = LimitAfter(signal)
    /\ CoolsAfter(signal)
    /\ waiting' = IF limit' > limit THEN Woken ELSE waiting
    /\ UNCHANGED active

\* A release that tells nobody.
ReleaseQuietly ==
    /\ active' = IF active > 0 THEN active - 1 ELSE 0
    /\ UNCHANGED <<limit, cooling, waiting>>

\* releaseResponseStepStreamSlot.
Release ==
    /\ active' = IF active > 0 THEN active - 1 ELSE 0
    /\ waiting' = Woken
    /\ UNCHANGED <<limit, cooling>>

\* The response is observed and the turn then gives its slot back.
ObserveAndRelease(signal) ==
    /\ limit' = LimitAfter(signal)
    /\ CoolsAfter(signal)
    /\ active' = IF active > 0 THEN active - 1 ELSE 0
    /\ waiting' = Woken

-----------------------------------------------------------------------------
\* A turn that sleeps with no timer has no slot to take: whatever gives it one
\* wakes it.  A wake-up lost between the check and the registration of the
\* sleeper, or a change that tells nobody, would leave it asleep for ever.
NoSleeperIsForgotten ==
    \A t \in Turns : waiting[t] = "asleep" => active >= limit
=============================================================================
