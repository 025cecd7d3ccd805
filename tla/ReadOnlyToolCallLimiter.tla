---------------------- MODULE ReadOnlyToolCallLimiter ----------------------
(***************************************************************************)
(* The limiter that every read-only tool call of the runtime goes through: *)
(* the calls of the turn, those of its subagents, and custom tools.  A     *)
(* call takes one of MaxTotal slots and one of those of its category, or   *)
(* waits in a queue; a call that settles gives its slots to the first      *)
(* waiting call that fits.  A waiting call cannot be withdrawn: an         *)
(* interruption only makes its operation fail once it has its slot.        *)
(*                                                                         *)
(* All of it runs on one thread, so a handler is one step; what            *)
(* interleaves is the calls, the microtask in which a call that got its    *)
(* slot goes on, and the settling of operations.                           *)
(***************************************************************************)
EXTENDS Integers, FiniteSets, SequencesExt

CONSTANTS
    Runs,        \* calls of run(); each may be made again once it settled
    CategoryOf,  \* the category each is accounted under
    MaxTotal,    \* maximumConcurrentReadOnlyToolCalls
    MaxRead,     \* the limit of the category "read"
    MaxSearch    \* the limit of the category "search"

Categories == {"read", "search"}
MaxOf == [c \in Categories |-> IF c = "read" THEN MaxRead ELSE MaxSearch]

\* The search limit when the constructor is given none.
DefaultMaxSearch(total) ==
    LET quarter == IF total \div 4 < 2 THEN 2 ELSE total \div 4
    IN  IF total < quarter THEN total ELSE quarter

ASSUME RunsAssumption == IsFiniteSet(Runs)
ASSUME CategoryAssumption == CategoryOf \in [Runs -> Categories]
ASSUME LimitsAssumption == MaxTotal \in Nat \ {0} /\ MaxOf \in [Categories -> Nat \ {0}]

VARIABLES
    stage,        \* where each run() is
    activeCount,  \* activeReadOnlyToolCallCount
    activeOf,     \* activeReadOnlyToolCallCountByCategory
    pending       \* pendingReadOnlyToolCallSlotRequests, oldest first
vars == <<stage, activeCount, activeOf, pending>>

Init ==
    /\ stage = [r \in Runs |-> "idle"]
    /\ activeCount = 0
    /\ activeOf = [c \in Categories |-> 0]
    /\ pending = <<>>

CanAcquire(total, of, c) == total < MaxTotal /\ of[c] < MaxOf[c]

\* Positions of the waiting calls that would get a slot.
Runnable(total, of, queue) == {i \in DOMAIN queue : CanAcquire(total, of, CategoryOf[queue[i]])}

\* Mutant: findLastIndex for findIndex.
LastForFirst(positions) == CHOOSE i \in positions : \A j \in positions : i >= j

First(positions) == CHOOSE i \in positions : \A j \in positions : i <= j

-----------------------------------------------------------------------------
\* run() asks for a slot; the counters move before the caller goes on.
Acquire(r) ==
    /\ stage[r] = "idle"
    /\ CanAcquire(activeCount, activeOf, CategoryOf[r])
    /\ stage' = [stage EXCEPT ![r] = "granted"]
    /\ activeCount' = activeCount + 1
    /\ activeOf' = [activeOf EXCEPT ![CategoryOf[r]] = @ + 1]
    /\ UNCHANGED pending

\* Mutant: the waiting call is not queued.
EnqueueNowhere(r) ==
    /\ stage[r] = "idle"
    /\ ~CanAcquire(activeCount, activeOf, CategoryOf[r])
    /\ stage' = [stage EXCEPT ![r] = "waiting"]
    /\ UNCHANGED <<activeCount, activeOf, pending>>

Enqueue(r) ==
    /\ stage[r] = "idle"
    /\ ~CanAcquire(activeCount, activeOf, CategoryOf[r])
    /\ stage' = [stage EXCEPT ![r] = "waiting"]
    /\ pending' = Append(pending, r)
    /\ UNCHANGED <<activeCount, activeOf>>

\* The awaited slot promise has resolved: the operation starts.
Start(r) ==
    /\ stage[r] = "granted"
    /\ stage' = [stage EXCEPT ![r] = "running"]
    /\ UNCHANGED <<activeCount, activeOf, pending>>

\* Mutant: a release that serves the queue only when its head fits.
SettleHeadOnly(r) ==
    LET total == activeCount - 1
        of    == [activeOf EXCEPT ![CategoryOf[r]] = @ - 1]
    IN  /\ stage[r] = "running"
        /\ IF 1 \in Runnable(total, of, pending)
           THEN /\ stage' = [stage EXCEPT ![r] = "idle", ![pending[1]] = "granted"]
                /\ activeCount' = total + 1
                /\ activeOf' = [of EXCEPT ![CategoryOf[pending[1]]] = @ + 1]
                /\ pending' = Tail(pending)
           ELSE /\ stage' = [stage EXCEPT ![r] = "idle"]
                /\ activeCount' = total
                /\ activeOf' = of
                /\ UNCHANGED pending

\* The operation returned or threw; either way the slot is released and the
\* queue served.  The loop that serves it goes on while a waiting call fits;
\* by NoIdleSlot none does after one round, so the loop goes round once.
Settle(r) ==
    LET total    == activeCount - 1
        of       == [activeOf EXCEPT ![CategoryOf[r]] = @ - 1]
        runnable == Runnable(total, of, pending)
        first    == First(runnable)
        next     == pending[first]
    IN  /\ stage[r] = "running"
        /\ \/ /\ runnable = {}
              /\ stage' = [stage EXCEPT ![r] = "idle"]
              /\ activeCount' = total
              /\ activeOf' = of
              /\ UNCHANGED pending
           \/ /\ runnable # {}
              /\ stage' = [stage EXCEPT ![r] = "idle", ![next] = "granted"]
              /\ activeCount' = total + 1
              /\ activeOf' = [of EXCEPT ![CategoryOf[next]] = @ + 1]
              /\ pending' = RemoveAt(pending, first)

Next == \E r \in Runs : Acquire(r) \/ Enqueue(r) \/ Start(r) \/ Settle(r)

\* Microtasks run, and every operation settles: a tool call that hangs for
\* ever keeps its slot for ever.
Fairness == \A r \in Runs : WF_vars(Start(r)) /\ WF_vars(Settle(r))

Spec == Init /\ [][Next]_vars
FairSpec == Spec /\ Fairness

-----------------------------------------------------------------------------
Stages == {"idle", "waiting", "granted", "running"}

TypeOK ==
    /\ stage \in [Runs -> Stages]
    /\ activeCount \in Nat
    /\ activeOf \in [Categories -> Nat]
    /\ pending \in Seq(Runs)

Holders == {r \in Runs : stage[r] \in {"granted", "running"}}
HoldersOf(c) == {r \in Holders : CategoryOf[r] = c}

\* No more calls hold a slot than the limits allow, in all and per category,
\* and the counters are those numbers: no slot is lost, leaked or given twice
\* (the increments of acquireAvailableReadOnlyToolCallSlot and the decrements
\* of releaseReadOnlyToolCallSlot match, whoever's turn it is).
SlotsAreCounted ==
    /\ activeCount = Cardinality(Holders) /\ activeCount <= MaxTotal
    /\ \A c \in Categories : activeOf[c] = Cardinality(HoldersOf(c)) /\ activeOf[c] <= MaxOf[c]

\* A call waits only while its limits are used up: no free slot that a waiting
\* call fits in stays free after a handler, although acquireReadOnlyToolCallSlot
\* looks at the limits and never at the queue, and a release of one category
\* may serve another.
NoIdleSlot == Runnable(activeCount, activeOf, pending) = {}

\* Slots are neither lost nor idle: the counters of the limiter are the calls that
\* hold slots, and no waiting call fits into what they leave.
SlotsAreUsed == SlotsAreCounted /\ NoIdleSlot

\* The queue is served in the order of arrival within a category: no call gets
\* a slot, on arrival or from the queue, while an older one of its category
\* waits.
FirstComeFirstServed ==
    [][\A r \in Runs : stage[r] \notin {"granted", "running"} /\ stage'[r] = "granted" =>
         \A i \in DOMAIN pending :
            CategoryOf[pending[i]] = CategoryOf[r] =>
                pending[i] = r \/ \E j \in DOMAIN pending : j < i /\ pending[j] = r]_vars

\* A call does not starve, although reads pass a saturated search category and
\* calls keep coming.
CallStarts(r) == stage[r] = "waiting" ~> stage[r] = "running"

=============================================================================
