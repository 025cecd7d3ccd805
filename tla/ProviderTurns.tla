---------------------------- MODULE ProviderTurns ----------------------------
(***************************************************************************)
(* What the engine relies on when it reads the stream of a provider turn,  *)
(* whether the provider runs in its own process or behind a transport: the *)
(* events of the turn arrive in their order and without a gap, a stream    *)
(* that ends normally has delivered all of them, and nothing arrives after *)
(* the end.                                                                *)
(***************************************************************************)
EXTENDS Integers

CONSTANTS
    Turns,      \* provider turns
    MaxEvents   \* bound: events of one turn

VARIABLES
    emitted,    \* how many events the provider has produced for each turn
    finished,   \* whether the provider ended the stream of the turn normally
    delivered,  \* how many events the engine was handed
    outcome     \* what the engine knows of the turn

vars == <<emitted, finished, delivered, outcome>>

Init ==
    /\ emitted = [t \in Turns |-> 0]
    /\ finished = [t \in Turns |-> FALSE]
    /\ delivered = [t \in Turns |-> 0]
    /\ outcome = [t \in Turns |-> "open"]

Emit(t) ==
    /\ ~finished[t]
    /\ emitted[t] < MaxEvents
    /\ emitted' = [emitted EXCEPT ![t] = @ + 1]
    /\ UNCHANGED <<finished, delivered, outcome>>

Finish(t) ==
    /\ ~finished[t]
    /\ finished' = [finished EXCEPT ![t] = TRUE]
    /\ UNCHANGED <<emitted, delivered, outcome>>

Deliver(t) ==
    /\ outcome[t] = "open"
    /\ delivered[t] < emitted[t]
    /\ delivered' = [delivered EXCEPT ![t] = @ + 1]
    /\ UNCHANGED <<emitted, finished, outcome>>

\* The stream ends normally for the engine.
Complete(t) ==
    /\ outcome[t] = "open"
    /\ finished[t]
    /\ delivered[t] = emitted[t]
    /\ outcome' = [outcome EXCEPT ![t] = "completed"]
    /\ UNCHANGED <<emitted, finished, delivered>>

\* The stream throws, or the engine stops reading it.
Break(t) ==
    /\ outcome[t] = "open"
    /\ \E o \in {"failed", "left"} : outcome' = [outcome EXCEPT ![t] = o]
    /\ UNCHANGED <<emitted, finished, delivered>>

Next == \E t \in Turns :
    Emit(t) \/ Finish(t) \/ Deliver(t) \/ Complete(t) \/ Break(t)

Spec == Init /\ [][Next]_vars
=============================================================================
