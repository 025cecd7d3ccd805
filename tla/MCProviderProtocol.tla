-------------------------- MODULE MCProviderProtocol --------------------------
(***************************************************************************)
(* Two instances of ProviderProtocol for one run: in the scenario "turn" a *)
(* turn streams events and asks for tool calls, and no list is asked for;  *)
(* in the scenario "lists" the list of models is asked for beside a turn   *)
(* without events.                                                         *)
(***************************************************************************)
EXTENDS ProviderProtocol

VARIABLE scenario

L == INSTANCE ProviderProtocol WITH CallEvent <- 0, MaxEvents <- 0, TooLong <- {"models", "closed"}

\* A step of the one or of the other, by the scenario.
Either(A, B) ==
    /\ (scenario = "turn" /\ A) \/ (scenario = "lists" /\ B)
    /\ UNCHANGED scenario

MCInit == Init /\ scenario \in {"turn", "lists"}
MCNext == Either(Next /\ UNCHANGED modelList, L!Next)

MCVars == <<vars, scenario>>

MCFairness ==
    /\ \A t \in Turns :
        /\ WF_MCVars(Either(EngineStep(t), L!EngineStep(t)))
        /\ WF_MCVars(Either(SubmissionFailed(t) /\ StopReading(t), FALSE))
        /\ WF_MCVars(Either(StreamStep(t), L!StreamStep(t)))
        /\ WF_MCVars(Either(hostAborted[t] /\ FailStream(t), hostAborted[t] /\ L!FailStream(t)))
    /\ \A r \in Requests : WF_MCVars(Either(TimesOut(r), L!TimesOut(r)))
    /\ \A l \in Lists : WF_MCVars(Either(FALSE, L!ListFails(l)))
    /\ WF_MCVars(Either(Route, L!Route))
    /\ WF_MCVars(Either(PumpEnds, L!PumpEnds))
    /\ WF_MCVars(Either(HostStep, L!HostStep))

MCSpec == MCInit /\ [][MCNext]_MCVars /\ MCFairness
=============================================================================
