--------------------------- MODULE ProviderProtocol ---------------------------
(***************************************************************************)
(* The provider protocol: the engine's client (providerProtocolClient.ts), *)
(* the provider host that runs in a process of its own                     *)
(* (providerProtocolHost.ts), and the two pipes between them.              *)
(*                                                                         *)
(* The client sends requests (start a turn, submit a tool result, cancel a *)
(* turn, list models) and waits for the acknowledgement of each, at most   *)
(* for a time limit.  The host handles one request at a time; a turn it    *)
(* started streams numbered events, then closes.  A pump in the client     *)
(* routes what comes back to the request or the turn it is about, and the  *)
(* engine reads a turn from a queue.                                       *)
(*                                                                         *)
(* The pipes keep their order.  The host process may die at any time, what *)
(* it wrote is still read.                                                 *)
(***************************************************************************)
EXTENDS Integers, Sequences

CONSTANTS
    Turns,      \* provider turns the engine starts
    Calls,      \* tool calls that event CallEvent of a turn asks for
    CallEvent,  \* the number of that event; 0 if turns have no tool calls
    MaxEvents,  \* bound: events of one turn
    Lists,      \* requests for the list of models
    TooLong     \* kinds of requests and frames whose line may exceed the limit of a line

ASSUME BoundsAssumption == CallEvent \in 0 .. MaxEvents /\ MaxEvents \in Nat

StartOf(t) == [kind |-> "start", of |-> t, call |-> "none"]
CancelOf(t) == [kind |-> "cancel", of |-> t, call |-> "none"]
SubmitOf(t, c) == [kind |-> "submit", of |-> t, call |-> c]
ListOf(l) == [kind |-> "list", of |-> l, call |-> "none"]
Requests == {StartOf(t) : t \in Turns} \cup {CancelOf(t) : t \in Turns}
              \cup {SubmitOf(t, c) : t \in Turns, c \in Calls} \cup {ListOf(l) : l \in Lists}
NoRequest == [kind |-> "none", of |-> "none", call |-> "none"]
NoTurn == "none"

\* A host that fetches the list l is in the state l (see host).
ASSUME NamesAssumption ==
    NoTurn \notin Turns /\ Lists \cap {"serving", "stopping", "exited"} = {}

VARIABLES
    \* the client
    request,    \* what became of each request; "waiting" ones are the pending acknowledgements
    modelList,  \* what became of the list each "list" request waits for
    pump,       \* whether the pump still routes frames
    reader,     \* where the engine's reading of the turn is
    hasTurnEnded,
    expected,   \* nextExpectedProviderEventSequenceNumber
    items,      \* turnStreamItems, the part not read yet
    isClosed,   \* whether that queue takes no more items
    delivered,  \* how many events the engine was handed
    aborted,    \* the abort signal of the turn
    \* the pipes
    stdin,      \* "open", or "closed" by the disposal of the transport
    toHost, toClient,
    \* the host
    host,       \* what the host process does
    hostTurn,   \* where the host's stream of the turn is
    hostAborted,
    sequence,   \* providerEventSequenceNumber
    finished,   \* the stream of the turn ended normally
    results     \* tool results the provider turn got

queue == <<hasTurnEnded, expected, items, isClosed>>
client == <<request, modelList, pump, reader, queue, delivered, aborted>>
hostState == <<hostTurn, hostAborted, sequence, finished, results>>
vars == <<client, stdin, toHost, toClient, host, hostState>>

Init ==
    /\ request = [r \in Requests |-> "unsent"]
    /\ modelList = [l \in Lists |-> "none"]
    /\ pump = "running"
    /\ reader = [t \in Turns |-> "none"]
    /\ hasTurnEnded = [t \in Turns |-> FALSE]
    /\ expected = [t \in Turns |-> 1]
    /\ items = [t \in Turns |-> <<>>]
    /\ isClosed = [t \in Turns |-> FALSE]
    /\ delivered = [t \in Turns |-> 0]
    /\ aborted = [t \in Turns |-> FALSE]
    /\ stdin = "open"
    /\ toHost = <<>>
    /\ toClient = <<>>
    /\ host = "serving"
    /\ hostTurn = [t \in Turns |-> "none"]
    /\ hostAborted = [t \in Turns |-> FALSE]
    /\ sequence = [t \in Turns |-> 0]
    /\ finished = [t \in Turns |-> FALSE]
    /\ results = [t \in Turns |-> {}]

-----------------------------------------------------------------------------
(* Frames and queue items. *)

Item(kind, n) == [item |-> kind, number |-> n]
Frame(kind, r, t, n) == [frame |-> kind, request |-> r, turn |-> t, number |-> n]
Ack(r) == Frame("acknowledged", r, NoTurn, 0)
Refusal(r) == Frame("error", r, IF r.kind = "list" THEN NoTurn ELSE r.of, 0)

\* activeProviderTurnsById: from the start of a turn to its disposal.
Reading == {"starting", "reading", "holding"}
Registered(t) == reader[t] \in Reading
Settled == {"acknowledged", "refused", "timed out"}

\* A request is registered as pending, then written.  A pipe the client has
\* closed refuses the write, one whose reader died may.
SendAll(rs) ==
    \/ /\ stdin = "open"
       /\ toHost' = toHost \o rs
       /\ request' = [r \in Requests |-> IF \E i \in 1 .. Len(rs) : rs[i] = r THEN "waiting" ELSE request[r]]
    \/ /\ stdin = "closed" \/ host = "exited"
       /\ request' = [r \in Requests |-> IF \E i \in 1 .. Len(rs) : rs[i] = r THEN "refused" ELSE request[r]]
       /\ UNCHANGED toHost

-----------------------------------------------------------------------------
(* The client: requests of the engine. *)

\* startConversationTurn: the abort listener goes before the start request,
\* and an abort signal that has fired already sends the cancellation first.
Start(t) ==
    /\ reader[t] = "none"
    /\ reader' = [reader EXCEPT ![t] = "starting"]
    /\ SendAll((IF aborted[t] THEN <<CancelOf(t)>> ELSE <<>>) \o <<StartOf(t)>>)
    /\ UNCHANGED <<modelList, pump, queue, delivered, aborted, stdin, toClient, host, hostState>>

\* The user interrupts; the listener is there while the turn is registered.
Abort(t) ==
    /\ ~aborted[t]
    /\ aborted' = [aborted EXCEPT ![t] = TRUE]
    /\ IF Registered(t) /\ ~hasTurnEnded[t] THEN SendAll(<<CancelOf(t)>>)
       ELSE UNCHANGED <<request, toHost>>
    /\ UNCHANGED <<modelList, pump, reader, queue, delivered, stdin, toClient, host, hostState>>

\* dispose: the turn takes nothing more and is forgotten.
Dispose(t, end) ==
    /\ reader' = [reader EXCEPT ![t] = end]
    /\ hasTurnEnded' = [hasTurnEnded EXCEPT ![t] = TRUE]
    /\ isClosed' = [isClosed EXCEPT ![t] = TRUE]

\* The engine's reading goes on once the start request is settled.
StartSettled(t) ==
    /\ reader[t] = "starting"
    /\ request[StartOf(t)] \in Settled
    /\ IF request[StartOf(t)] = "acknowledged"
       THEN reader' = [reader EXCEPT ![t] = "reading"] /\ UNCHANGED <<hasTurnEnded, isClosed>>
       ELSE Dispose(t, "failed")
    /\ UNCHANGED <<request, modelList, pump, expected, items, delivered, aborted,
                   stdin, toHost, toClient, host, hostState>>

\* What the queue gives next; a closed queue that is empty gives the end.
NextKind(t) == IF items[t] = <<>> THEN "closed" ELSE Head(items[t]).item

\* Reading takes the next item: an event goes to the engine, which holds it
\* until it asks for more; the end of the turn ends the stream.
Read(t) ==
    /\ reader[t] = "reading"
    /\ IF items[t] # <<>> THEN items' = [items EXCEPT ![t] = Tail(@)] ELSE isClosed[t] /\ UNCHANGED items
    /\ \/ /\ NextKind(t) = "event"
          /\ reader' = [reader EXCEPT ![t] = "holding"]
          /\ delivered' = [delivered EXCEPT ![t] = @ + 1]
          /\ UNCHANGED <<hasTurnEnded, isClosed>>
       \/ NextKind(t) = "closed" /\ Dispose(t, "completed") /\ UNCHANGED delivered
       \/ NextKind(t) \notin {"event", "closed"} /\ Dispose(t, "failed") /\ UNCHANGED delivered
    /\ UNCHANGED <<request, modelList, pump, expected, aborted, stdin, toHost, toClient, host, hostState>>

\* The engine submits the result of a call of the event it holds.
SubmitToolResult(t, c) ==
    /\ reader[t] = "holding"
    /\ delivered[t] = CallEvent
    /\ request[SubmitOf(t, c)] = "unsent"
    /\ ~hasTurnEnded[t]
    /\ SendAll(<<SubmitOf(t, c)>>)
    /\ UNCHANGED <<modelList, pump, reader, queue, delivered, aborted,
                   stdin, toClient, host, hostState>>

\* The engine asks for the next event when the results it owes are acknowledged ...
ContinueReading(t) ==
    /\ reader[t] = "holding"
    /\ delivered[t] = CallEvent => \A c \in Calls : request[SubmitOf(t, c)] = "acknowledged"
    /\ reader' = [reader EXCEPT ![t] = "reading"]
    /\ UNCHANGED <<request, modelList, pump, queue, delivered, aborted,
                   stdin, toHost, toClient, host, hostState>>

\* ... or stops reading, because a submission failed or for reasons of its own.
StopReading(t) ==
    /\ reader[t] = "holding"
    /\ Dispose(t, "left")
    /\ UNCHANGED <<request, modelList, pump, expected, items, delivered, aborted,
                   stdin, toHost, toClient, host, hostState>>

ListModels(l) ==
    /\ request[ListOf(l)] = "unsent"
    /\ SendAll(<<ListOf(l)>>)
    /\ modelList' = [modelList EXCEPT ![l] = "waiting"]
    /\ UNCHANGED <<pump, reader, queue, delivered, aborted, stdin, toClient, host, hostState>>

\* listAvailableAssistantModels goes on when its request was not acknowledged:
\* the list is no longer waited for.
ListFails(l) ==
    /\ request[ListOf(l)] \in {"refused", "timed out"}
    /\ modelList[l] = "waiting"
    /\ modelList' = [modelList EXCEPT ![l] = "failed"]
    /\ UNCHANGED <<request, pump, reader, queue, delivered, aborted,
                   stdin, toHost, toClient, host, hostState>>

\* The time limit of a request passes before its acknowledgement.
TimesOut(r) ==
    /\ request[r] = "waiting"
    /\ request' = [request EXCEPT ![r] = "timed out"]
    /\ UNCHANGED <<modelList, pump, reader, queue, delivered, aborted,
                   stdin, toHost, toClient, host, hostState>>

\* The transport is disposed of at exit.
CloseTransport ==
    /\ stdin = "open"
    /\ stdin' = "closed"
    /\ UNCHANGED <<client, toHost, toClient, host, hostState>>

-----------------------------------------------------------------------------
(* The client: the pump. *)

\* enqueue: a closed queue drops the item.
Enqueued(t, item) == IF isClosed[t] THEN items[t] ELSE Append(items[t], item)

Ends(t, item) ==
    /\ items' = [items EXCEPT ![t] = Enqueued(t, item)]
    /\ hasTurnEnded' = [hasTurnEnded EXCEPT ![t] = TRUE]
    /\ isClosed' = [isClosed EXCEPT ![t] = TRUE]

SettledAs(r, how) == IF request[r] = "waiting" THEN [request EXCEPT ![r] = how] ELSE request

ReceiveAcknowledgement(f) ==
    /\ request' = SettledAs(f.request, "acknowledged")
    /\ UNCHANGED <<queue, modelList>>

ReceiveModels(f) ==
    /\ LET l == f.request.of
       IN  modelList' = [modelList EXCEPT ![l] = IF @ = "waiting" THEN "listed" ELSE @]
    /\ UNCHANGED <<queue, request>>

\* An event that is not the next one is an error of the turn.
ReceiveEvent(f) ==
    LET t == f.turn
    IN  /\ IF f.number # expected[t] THEN Ends(t, Item("wrong number", f.number)) /\ UNCHANGED expected
           ELSE /\ expected' = [expected EXCEPT ![t] = @ + 1]
                /\ items' = [items EXCEPT ![t] = Enqueued(t, Item("event", f.number))]
                /\ UNCHANGED <<hasTurnEnded, isClosed>>
        /\ UNCHANGED <<request, modelList>>

\* number is 0 when the frame has no finalSequenceNumber.
ReceiveClosed(f) ==
    LET t == f.turn
    IN  /\ IF f.number # 0 /\ f.number # expected[t] - 1 THEN Ends(t, Item("wrong number", f.number))
           ELSE Ends(t, Item("closed", 0))
        /\ UNCHANGED <<expected, request, modelList>>

\* A remote error rejects the request it names and ends the turn it names.
ReceiveError(f) ==
    /\ request' = IF f.request = NoRequest THEN request ELSE SettledAs(f.request, "refused")
    /\ modelList' = IF f.request.kind = "list"
                    THEN [modelList EXCEPT ![f.request.of] = IF @ = "waiting" THEN "failed" ELSE @]
                    ELSE modelList
    /\ IF f.turn # NoTurn /\ Registered(f.turn) THEN Ends(f.turn, Item("error", 0)) /\ UNCHANGED expected
       ELSE UNCHANGED queue

\* routeIncomingProviderFrame: events of a turn that is not registered are dropped.
Route ==
    /\ pump = "running"
    /\ toClient # <<>>
    /\ toClient' = Tail(toClient)
    /\ LET f == Head(toClient)
       IN  \/ f.frame = "acknowledged" /\ ReceiveAcknowledgement(f)
           \/ f.frame = "models" /\ ReceiveModels(f)
           \/ f.frame = "error" /\ ReceiveError(f)
           \/ f.frame = "event" /\ Registered(f.turn) /\ ReceiveEvent(f)
           \/ f.frame = "closed" /\ Registered(f.turn) /\ ReceiveClosed(f)
           \/ f.frame \in {"event", "closed"} /\ ~Registered(f.turn) /\ UNCHANGED <<queue, request, modelList>>
    /\ UNCHANGED <<pump, reader, delivered, aborted, stdin, toHost, host, hostState>>

\* The host's output ends, or its next line is refused as too long.
InputEnds == IF toClient = <<>> THEN host = "exited" ELSE Head(toClient).frame \in TooLong

\* Mutant: only requests are failed, the turns are not told.
PumpEndsQuietly ==
    /\ pump = "running" /\ InputEnds
    /\ pump' = "ended"
    /\ request' = [r \in Requests |-> IF request[r] = "waiting" THEN "refused" ELSE request[r]]
    /\ modelList' = [l \in Lists |-> IF modelList[l] = "waiting" THEN "failed" ELSE modelList[l]]
    /\ UNCHANGED <<reader, queue, delivered, aborted, stdin, toHost, toClient, host, hostState>>

\* failAllPendingProtocolWork, when the pump has no more input.  It does not
\* start again.
PumpEnds ==
    /\ pump = "running" /\ InputEnds
    /\ pump' = "ended"
    /\ request' = [r \in Requests |-> IF request[r] = "waiting" THEN "refused" ELSE request[r]]
    /\ modelList' = [l \in Lists |-> IF modelList[l] = "waiting" THEN "failed" ELSE modelList[l]]
    /\ items' = [t \in Turns |-> IF Registered(t) THEN Enqueued(t, Item("error", 0)) ELSE items[t]]
    /\ hasTurnEnded' = [t \in Turns |-> hasTurnEnded[t] \/ Registered(t)]
    /\ isClosed' = [t \in Turns |-> isClosed[t] \/ Registered(t)]
    /\ UNCHANGED <<reader, expected, delivered, aborted, stdin, toHost, toClient, host, hostState>>

-----------------------------------------------------------------------------
(* The host: one request at a time. *)

Active == {"streaming", "failing", "closing"}   \* in activeProviderTurnsById
SendToClient(fs) == toClient' = toClient \o fs

\* A turn is started, unless the provider throws.
HandleStart(r) ==
    \/ /\ hostTurn' = [hostTurn EXCEPT ![r.of] = "streaming"]
       /\ SendToClient(<<Ack(r)>>)
       /\ UNCHANGED <<host, hostAborted, sequence, finished, results>>
    \/ SendToClient(<<Refusal(r)>>) /\ UNCHANGED <<host, hostState>>

\* Mutant: a submission is acknowledged whether or not the turn is still there.
HandleSubmitBlindly(r) ==
    /\ SendToClient(<<Ack(r)>>)
    /\ results' = [results EXCEPT ![r.of] = IF hostTurn[r.of] \in Active THEN @ \cup {r.call} ELSE @]
    /\ UNCHANGED <<host, hostTurn, hostAborted, sequence, finished>>

HandleSubmit(r) ==
    IF hostTurn[r.of] \in Active
    THEN /\ results' = [results EXCEPT ![r.of] = @ \cup {r.call}]
         /\ SendToClient(<<Ack(r)>>)
         /\ UNCHANGED <<host, hostTurn, hostAborted, sequence, finished>>
    ELSE SendToClient(<<Refusal(r)>>) /\ UNCHANGED <<host, hostState>>

\* Mutant: the cancellation is handled without an answer.
HandleCancelSilently(r) ==
    /\ hostAborted' = [hostAborted EXCEPT ![r.of] = @ \/ hostTurn[r.of] \in Active]
    /\ UNCHANGED <<toClient, host, hostTurn, sequence, finished, results>>

HandleCancel(r) ==
    IF hostTurn[r.of] \in Active
    THEN /\ hostAborted' = [hostAborted EXCEPT ![r.of] = TRUE]
         /\ SendToClient(<<Ack(r)>>)
         /\ UNCHANGED <<host, hostTurn, sequence, finished, results>>
    ELSE SendToClient(<<Refusal(r)>>) /\ UNCHANGED <<host, hostState>>

\* The models are fetched before the next request is looked at.
HandleList(r) ==
    /\ SendToClient(<<Ack(r)>>)
    /\ host' = r.of
    /\ UNCHANGED hostState

HandleRequest ==
    /\ host = "serving"
    /\ toHost # <<>>
    /\ toHost' = Tail(toHost)
    /\ LET r == Head(toHost)
       IN  CASE r.kind = "start" -> HandleStart(r)
             [] r.kind = "submit" -> HandleSubmit(r)
             [] r.kind = "cancel" -> HandleCancel(r)
             [] OTHER -> HandleList(r)
    /\ UNCHANGED <<client, stdin>>

\* Mutant: a failing call is not reported.
ModelsFetchedOrNothing ==
    /\ host \in Lists
    /\ toClient' \in {toClient, Append(toClient, Frame("models", ListOf(host), NoTurn, 0))}
    /\ host' = "serving"
    /\ UNCHANGED <<client, stdin, toHost, hostState>>

ModelsFetched ==
    /\ host \in Lists
    /\ \E kind \in {"models", "error"} : SendToClient(<<Frame(kind, ListOf(host), NoTurn, 0)>>)
    /\ host' = "serving"
    /\ UNCHANGED <<client, stdin, toHost, hostState>>

\* Mutant: the host stops without cancelling its turns.
RequestsEndQuietly ==
    /\ host = "serving"
    /\ IF toHost = <<>> THEN stdin = "closed" ELSE Head(toHost).kind \in TooLong
    /\ host' = "stopping"
    /\ UNCHANGED <<client, stdin, toHost, toClient, hostState>>

\* The requests end, or the next line is refused as too long: every turn is
\* cancelled, and the host waits for them.
RequestsEnd ==
    /\ host = "serving"
    /\ IF toHost = <<>> THEN stdin = "closed" ELSE Head(toHost).kind \in TooLong
    /\ host' = "stopping"
    /\ hostAborted' = [t \in Turns |-> hostAborted[t] \/ hostTurn[t] \in Active]
    /\ UNCHANGED <<client, stdin, toHost, toClient, hostTurn, sequence, finished, results>>

Stopped ==
    /\ host = "stopping"
    /\ \A t \in Turns : hostTurn[t] \notin Active
    /\ host' = "exited"
    /\ UNCHANGED <<client, stdin, toHost, toClient, hostState>>

\* The process dies, of itself or killed at exit.
HostDies ==
    /\ host # "exited"
    /\ host' = "exited"
    /\ UNCHANGED <<client, stdin, toHost, toClient, hostState>>

-----------------------------------------------------------------------------
(* The host: the stream of a turn. *)

\* The provider turn waits for the results of the calls it asked for.
NeedsResults(t) == sequence[t] = CallEvent /\ CallEvent > 0 /\ ~(Calls \subseteq results[t])

EmitEvent(t) ==
    /\ host # "exited" /\ hostTurn[t] = "streaming"
    /\ sequence[t] < MaxEvents
    /\ ~NeedsResults(t)
    /\ sequence' = [sequence EXCEPT ![t] = @ + 1]
    /\ SendToClient(<<Frame("event", NoRequest, t, sequence[t] + 1)>>)
    /\ UNCHANGED <<client, stdin, toHost, host, hostTurn, hostAborted, finished, results>>

EndStream(t) ==
    /\ host # "exited" /\ hostTurn[t] = "streaming"
    /\ ~NeedsResults(t)
    /\ finished' = [finished EXCEPT ![t] = TRUE]
    /\ hostTurn' = [hostTurn EXCEPT ![t] = "closing"]
    /\ SendToClient(<<Frame("closed", NoRequest, t, sequence[t])>>)
    /\ UNCHANGED <<client, stdin, toHost, host, hostAborted, sequence, results>>

\* Mutant: the turn is closed before its error is sent.
FailStreamClosed(t) ==
    /\ host # "exited" /\ hostTurn[t] = "streaming"
    /\ hostTurn' = [hostTurn EXCEPT ![t] = "closing"]
    /\ SendToClient(<<Frame("closed", NoRequest, t, sequence[t]), Frame("error", NoRequest, t, 0)>>)
    /\ UNCHANGED <<client, stdin, toHost, host, hostAborted, sequence, finished, results>>

\* The stream throws, also because the turn was cancelled: an error ...
FailStream(t) ==
    /\ host # "exited" /\ hostTurn[t] = "streaming"
    /\ hostTurn' = [hostTurn EXCEPT ![t] = "failing"]
    /\ SendToClient(<<Frame("error", NoRequest, t, 0)>>)
    /\ UNCHANGED <<client, stdin, toHost, host, hostAborted, sequence, finished, results>>

\* ... then the close.
CloseFailedStream(t) ==
    /\ host # "exited" /\ hostTurn[t] = "failing"
    /\ hostTurn' = [hostTurn EXCEPT ![t] = "closing"]
    /\ SendToClient(<<Frame("closed", NoRequest, t, sequence[t])>>)
    /\ UNCHANGED <<client, stdin, toHost, host, hostAborted, sequence, finished, results>>

\* onTurnClosed.
ForgetTurn(t) ==
    /\ host # "exited" /\ hostTurn[t] = "closing"
    /\ hostTurn' = [hostTurn EXCEPT ![t] = "gone"]
    /\ UNCHANGED <<client, stdin, toHost, toClient, host, hostAborted, sequence, finished, results>>

-----------------------------------------------------------------------------
EngineStep(t) == Start(t) \/ StartSettled(t) \/ Read(t) \/ ContinueReading(t)
                   \/ \E c \in Calls : SubmitToolResult(t, c)
StreamStep(t) == EmitEvent(t) \/ EndStream(t) \/ CloseFailedStream(t) \/ ForgetTurn(t)
HostStep == HandleRequest \/ ModelsFetched \/ RequestsEnd \/ Stopped

Next ==
    \/ \E t \in Turns : EngineStep(t) \/ Abort(t) \/ StopReading(t) \/ StreamStep(t) \/ FailStream(t)
    \/ \E l \in Lists : ListModels(l) \/ ListFails(l)
    \/ \E r \in Requests : TimesOut(r)
    \/ Route \/ PumpEnds \/ CloseTransport \/ HostStep \/ HostDies

Spec == Init /\ [][Next]_vars

\* The engine keeps going and gives up when a submission fails; a timer
\* fires; both processes go on with their work; the call of the model list
\* returns; and a provider turn streams on, or throws once it is cancelled.
SubmissionFailed(t) == \E c \in Calls :
    \/ request[SubmitOf(t, c)] \in {"refused", "timed out"}
    \/ request[SubmitOf(t, c)] = "unsent" /\ hasTurnEnded[t]

FairSpec ==
    /\ Spec
    /\ \A t \in Turns : /\ WF_vars(EngineStep(t))
                        /\ WF_vars(SubmissionFailed(t) /\ StopReading(t))
                        /\ WF_vars(StreamStep(t))
                        /\ WF_vars(hostAborted[t] /\ FailStream(t))
    /\ \A r \in Requests : WF_vars(TimesOut(r))
    /\ \A l \in Lists : WF_vars(ListFails(l))
    /\ WF_vars(Route) /\ WF_vars(PumpEnds) /\ WF_vars(HostStep)

-----------------------------------------------------------------------------
(* Properties. *)

TypeOK ==
    /\ request \in [Requests -> Settled \cup {"unsent", "waiting"}]
    /\ modelList \in [Lists -> {"none", "waiting", "listed", "failed"}]
    /\ pump \in {"running", "ended"}
    /\ reader \in [Turns -> Reading \cup {"none", "completed", "failed", "left"}]
    /\ hasTurnEnded \in [Turns -> BOOLEAN]
    /\ expected \in [Turns -> 1 .. MaxEvents + 1]
    /\ isClosed \in [Turns -> BOOLEAN]
    /\ delivered \in [Turns -> 0 .. MaxEvents]
    /\ aborted \in [Turns -> BOOLEAN]
    /\ stdin \in {"open", "closed"}
    /\ host \in {"serving", "stopping", "exited"} \cup Lists
    /\ hostTurn \in [Turns -> Active \cup {"none", "gone"}]
    /\ hostAborted \in [Turns -> BOOLEAN]
    /\ sequence \in [Turns -> 0 .. MaxEvents]
    /\ finished \in [Turns -> BOOLEAN]
    /\ results \in [Turns -> SUBSET Calls]

Answers(r) == {i \in 1 .. Len(toClient) : toClient[i].frame \in {"acknowledged", "error"} /\ toClient[i].request = r}
Questions(r) == {i \in 1 .. Len(toHost) : toHost[i] = r}

\* While the pump runs and the host lives, a request the client waits for is on
\* its way to the host or its answer is on its way back to the pump, whatever the
\* state of the turn at either side: routing the answer ends the wait, or the end
\* of the pump does, which refuses all that wait then.  After the end of the pump
\* nobody reads answers, and a later request ends by its time limit alone.
RequestsStayAnswerable ==
    pump = "running" /\ host # "exited" => \A r \in Requests :
        request[r] = "waiting" => Questions(r) # {} \/ Answers(r) # {}

\* An acknowledged tool result has reached the provider turn.
AcknowledgedResultsArrive == \A t \in Turns, c \in Calls :
    request[SubmitOf(t, c)] = "acknowledged" => c \in results[t]

\* The stream the engine reads through the protocol is one it could read from
\* a provider in its own process.
outcome == [t \in Turns |-> IF reader[t] \in {"completed", "failed", "left"} THEN reader[t] ELSE "open"]
Stream == INSTANCE ProviderTurns WITH emitted <- sequence
StreamsLikeAProvider == Stream!Spec

\* A turn the engine has started ends for the engine, whatever dies or times out.
TurnEnds == \A t \in Turns : reader[t] = "starting" ~> reader[t] \in {"completed", "failed", "left"}

\* A model list that is asked for comes or fails.
ListEnds == \A l \in Lists : modelList[l] = "waiting" ~> modelList[l] \in {"listed", "failed"}

\* A host whose input was closed stops by itself, even with turns that wait
\* for tool results that will not come.
HostStops == stdin = "closed" ~> host = "exited"

\* Whatever dies or times out, the engine's turns end, and a host whose input was
\* closed stops.
NothingIsLeftRunning == TurnEnds /\ HostStops

\* The host aborts the turns it is told to cancel: a turn whose cancellation
\* has reached a living host is not running on there.
CancelledTurnIsAborted == \A t \in Turns :
    /\ request[CancelOf(t)] # "unsent" /\ Questions(CancelOf(t)) = {}
    /\ stdin = "open" /\ host # "exited"
    => (hostTurn[t] = "streaming" => hostAborted[t])
=============================================================================
