----------------------- MODULE ProviderProtocol_proofs -----------------------
(***************************************************************************)
(* Theorems about ProviderProtocol for any turns, calls, lists of models   *)
(* and kinds of lines that may be too long, and any number of events: the  *)
(* engine reads through the protocol what it could read from a provider in *)
(* its own process.                                                        *)
(***************************************************************************)
EXTENDS ProviderProtocol, SequenceTheorems, TLAPS

USE BoundsAssumption, NamesAssumption

Frames == [frame : {"acknowledged", "models", "error"}, request : Requests \cup {NoRequest},
           turn : Turns \cup {NoTurn}, number : Nat]
            \cup [frame : {"event", "closed"}, request : {NoRequest}, turn : Turns, number : Nat]
Items == [item : {"event", "closed", "error", "wrong number"}, number : Nat]

Types ==
    /\ request \in [Requests -> Settled \cup {"unsent", "waiting"}]
    /\ modelList \in [Lists -> {"none", "waiting", "listed", "failed"}]
    /\ pump \in {"running", "ended"}
    /\ reader \in [Turns -> Reading \cup {"none", "completed", "failed", "left"}]
    /\ hasTurnEnded \in [Turns -> BOOLEAN]
    /\ expected \in [Turns -> Nat]
    /\ items \in [Turns -> Seq(Items)]
    /\ isClosed \in [Turns -> BOOLEAN]
    /\ delivered \in [Turns -> Nat]
    /\ aborted \in [Turns -> BOOLEAN]
    /\ stdin \in {"open", "closed"}
    /\ toHost \in Seq(Requests)
    /\ toClient \in Seq(Frames)
    /\ host \in {"serving", "stopping", "exited"} \cup Lists
    /\ hostTurn \in [Turns -> Active \cup {"none", "gone"}]
    /\ hostAborted \in [Turns -> BOOLEAN]
    /\ sequence \in [Turns -> 0 .. MaxEvents]
    /\ finished \in [Turns -> BOOLEAN]
    /\ results \in [Turns -> SUBSET Calls]

\* The start of a turn is on its way at most once, and the host has not seen it.
StartInv == \A t \in Turns : \A i \in 1 .. Len(toHost) : toHost[i] = StartOf(t) =>
    /\ hostTurn[t] = "none" /\ reader[t] # "none"
    /\ \A j \in 1 .. Len(toHost) : toHost[j] = StartOf(t) => j = i

\* The client takes no more items for the turn, or will not once it has routed
\* the frames before the i-th.
Told(t, i) ==
    \/ isClosed[t]
    \/ ~Registered(t)
    \/ \E j \in 1 .. Len(toClient) : j < i /\ toClient[j].frame = "error" /\ toClient[j].turn = t

\* A frame on its way to the client: an event has a number that was counted, and
\* a close follows the normal end of the stream, with the number of its events, or
\* an error.
FrameOK(t, i) ==
    toClient[i].frame \in {"event", "closed"} /\ toClient[i].turn = t =>
        /\ reader[t] # "none"
        /\ toClient[i].number <= sequence[t]
        /\ toClient[i].frame = "closed" =>
             /\ hostTurn[t] \in {"closing", "gone"}
             /\ toClient[i].number = sequence[t]
             /\ finished[t] \/ Told(t, i)
FrameInv == \A t \in Turns, i \in 1 .. Len(toClient) : FrameOK(t, i)

HostInv(t) ==
    /\ hostTurn[t] \in {"none", "streaming", "failing"} => ~finished[t]
    /\ reader[t] = "none" => hostTurn[t] = "none" /\ ~isClosed[t]
    /\ hostTurn[t] = "failing" => Told(t, Len(toClient) + 1)

\* What the engine was handed and what waits in the queue are the events up to the
\* next expected one; behind them there is one item that says how the turn ended.
QueueInv(t) ==
    LET n == Len(items[t])
        q == items[t]
    IN  /\ 1 <= expected[t] /\ expected[t] <= sequence[t] + 1
        /\ delivered[t] <= sequence[t]
        /\ ~isClosed[t] => /\ \A i \in 1 .. n : q[i].item = "event"
                           /\ delivered[t] + n + 1 = expected[t]
        /\ Registered(t) /\ isClosed[t] =>
             /\ n > 0
             /\ \A i \in 1 .. n : q[i].item = "event" <=> i < n
             /\ delivered[t] + n <= sequence[t] + 1
             /\ q[n].item = "closed" => finished[t] /\ delivered[t] + n = sequence[t] + 1

TurnInv(t) == HostInv(t) /\ QueueInv(t)
Inv == Types /\ StartInv /\ FrameInv /\ \A t \in Turns : TurnInv(t)

-----------------------------------------------------------------------------
(* Sequences and requests.                                                 *)

LEMMA OneMore ==
    ASSUME NEW S, NEW s \in Seq(S), NEW x \in S
    PROVE  /\ s \o <<x>> \in Seq(S)
           /\ Len(s \o <<x>>) = Len(s) + 1
           /\ \A i \in 1 .. Len(s) : (s \o <<x>>)[i] = s[i]
           /\ (s \o <<x>>)[Len(s) + 1] = x
<1>1. <<x>> \in Seq(S) /\ Len(<<x>>) = 1 /\ <<x>>[1] = x
  OBVIOUS
<1> QED BY <1>1, ConcatProperties

LEMMA AppendedIsOneMore ==
    ASSUME NEW S, NEW s \in Seq(S), NEW x \in S
    PROVE  /\ Append(s, x) \in Seq(S)
           /\ Len(Append(s, x)) = Len(s) + 1
           /\ \A i \in 1 .. Len(s) : Append(s, x)[i] = s[i]
           /\ Append(s, x)[Len(s) + 1] = x
OBVIOUS

LEMMA RequestKinds ==
    ASSUME NEW r \in Requests
    PROVE  /\ r # NoRequest
           /\ r.kind = "start" => r.of \in Turns /\ r = StartOf(r.of)
           /\ r.kind = "cancel" => r.of \in Turns /\ r = CancelOf(r.of)
           /\ r.kind = "submit" => r.of \in Turns /\ r.call \in Calls /\ r = SubmitOf(r.of, r.call)
           /\ r.kind = "list" => r.of \in Lists /\ r = ListOf(r.of)
           /\ r.kind \in {"start", "cancel", "submit", "list"}
BY DEF Requests, NoRequest, StartOf, CancelOf, SubmitOf, ListOf

LEMMA RequestNames ==
    /\ \A t \in Turns : StartOf(t) \in Requests /\ CancelOf(t) \in Requests
    /\ \A t \in Turns, c \in Calls : SubmitOf(t, c) \in Requests
    /\ \A l \in Lists : ListOf(l) \in Requests
BY DEF Requests

LEMMA StartsDiffer ==
    /\ \A t, u : StartOf(t) = StartOf(u) => t = u
    /\ \A t, u : StartOf(t) # CancelOf(u) /\ StartOf(t) # ListOf(u)
    /\ \A t, u, c : StartOf(t) # SubmitOf(u, c)
BY DEF StartOf, CancelOf, SubmitOf, ListOf

LEMMA FrameTypes ==
    /\ \A r \in Requests : Ack(r) \in Frames /\ Refusal(r) \in Frames
    /\ \A t \in Turns, n \in Nat, k \in {"event", "closed", "error"} : Frame(k, NoRequest, t, n) \in Frames
    /\ \A l \in Lists, k \in {"models", "error"} : Frame(k, ListOf(l), NoTurn, 0) \in Frames
<1>1. \A r \in Requests : Ack(r) \in Frames
  BY DEF Ack, Frame, Frames
<1>2. ASSUME NEW r \in Requests PROVE Refusal(r) \in Frames
  <2>1. (IF r.kind = "list" THEN NoTurn ELSE r.of) \in Turns \cup {NoTurn}
    BY RequestKinds
  <2> QED BY <2>1 DEF Refusal, Frame, Frames
<1>3. \A t \in Turns, n \in Nat, k \in {"event", "closed", "error"} : Frame(k, NoRequest, t, n) \in Frames
  BY DEF Frame, Frames
<1>4. \A l \in Lists, k \in {"models", "error"} : Frame(k, ListOf(l), NoTurn, 0) \in Frames
  BY RequestNames DEF Frame, Frames
<1> QED BY <1>1, <1>2, <1>3, <1>4

-----------------------------------------------------------------------------
(* Steps that leave the frames on their way.                               *)

PipeGrows == Len(toClient) <= Len(toClient') /\ \A k \in 1 .. Len(toClient) : toClient'[k] = toClient[k]

\* What no step takes back in the client, and in the host.
ClientMoves(t) ==
    /\ reader[t] # "none" => reader'[t] # "none" /\ (~Registered(t) => ~Registered(t)')
    /\ isClosed[t] => isClosed'[t]
HostMoves(t) ==
    /\ sequence[t] <= sequence'[t]
    /\ hostTurn[t] \in {"closing", "gone"} => hostTurn'[t] \in {"closing", "gone"} /\ sequence'[t] = sequence[t]
    /\ finished[t] => finished'[t]

LEMMA ToldStays ==
    ASSUME Types, Types', PipeGrows, NEW t \in Turns, ClientMoves(t), reader[t] # "none",
           NEW i \in Nat, Told(t, i)
    PROVE  Told(t, i)'
<1>1. Len(toClient) \in Nat /\ Len(toClient') \in Nat
  BY DEF Types
<1>2. CASE isClosed[t] \/ ~Registered(t)
  BY <1>2 DEF Told, ClientMoves
<1>3. CASE \E j \in 1 .. Len(toClient) : j < i /\ toClient[j].frame = "error" /\ toClient[j].turn = t
  <2>1. PICK j \in 1 .. Len(toClient) : j < i /\ toClient[j].frame = "error" /\ toClient[j].turn = t
    BY <1>3
  <2>2. j \in 1 .. Len(toClient') /\ toClient'[j] = toClient[j]
    BY <1>1 DEF PipeGrows
  <2> QED BY <2>1, <2>2 DEF Told
<1> QED BY <1>2, <1>3 DEF Told

LEMMA FrameStays ==
    ASSUME Types, Types', PipeGrows, NEW t \in Turns, ClientMoves(t), HostMoves(t),
           NEW i \in 1 .. Len(toClient), FrameOK(t, i)
    PROVE  FrameOK(t, i)'
<1>1. toClient'[i] = toClient[i]
  BY DEF PipeGrows
<1>2. i \in Nat /\ toClient[i] \in Frames /\ sequence[t] \in Nat /\ sequence'[t] \in Nat
  BY DEF Types
<1>3. SUFFICES ASSUME toClient[i].frame \in {"event", "closed"}, toClient[i].turn = t
               PROVE  FrameOK(t, i)'
  BY <1>1 DEF FrameOK
<1>4. reader[t] # "none" /\ toClient[i].number <= sequence[t]
  BY <1>3 DEF FrameOK
<1>5. toClient[i].number \in Nat
  BY <1>2 DEF Frames
<1>6. reader'[t] # "none" /\ toClient[i].number <= sequence'[t]
  BY <1>2, <1>4, <1>5 DEF ClientMoves, HostMoves
<1>7. ASSUME toClient[i].frame = "closed"
      PROVE  /\ hostTurn'[t] \in {"closing", "gone"} /\ toClient[i].number = sequence'[t]
             /\ finished'[t] \/ Told(t, i)'
  <2>1. hostTurn[t] \in {"closing", "gone"} /\ toClient[i].number = sequence[t] /\ (finished[t] \/ Told(t, i))
    BY <1>3, <1>7 DEF FrameOK
  <2>2. Told(t, i) => Told(t, i)'
    BY <1>2, <1>4, ToldStays
  <2> QED BY <2>1, <2>2 DEF HostMoves
<1> QED BY <1>1, <1>6, <1>7 DEF FrameOK

\* Nothing of the turn moves, apart from what is in the pipes.
SameTurn(t) ==
    /\ reader'[t] = reader[t] /\ expected'[t] = expected[t] /\ items'[t] = items[t]
    /\ isClosed'[t] = isClosed[t] /\ delivered'[t] = delivered[t]
    /\ hostTurn'[t] = hostTurn[t] /\ sequence'[t] = sequence[t] /\ finished'[t] = finished[t]

LEMMA SameTurnMoves ==
    ASSUME Types, NEW t \in Turns, SameTurn(t)
    PROVE  ClientMoves(t) /\ HostMoves(t)
BY DEF Types, SameTurn, ClientMoves, HostMoves, Registered

LEMMA TurnStays ==
    ASSUME Types, Types', PipeGrows, NEW t \in Turns, SameTurn(t), TurnInv(t)
    PROVE  TurnInv(t)'
<1>1. QueueInv(t)'
  BY DEF TurnInv, QueueInv, SameTurn, Registered
<1>2. hostTurn[t] = "failing" => Told(t, Len(toClient) + 1)'
  <2>1. Len(toClient) \in Nat /\ Len(toClient') \in Nat /\ Len(toClient) <= Len(toClient')
    BY DEF Types, PipeGrows
  <2>2. SUFFICES ASSUME hostTurn[t] = "failing" PROVE Told(t, Len(toClient) + 1)'
    OBVIOUS
  <2>3. reader[t] # "none" /\ Told(t, Len(toClient) + 1)
    BY <2>2 DEF TurnInv, HostInv
  <2>4. PICK n \in Nat : n = Len(toClient) + 1
    BY <2>1
  <2>5. Told(t, n)'
    BY <2>3, <2>4, SameTurnMoves, ToldStays
  <2>6. n <= Len(toClient') + 1
    BY <2>1, <2>4
  <2>7. CASE isClosed'[t] \/ ~Registered(t)'
    BY <2>7 DEF Told
  <2>8. CASE \E j \in 1 .. Len(toClient') : j < n /\ toClient'[j].frame = "error" /\ toClient'[j].turn = t
    <3>1. PICK j \in 1 .. Len(toClient') : j < n /\ toClient'[j].frame = "error" /\ toClient'[j].turn = t
      BY <2>8
    <3>2. j < Len(toClient') + 1
      BY <2>1
    <3> QED BY <3>1, <3>2 DEF Told
  <2> QED BY <2>5, <2>7, <2>8 DEF Told
<1>3. HostInv(t)'
  BY <1>2 DEF TurnInv, HostInv, SameTurn
<1> QED BY <1>1, <1>3 DEF TurnInv

\* A step keeps the invariant if it keeps that of the turns it moves, and writes
\* frames that are as they should be.
LEMMA TurnsKeepInv ==
    ASSUME Inv, Types', StartInv', PipeGrows,
           \A t \in Turns : SameTurn(t) \/ (ClientMoves(t) /\ HostMoves(t) /\ TurnInv(t)'),
           \A t \in Turns, i \in 1 .. Len(toClient') : i > Len(toClient) => FrameOK(t, i)'
    PROVE  Inv'
<1>1. ASSUME NEW t \in Turns PROVE TurnInv(t)' /\ ClientMoves(t) /\ HostMoves(t)
  BY SameTurnMoves, TurnStays DEF Inv
<1>2. ASSUME NEW t \in Turns, NEW i \in 1 .. Len(toClient') PROVE FrameOK(t, i)'
  <2>1. Len(toClient) \in Nat /\ i \in Nat /\ (i > Len(toClient) \/ i \in 1 .. Len(toClient))
    BY DEF Inv, Types
  <2>2. CASE i \in 1 .. Len(toClient)
    <3>1. FrameOK(t, i)
      BY <2>2 DEF Inv, FrameInv
    <3> QED BY <1>1, <2>2, <3>1, FrameStays DEF Inv
  <2> QED BY <2>1, <2>2
<1> QED BY <1>1, <1>2 DEF Inv, FrameInv

LEMMA RequestsKeepInv ==
    ASSUME Inv, Types', StartInv',
           UNCHANGED <<reader, expected, items, isClosed, delivered, toClient, hostTurn, sequence, finished>>
    PROVE  Inv'
<1>1. \A t \in Turns : SameTurn(t)
  BY DEF SameTurn
<1>2. PipeGrows /\ \A i \in 1 .. Len(toClient') : ~(i > Len(toClient))
  BY DEF PipeGrows, Inv, Types
<1> QED BY <1>1, <1>2, TurnsKeepInv

-----------------------------------------------------------------------------
(* Requests of the client.                                                 *)

LEMMA Sent ==
    ASSUME Types, NEW rs \in Seq(Requests), SendAll(rs)
    PROVE  /\ request' \in [Requests -> Settled \cup {"unsent", "waiting"}]
           /\ toHost' \in Seq(Requests)
           /\ toHost' = toHost \/ toHost' = toHost \o rs
<1>1. request' \in [Requests -> Settled \cup {"unsent", "waiting"}]
  <2>1. request \in [Requests -> Settled \cup {"unsent", "waiting"}]
    BY DEF Types
  <2> QED BY <2>1 DEF SendAll, Settled
<1>2. toHost \o rs \in Seq(Requests)
  BY ConcatProperties DEF Types
<1> QED BY <1>1, <1>2 DEF SendAll, Types

\* A start on its way stays the only one, wherever the others go.
LEMMA StartsStay ==
    ASSUME Types, StartInv, UNCHANGED <<toHost, hostTurn>>,
           \A t \in Turns : reader[t] # "none" => reader'[t] # "none"
    PROVE  StartInv'
BY DEF StartInv

LEMMA OtherRequestSent ==
    ASSUME Types, StartInv, NEW r \in Requests, r.kind # "start", SendAll(<<r>>), UNCHANGED <<hostTurn, reader>>
    PROVE  /\ StartInv'
           /\ request' \in [Requests -> Settled \cup {"unsent", "waiting"}]
           /\ toHost' \in Seq(Requests)
<1>1. <<r>> \in Seq(Requests)
  OBVIOUS
<1>2. CASE toHost' = toHost
  BY <1>1, <1>2, Sent, StartsStay
<1>3. CASE toHost' = toHost \o <<r>>
  <2>1. toHost \in Seq(Requests)
    BY DEF Types
  <2>2. /\ Len(toHost) \in Nat /\ Len(toHost') = Len(toHost) + 1
        /\ \A i \in 1 .. Len(toHost) : toHost'[i] = toHost[i]
        /\ toHost'[Len(toHost) + 1] = r
    BY <1>3, <2>1, OneMore
  <2>3. \A t \in Turns : r # StartOf(t)
    BY DEF StartOf
  <2>4. \A t \in Turns : \A i \in 1 .. Len(toHost') : toHost'[i] = StartOf(t) => i \in 1 .. Len(toHost) /\ toHost[i] = StartOf(t)
    BY <2>2, <2>3
  <2>5. StartInv'
    BY <2>4 DEF StartInv
  <2> QED BY <1>1, <2>5, Sent
<1> QED BY <1>1, <1>2, <1>3, Sent

LEMMA StartKeepsInv ==
    ASSUME Inv, NEW t \in Turns, Start(t)
    PROVE  Inv'
<1> DEFINE before == IF aborted[t] THEN <<CancelOf(t)>> ELSE <<>>
           rs == before \o <<StartOf(t)>>
<1>1. /\ rs \in Seq(Requests) /\ Len(rs) \in Nat
      /\ \A i \in 1 .. Len(rs) : rs[i] = StartOf(t) => i = Len(rs)
      /\ \A i \in 1 .. Len(rs), u \in Turns : rs[i] = StartOf(u) => u = t
  <2>1. StartOf(t) \in Requests /\ CancelOf(t) \in Requests
    BY RequestNames
  <2>2. before \in Seq(Requests) /\ (before = <<>> \/ before = <<CancelOf(t)>>)
    BY <2>1
  <2>3. rs \in Seq(Requests) /\ Len(rs) = Len(before) + 1 /\ (\A i \in 1 .. Len(before) : rs[i] = before[i])
        /\ rs[Len(before) + 1] = StartOf(t)
    BY <2>1, <2>2, OneMore
  <2>4. \A i \in 1 .. Len(before) : before[i] = CancelOf(t)
    BY <2>2
  <2> QED BY <2>2, <2>3, <2>4, StartsDiffer
<1> HIDE DEF before, rs
<1>2. /\ SendAll(rs) /\ reader[t] = "none" /\ reader' = [reader EXCEPT ![t] = "starting"]
      /\ UNCHANGED <<modelList, pump, hasTurnEnded, expected, items, isClosed, delivered, aborted, stdin, toClient, host,
                      hostTurn, hostAborted, sequence, finished, results>>
  BY DEF Start, rs, before, queue, hostState
<1>3. /\ request' \in [Requests -> Settled \cup {"unsent", "waiting"}]
      /\ toHost' \in Seq(Requests)
      /\ toHost' = toHost \/ toHost' = toHost \o rs
  BY <1>1, <1>2, Sent DEF Inv
<1>4. Types'
  BY <1>2, <1>3 DEF Inv, Types, Reading
<1>5. \A u \in Turns : reader[u] # "none" => reader'[u] # "none"
  BY <1>2 DEF Inv, Types
<1>6. StartInv'
  <2>1. CASE toHost' = toHost
    BY <1>2, <1>5, <2>1, StartsStay DEF Inv
  <2>2. CASE toHost' = toHost \o rs
    <3>1. toHost \in Seq(Requests) /\ Len(toHost) \in Nat
      BY DEF Inv, Types
    <3>2. /\ Len(toHost') = Len(toHost) + Len(rs)
          /\ \A i \in 1 .. Len(toHost) + Len(rs) : toHost'[i] = IF i <= Len(toHost) THEN toHost[i] ELSE rs[i - Len(toHost)]
      BY <1>1, <2>2, <3>1, ConcatProperties
    <3>3. \A i \in 1 .. Len(toHost) : toHost[i] # StartOf(t)
      BY <1>2 DEF Inv, StartInv
    <3>4. ASSUME NEW u \in Turns, NEW i \in 1 .. Len(toHost'), toHost'[i] = StartOf(u)
          PROVE  \/ u # t /\ i \in 1 .. Len(toHost) /\ toHost[i] = StartOf(u)
                 \/ u = t /\ i = Len(toHost')
      <4>1. CASE i <= Len(toHost)
        BY <3>1, <3>2, <3>3, <3>4, <4>1
      <4>2. CASE ~(i <= Len(toHost))
        <5>1. i - Len(toHost) \in 1 .. Len(rs) /\ rs[i - Len(toHost)] = StartOf(u)
          BY <1>1, <3>1, <3>2, <3>4, <4>2
        <5>2. u = t /\ i - Len(toHost) = Len(rs)
          BY <1>1, <5>1
        <5> QED BY <1>1, <3>1, <3>2, <5>2
      <4> QED BY <4>1, <4>2
    <3>5. ASSUME NEW u \in Turns, NEW i \in 1 .. Len(toHost'), toHost'[i] = StartOf(u)
          PROVE  /\ hostTurn'[u] = "none" /\ reader'[u] # "none"
                 /\ \A j \in 1 .. Len(toHost') : toHost'[j] = StartOf(u) => j = i
      <4>1. CASE u # t
        BY <1>2, <1>5, <3>4, <3>5, <4>1 DEF Inv, StartInv
      <4>2. CASE u = t
        <5>1. hostTurn[t] = "none" /\ reader'[t] = "starting"
          BY <1>2 DEF Inv, TurnInv, HostInv, Types
        <5> QED BY <1>2, <3>4, <3>5, <4>2, <5>1
      <4> QED BY <4>1, <4>2
    <3> QED BY <3>5 DEF StartInv
  <2> QED BY <1>3, <2>1, <2>2
<1>7. \A u \in Turns : u # t => SameTurn(u)
  BY <1>2 DEF SameTurn, Inv, Types
<1>8. ClientMoves(t) /\ HostMoves(t)
  BY <1>2 DEF ClientMoves, HostMoves, Inv, Types
<1>9. TurnInv(t)'
  <2>1. ~isClosed[t] /\ hostTurn[t] = "none" /\ reader'[t] = "starting"
    BY <1>2 DEF Inv, TurnInv, HostInv, Types
  <2>2. HostInv(t)'
    BY <1>2, <2>1 DEF Inv, TurnInv, HostInv
  <2>3. QueueInv(t)'
    BY <1>2, <2>1 DEF Inv, TurnInv, QueueInv
  <2> QED BY <2>2, <2>3 DEF TurnInv
<1>10. PipeGrows /\ \A i \in 1 .. Len(toClient') : ~(i > Len(toClient))
  BY <1>2 DEF PipeGrows, Inv, Types
<1> QED BY <1>4, <1>6, <1>7, <1>8, <1>9, <1>10, TurnsKeepInv

LEMMA OtherRequestsKeepInv ==
    ASSUME Inv,
           \/ \E t \in Turns : Abort(t) \/ \E c \in Calls : SubmitToolResult(t, c)
           \/ \E l \in Lists : ListModels(l) \/ ListFails(l)
           \/ \E r \in Requests : TimesOut(r)
           \/ CloseTransport
    PROVE  Inv'
<1> DEFINE Rest == UNCHANGED <<reader, expected, items, isClosed, delivered, toClient, hostTurn, sequence, finished>>
<1>1. ASSUME NEW r \in Requests, r.kind # "start", SendAll(<<r>>), Rest,
             UNCHANGED <<pump, hasTurnEnded, stdin, host, hostAborted, results>>,
             modelList' \in [Lists -> {"none", "waiting", "listed", "failed"}], aborted' \in [Turns -> BOOLEAN]
      PROVE  Inv'
  <2>1. Types' /\ StartInv'
    BY <1>1, OtherRequestSent DEF Inv, Types
  <2> QED BY <1>1, <2>1, RequestsKeepInv
<1>2. ASSUME NEW t \in Turns, Abort(t) PROVE Inv'
  <2>1. aborted' \in [Turns -> BOOLEAN] /\ Rest /\ UNCHANGED <<modelList, pump, hasTurnEnded, stdin, host, hostAborted, results>>
    BY <1>2 DEF Abort, Inv, Types, queue, hostState
  <2>2. CASE SendAll(<<CancelOf(t)>>)
    <3>1. CancelOf(t) \in Requests /\ CancelOf(t).kind # "start"
      BY RequestNames DEF CancelOf
    <3> QED BY <1>1, <2>1, <2>2, <3>1 DEF Inv, Types
  <2>3. CASE UNCHANGED <<request, toHost>>
    <3>1. Types' /\ StartInv'
      BY <2>1, <2>3, StartsStay DEF Inv, Types
    <3> QED BY <2>1, <3>1, RequestsKeepInv
  <2> QED BY <1>2, <2>2, <2>3 DEF Abort
<1>3. ASSUME NEW t \in Turns, NEW c \in Calls, SubmitToolResult(t, c) PROVE Inv'
  <2>1. SubmitOf(t, c) \in Requests /\ SubmitOf(t, c).kind # "start"
    BY RequestNames DEF SubmitOf
  <2> QED BY <1>1, <1>3, <2>1 DEF SubmitToolResult, Inv, Types, queue, hostState
<1>4. ASSUME NEW l \in Lists, ListModels(l) PROVE Inv'
  <2>1. ListOf(l) \in Requests /\ ListOf(l).kind # "start"
    BY RequestNames DEF ListOf
  <2> QED BY <1>1, <1>4, <2>1 DEF ListModels, Inv, Types, queue, hostState
<1>5. ASSUME (\E l \in Lists : ListFails(l)) \/ (\E r \in Requests : TimesOut(r)) \/ CloseTransport
      PROVE  Inv'
  <2>1. /\ Rest /\ UNCHANGED <<toHost, pump, hasTurnEnded, aborted, host, hostAborted, results>>
        /\ request' \in [Requests -> Settled \cup {"unsent", "waiting"}]
        /\ modelList' \in [Lists -> {"none", "waiting", "listed", "failed"}]
        /\ stdin' \in {"open", "closed"}
    <3>1. /\ request \in [Requests -> Settled \cup {"unsent", "waiting"}]
          /\ modelList \in [Lists -> {"none", "waiting", "listed", "failed"}]
          /\ stdin \in {"open", "closed"}
      BY DEF Inv, Types
    <3>2. ASSUME NEW l \in Lists, ListFails(l)
          PROVE  /\ Rest /\ UNCHANGED <<toHost, pump, hasTurnEnded, aborted, host, hostAborted, results, request, stdin>>
                 /\ modelList' \in [Lists -> {"none", "waiting", "listed", "failed"}]
      BY <3>1, <3>2 DEF ListFails, client, queue, hostState
    <3>3. ASSUME NEW r \in Requests, TimesOut(r)
          PROVE  /\ Rest /\ UNCHANGED <<toHost, pump, hasTurnEnded, aborted, host, hostAborted, results, modelList, stdin>>
                 /\ request' \in [Requests -> Settled \cup {"unsent", "waiting"}]
      BY <3>1, <3>3 DEF TimesOut, Settled, client, queue, hostState
    <3>4. ASSUME CloseTransport
          PROVE  /\ Rest /\ UNCHANGED <<toHost, pump, hasTurnEnded, aborted, host, hostAborted, results, modelList>>
                 /\ request' \in [Requests -> Settled \cup {"unsent", "waiting"}]
                 /\ stdin' \in {"open", "closed"}
      BY <3>1, <3>4 DEF CloseTransport, Settled, client, queue, hostState
    <3> QED BY <1>5, <3>1, <3>2, <3>3, <3>4
  <2>2. Types' /\ StartInv'
    BY <2>1, StartsStay DEF Inv, Types
  <2> QED BY <2>1, <2>2, RequestsKeepInv
<1> QED BY <1>2, <1>3, <1>4, <1>5

-----------------------------------------------------------------------------
(* The engine reads a turn.                                                *)

LEMMA ReaderKeepsInv ==
    ASSUME Inv, Types', NEW t \in Turns, Registered(t), reader'[t] # "none", isClosed[t] => isClosed'[t], QueueInv(t)',
           UNCHANGED <<toHost, toClient, hostTurn, sequence, finished>>, \A u \in Turns : u # t => SameTurn(u)
    PROVE  Inv'
<1>1. ClientMoves(t) /\ HostMoves(t)
  BY DEF ClientMoves, HostMoves, Inv, Types
<1>2. PipeGrows /\ \A i \in 1 .. Len(toClient') : ~(i > Len(toClient))
  BY DEF PipeGrows, Inv, Types
<1>3. \A u \in Turns : reader[u] # "none" => reader'[u] # "none"
  BY DEF SameTurn
<1>4. StartInv'
  BY <1>3, StartsStay DEF Inv
<1>5. reader[t] # "none"
  BY DEF Registered, Reading
<1>6. ASSUME hostTurn[t] = "failing" PROVE Told(t, Len(toClient) + 1)'
  <2>1. PICK n \in Nat : n = Len(toClient) + 1
    BY DEF Inv, Types
  <2>2. Told(t, n)
    BY <1>6, <2>1 DEF Inv, TurnInv, HostInv
  <2>3. Told(t, n)'
    BY <1>1, <1>2, <1>5, <2>2, ToldStays DEF Inv
  <2> QED BY <2>1, <2>3
<1>7. HostInv(t)'
  BY <1>6 DEF Inv, TurnInv, HostInv
<1> QED BY <1>1, <1>2, <1>4, <1>7, TurnsKeepInv DEF TurnInv

\* A turn that is disposed of leaves what it was handed.
LEMMA DisposeKeepsQueue ==
    ASSUME Inv, NEW t \in Turns, NEW end \in {"completed", "failed", "left"}, Dispose(t, end),
           UNCHANGED <<expected, delivered, sequence, finished>>
    PROVE  /\ reader'[t] = end /\ isClosed'[t] /\ QueueInv(t)'
           /\ reader' \in [Turns -> Reading \cup {"none", "completed", "failed", "left"}]
           /\ hasTurnEnded' \in [Turns -> BOOLEAN] /\ isClosed' \in [Turns -> BOOLEAN]
           /\ \A u \in Turns : u # t => reader'[u] = reader[u] /\ isClosed'[u] = isClosed[u]
<1>1. /\ reader'[t] = end /\ isClosed'[t]
      /\ reader' \in [Turns -> Reading \cup {"none", "completed", "failed", "left"}]
      /\ hasTurnEnded' \in [Turns -> BOOLEAN] /\ isClosed' \in [Turns -> BOOLEAN]
      /\ \A u \in Turns : u # t => reader'[u] = reader[u] /\ isClosed'[u] = isClosed[u]
  BY DEF Dispose, Inv, Types
<1>2. ~Registered(t)'
  BY <1>1 DEF Registered, Reading
<1>3. QueueInv(t)'
  BY <1>1, <1>2 DEF Inv, TurnInv, QueueInv
<1> QED BY <1>1, <1>3

LEMMA GoingOnKeepsInv ==
    ASSUME Inv, NEW t \in Turns, StartSettled(t) \/ ContinueReading(t) \/ StopReading(t)
    PROVE  Inv'
<1>1. /\ Registered(t)
      /\ UNCHANGED <<request, modelList, pump, expected, items, delivered, aborted, stdin, toHost, toClient, host,
                      hostTurn, hostAborted, sequence, finished, results>>
  BY DEF StartSettled, ContinueReading, StopReading, Registered, Reading, queue, hostState
<1>2. CASE reader' = [reader EXCEPT ![t] = "reading"] /\ UNCHANGED <<hasTurnEnded, isClosed>>
  <2>1. reader'[t] = "reading" /\ (\A u \in Turns : u # t => reader'[u] = reader[u]) /\ Registered(t)'
    BY <1>2 DEF Inv, Types, Registered, Reading
  <2>2. Types'
    BY <1>1, <1>2 DEF Inv, Types, Reading
  <2>3. QueueInv(t)'
    BY <1>1, <1>2, <2>1 DEF Inv, TurnInv, QueueInv
  <2>4. \A u \in Turns : u # t => SameTurn(u)
    BY <1>1, <1>2, <2>1 DEF SameTurn
  <2> QED BY <1>1, <1>2, <2>1, <2>2, <2>3, <2>4, ReaderKeepsInv
<1>3. CASE \E end \in {"completed", "failed", "left"} : Dispose(t, end)
  <2>1. PICK end \in {"completed", "failed", "left"} : Dispose(t, end)
    BY <1>3
  <2>2. /\ reader'[t] = end /\ isClosed'[t] /\ QueueInv(t)'
        /\ reader' \in [Turns -> Reading \cup {"none", "completed", "failed", "left"}]
        /\ hasTurnEnded' \in [Turns -> BOOLEAN] /\ isClosed' \in [Turns -> BOOLEAN]
        /\ \A u \in Turns : u # t => reader'[u] = reader[u] /\ isClosed'[u] = isClosed[u]
    BY <1>1, <2>1, DisposeKeepsQueue
  <2>3. Types'
    BY <1>1, <2>2 DEF Inv, Types
  <2>4. \A u \in Turns : u # t => SameTurn(u)
    BY <1>1, <2>2 DEF SameTurn
  <2> QED BY <1>1, <2>2, <2>3, <2>4, ReaderKeepsInv
<1>4. \/ reader' = [reader EXCEPT ![t] = "reading"] /\ UNCHANGED <<hasTurnEnded, isClosed>>
      \/ \E end \in {"completed", "failed", "left"} : Dispose(t, end)
  BY DEF StartSettled, ContinueReading, StopReading, queue
<1> QED BY <1>2, <1>3, <1>4

\* The next item of a queue.
LEMMA Taken ==
    ASSUME Inv, NEW t \in Turns, items[t] # <<>>
    PROVE  /\ Len(items[t]) \in Nat \ {0}
           /\ Head(items[t]) = items[t][1] /\ items[t][1] \in Items
           /\ Tail(items[t]) \in Seq(Items) /\ Len(Tail(items[t])) = Len(items[t]) - 1
           /\ \A i \in 1 .. Len(items[t]) - 1 : Tail(items[t])[i] = items[t][i + 1]
<1>1. items[t] \in Seq(Items)
  BY DEF Inv, Types
<1>2. Len(items[t]) \in Nat \ {0} /\ Head(items[t]) = items[t][1] /\ items[t][1] \in Items
  BY <1>1
<1>3. Tail(items[t]) \in Seq(Items) /\ Len(Tail(items[t])) = Len(items[t]) - 1
      /\ \A i \in 1 .. Len(Tail(items[t])) : Tail(items[t])[i] = items[t][i + 1]
  BY <1>1, HeadTailProperties
<1> QED BY <1>2, <1>3

LEMMA ReadEvent ==
    ASSUME Inv, NEW t \in Turns, reader[t] = "reading", items[t] # <<>>, Head(items[t]).item = "event",
           Registered(t)', items'[t] = Tail(items[t]), delivered'[t] = delivered[t] + 1,
           isClosed'[t] = isClosed[t], UNCHANGED <<expected, sequence, finished>>
    PROVE  delivered[t] < sequence[t] /\ QueueInv(t)'
<1> DEFINE n == Len(items[t])
<1>1. /\ n \in Nat \ {0} /\ delivered[t] \in Nat /\ sequence[t] \in Nat /\ expected[t] \in Nat
      /\ items[t][1].item = "event"
      /\ Len(items'[t]) = n - 1
      /\ \A i \in 1 .. n - 1 : items'[t][i] = items[t][i + 1]
  BY Taken DEF Inv, Types
<1>2. /\ Registered(t) /\ QueueInv(t)
      /\ 1 <= expected[t] /\ expected[t] <= sequence[t] + 1
  BY DEF Registered, Reading, Inv, TurnInv, QueueInv
<1>3. CASE ~isClosed[t]
  <2>1. (\A i \in 1 .. n : items[t][i].item = "event") /\ delivered[t] + n + 1 = expected[t]
    BY <1>2, <1>3 DEF QueueInv
  <2>2. /\ delivered[t] < sequence[t]
        /\ \A i \in 1 .. n - 1 : items'[t][i].item = "event"
        /\ delivered'[t] + (n - 1) + 1 = expected[t]
    BY <1>1, <1>2, <2>1
  <2> QED BY <1>1, <1>2, <1>3, <2>2 DEF QueueInv
<1>4. CASE isClosed[t]
  <2>1. /\ \A i \in 1 .. n : items[t][i].item = "event" <=> i < n
        /\ delivered[t] + n <= sequence[t] + 1
        /\ items[t][n].item = "closed" => finished[t] /\ delivered[t] + n = sequence[t] + 1
    BY <1>2, <1>4 DEF QueueInv
  <2>2. 1 < n
    BY <1>1, <2>1
  <2>3. items'[t][n - 1] = items[t][n]
    BY <1>1, <2>2
  <2>4. \A i \in 1 .. n - 1 : items'[t][i].item = "event" <=> i < n - 1
    BY <1>1, <2>1
  <2>5. delivered[t] < sequence[t] /\ n - 1 > 0 /\ delivered'[t] + (n - 1) = delivered[t] + n
    BY <1>1, <2>1, <2>2
  <2>6. /\ delivered'[t] + (n - 1) <= sequence[t] + 1
        /\ items'[t][n - 1].item = "closed" => finished[t] /\ delivered'[t] + (n - 1) = sequence[t] + 1
    BY <2>1, <2>3, <2>5
  <2>7. delivered'[t] <= sequence[t]
    BY <1>1, <2>5
  <2>8. sequence' = sequence /\ expected' = expected /\ finished' = finished /\ isClosed'[t] /\ Len(items'[t]) = n - 1
    BY <1>1, <1>4
  <2> HIDE DEF n
  <2> QED BY <1>2, <2>4, <2>5, <2>6, <2>7, <2>8 DEF QueueInv
<1> QED BY <1>3, <1>4

LEMMA ReadKeepsInv ==
    ASSUME Inv, NEW t \in Turns, Read(t)
    PROVE  Inv'
<1>1. /\ reader[t] = "reading" /\ Registered(t)
      /\ UNCHANGED <<request, modelList, pump, expected, aborted, stdin, toHost, toClient, host,
                      hostTurn, hostAborted, sequence, finished, results>>
  BY DEF Read, Registered, Reading, hostState
<1>2. /\ items' \in [Turns -> Seq(Items)] /\ (\A u \in Turns : u # t => items'[u] = items[u])
      /\ items[t] # <<>> => items'[t] = Tail(items[t])
  <2>1. CASE items[t] # <<>>
    <3>1. items' = [items EXCEPT ![t] = Tail(@)] /\ Tail(items[t]) \in Seq(Items)
      BY <2>1, Taken DEF Read
    <3> QED BY <2>1, <3>1 DEF Inv, Types
  <2>2. CASE items[t] = <<>>
    BY <2>2 DEF Read, Inv, Types
  <2> QED BY <2>1, <2>2
<1>3. CASE NextKind(t) = "event"
  <2>1. items[t] # <<>> /\ Head(items[t]).item = "event"
    BY <1>3 DEF NextKind
  <2>2. /\ reader' = [reader EXCEPT ![t] = "holding"] /\ delivered' = [delivered EXCEPT ![t] = @ + 1]
        /\ UNCHANGED <<hasTurnEnded, isClosed>>
    BY <1>3 DEF Read
  <2>3. /\ reader'[t] = "holding" /\ delivered'[t] = delivered[t] + 1 /\ Registered(t)'
        /\ \A u \in Turns : u # t => reader'[u] = reader[u] /\ delivered'[u] = delivered[u]
    BY <2>2 DEF Inv, Types, Registered, Reading
  <2>4. QueueInv(t)'
    BY <1>1, <1>2, <2>1, <2>2, <2>3, ReadEvent
  <2>5. reader' \in [Turns -> Reading \cup {"none", "completed", "failed", "left"}] /\ delivered' \in [Turns -> Nat]
    BY <2>2 DEF Inv, Types, Reading
  <2>6. Types'
    BY <1>1, <1>2, <2>2, <2>5 DEF Inv, Types
  <2>7. \A u \in Turns : u # t => SameTurn(u)
    BY <1>1, <1>2, <2>2, <2>3 DEF SameTurn
  <2> QED BY <1>1, <2>2, <2>3, <2>4, <2>6, <2>7, ReaderKeepsInv
<1>4. CASE \E end \in {"completed", "failed", "left"} : Dispose(t, end) /\ UNCHANGED delivered
  <2>1. PICK end \in {"completed", "failed", "left"} : Dispose(t, end) /\ UNCHANGED delivered
    BY <1>4
  <2>2. /\ reader'[t] = end /\ isClosed'[t] /\ QueueInv(t)'
        /\ reader' \in [Turns -> Reading \cup {"none", "completed", "failed", "left"}]
        /\ hasTurnEnded' \in [Turns -> BOOLEAN] /\ isClosed' \in [Turns -> BOOLEAN]
        /\ \A u \in Turns : u # t => reader'[u] = reader[u] /\ isClosed'[u] = isClosed[u]
    BY <1>1, <2>1, DisposeKeepsQueue
  <2>3. Types'
    BY <1>1, <1>2, <2>1, <2>2 DEF Inv, Types
  <2>4. \A u \in Turns : u # t => SameTurn(u)
    BY <1>1, <1>2, <2>1, <2>2 DEF SameTurn
  <2> QED BY <1>1, <2>2, <2>3, <2>4, ReaderKeepsInv
<1> QED BY <1>3, <1>4 DEF Read

-----------------------------------------------------------------------------
(* The pump.                                                               *)

\* An item that ends the turn goes behind the events.
LEMMA EndQueued ==
    ASSUME Inv, NEW t \in Turns, Registered(t), Registered(t)', NEW x \in Items, x.item # "event",
           x.item = "closed" /\ ~isClosed[t] => finished[t] /\ expected[t] = sequence[t] + 1,
           items'[t] = Enqueued(t, x), isClosed'[t], UNCHANGED <<expected, delivered, sequence, finished>>
    PROVE  QueueInv(t)'
<1> DEFINE n == Len(items[t])
<1>0. items[t] \in Seq(Items)
  BY DEF Inv, Types
<1>1. n \in Nat /\ delivered[t] \in Nat /\ sequence[t] \in Nat /\ expected[t] \in Nat
  BY DEF Inv, Types
<1>2. QueueInv(t) /\ 1 <= expected[t] /\ expected[t] <= sequence[t] + 1 /\ delivered[t] <= sequence[t]
  BY DEF Inv, TurnInv, QueueInv
<1>3. CASE isClosed[t]
  <2>1. items'[t] = items[t]
    BY <1>3 DEF Enqueued
  <2> QED BY <1>2, <1>3, <2>1 DEF QueueInv
<1>4. CASE ~isClosed[t]
  <2>1. items'[t] = Append(items[t], x)
    BY <1>4 DEF Enqueued
  <2>2. Len(items'[t]) = n + 1 /\ (\A i \in 1 .. n : items'[t][i] = items[t][i]) /\ items'[t][n + 1] = x
    BY <1>0, <2>1, AppendedIsOneMore
  <2>3. (\A i \in 1 .. n : items[t][i].item = "event") /\ delivered[t] + n + 1 = expected[t]
    BY <1>2, <1>4 DEF QueueInv
  <2> HIDE DEF n
  <2>4. \A i \in 1 .. n + 1 : items'[t][i].item = "event" <=> i < n + 1
    <3>1. ASSUME NEW i \in 1 .. n + 1, i # n + 1 PROVE i \in 1 .. n /\ i < n + 1
      BY <1>1, <3>1
    <3> QED BY <1>1, <2>2, <2>3, <3>1
  <2>5. delivered[t] + (n + 1) = expected[t]
    <3>1. delivered[t] + n + 1 = expected[t]
      BY <2>3
    <3> QED BY <1>1, <3>1
  <2>6. n + 1 > 0 /\ delivered[t] + (n + 1) <= sequence[t] + 1
    BY <1>1, <1>2, <2>5
  <2>7. items'[t][n + 1].item = "closed" => finished[t] /\ delivered[t] + (n + 1) = sequence[t] + 1
    BY <1>4, <2>2, <2>5
  <2> QED BY <1>2, <2>2, <2>4, <2>6, <2>7 DEF QueueInv
<1> QED BY <1>3, <1>4

LEMMA EnqueuedTypes ==
    ASSUME Types, NEW t \in Turns, NEW x \in Items
    PROVE  Enqueued(t, x) \in Seq(Items)
<1>1. items[t] \in Seq(Items)
  BY DEF Types
<1> QED BY <1>1, AppendedIsOneMore DEF Enqueued

LEMMA ItemTypes == \A n \in Nat, k \in {"event", "closed", "error", "wrong number"} :
    Item(k, n) \in Items /\ Item(k, n).item = k
BY DEF Item, Items

LEMMA PumpEndsKeepsInv ==
    ASSUME Inv, PumpEnds
    PROVE  Inv'
<1> DEFINE x == Item("error", 0)
<1>1. /\ pump' = "ended"
      /\ request' \in [Requests -> Settled \cup {"unsent", "waiting"}]
      /\ modelList' \in [Lists -> {"none", "waiting", "listed", "failed"}]
      /\ hasTurnEnded' \in [Turns -> BOOLEAN]
      /\ isClosed' \in [Turns -> BOOLEAN]
      /\ UNCHANGED <<reader, expected, delivered, aborted, stdin, toHost, toClient, host,
                      hostTurn, hostAborted, sequence, finished, results>>
  BY DEF PumpEnds, Inv, Types, Settled, hostState
<1>2. x \in Items /\ x.item = "error"
  BY ItemTypes
<1> HIDE DEF x
<1>3. ASSUME NEW t \in Turns
      PROVE  /\ items'[t] = IF Registered(t) THEN Enqueued(t, x) ELSE items[t]
             /\ isClosed'[t] = (isClosed[t] \/ Registered(t))
             /\ Enqueued(t, x) \in Seq(Items)
  BY <1>2, EnqueuedTypes DEF PumpEnds, x, Inv
<1>4. items' \in [Turns -> Seq(Items)]
  <2>1. \A t \in Turns : items[t] \in Seq(Items)
    BY DEF Inv, Types
  <2>2. items' = [t \in Turns |-> IF Registered(t) THEN Enqueued(t, x) ELSE items[t]]
    BY DEF PumpEnds, x
  <2> QED BY <1>3, <2>1, <2>2
<1>5. Types'
  BY <1>1, <1>4 DEF Inv, Types
<1>6. StartInv'
  BY <1>1, StartsStay DEF Inv
<1>7. PipeGrows /\ \A i \in 1 .. Len(toClient') : ~(i > Len(toClient))
  BY <1>1 DEF PipeGrows, Inv, Types
<1>8. ASSUME NEW t \in Turns, Registered(t)
      PROVE  ClientMoves(t) /\ HostMoves(t) /\ TurnInv(t)'
  <2>1. /\ isClosed'[t] /\ items'[t] = Enqueued(t, x)
        /\ Registered(t)' /\ reader'[t] # "none" /\ reader'[t] = reader[t]
    <3>1. isClosed'[t] /\ items'[t] = Enqueued(t, x)
      BY <1>3, <1>8
    <3>2. Registered(t)' /\ reader'[t] # "none" /\ reader'[t] = reader[t]
      BY <1>1, <1>8 DEF Registered, Reading
    <3> QED BY <3>1, <3>2
  <2>2. ClientMoves(t) /\ HostMoves(t)
    <3>1. ClientMoves(t)
      BY <1>8, <2>1 DEF ClientMoves
    <3>2. sequence'[t] = sequence[t] /\ sequence[t] \in Nat /\ hostTurn'[t] = hostTurn[t] /\ finished'[t] = finished[t]
      BY <1>1 DEF Inv, Types
    <3>3. HostMoves(t)
      BY <3>2 DEF HostMoves
    <3> QED BY <3>1, <3>3
  <2>3. QueueInv(t)'
    BY <1>1, <1>2, <1>8, <2>1, EndQueued
  <2>4. HostInv(t)'
    BY <1>1, <2>1 DEF Inv, TurnInv, HostInv, Told
  <2> QED BY <2>2, <2>3, <2>4 DEF TurnInv
<1>9. ASSUME NEW t \in Turns, ~Registered(t) PROVE SameTurn(t)
  <2>1. isClosed'[t] = isClosed[t] /\ items'[t] = items[t]
    BY <1>3, <1>9 DEF Inv, Types
  <2> QED BY <1>1, <2>1 DEF SameTurn
<1> QED BY <1>5, <1>6, <1>7, <1>8, <1>9, TurnsKeepInv

-----------------------------------------------------------------------------
(* The pump routes the next frame.                                         *)

LEMMA NextFrame ==
    ASSUME Inv, toClient # <<>>, toClient' = Tail(toClient)
    PROVE  /\ Len(toClient) \in Nat \ {0}
           /\ Head(toClient) = toClient[1] /\ toClient[1] \in Frames
           /\ toClient' \in Seq(Frames) /\ Len(toClient') = Len(toClient) - 1
           /\ \A i \in 1 .. Len(toClient') : i + 1 \in 1 .. Len(toClient) /\ toClient'[i] = toClient[i + 1]
<1>1. toClient \in Seq(Frames)
  BY DEF Inv, Types
<1>2. Len(toClient) \in Nat \ {0} /\ Head(toClient) = toClient[1] /\ toClient[1] \in Frames
  BY <1>1
<1>3. toClient' \in Seq(Frames) /\ Len(toClient') = Len(toClient) - 1
      /\ \A i \in 1 .. Len(toClient') : toClient'[i] = toClient[i + 1]
  BY <1>1, HeadTailProperties
<1> QED BY <1>2, <1>3

\* The routed frame does its part of what was told.
LEMMA ToldRouted ==
    ASSUME Inv, toClient # <<>>, toClient' = Tail(toClient), reader' = reader,
           NEW t \in Turns, isClosed[t] => isClosed'[t],
           toClient[1].frame = "error" /\ toClient[1].turn = t /\ Registered(t) => isClosed'[t],
           NEW i \in Nat, Told(t, i + 1)
    PROVE  Told(t, i)'
<1>1. CASE isClosed[t] \/ ~Registered(t)
  BY <1>1 DEF Told, Registered
<1>2. CASE Registered(t) /\ \E j \in 1 .. Len(toClient) : j < i + 1 /\ toClient[j].frame = "error" /\ toClient[j].turn = t
  <2>1. PICK j \in 1 .. Len(toClient) : j < i + 1 /\ toClient[j].frame = "error" /\ toClient[j].turn = t
    BY <1>2
  <2>2. CASE j = 1
    BY <1>2, <2>1, <2>2 DEF Told
  <2>3. CASE j # 1
    <3>1. Len(toClient) \in Nat /\ Len(toClient') = Len(toClient) - 1 /\ j \in Nat
      BY NextFrame
    <3>2. j - 1 \in 1 .. Len(toClient') /\ (j - 1) + 1 = j /\ j - 1 < i
      BY <2>1, <2>3, <3>1
    <3>3. toClient'[j - 1] = toClient[j]
      BY <3>2, NextFrame
    <3> QED BY <2>1, <3>2, <3>3 DEF Told
  <2> QED BY <2>2, <2>3
<1> QED BY <1>1, <1>2 DEF Told

LEMMA RoutingKeepsInv ==
    ASSUME Inv, Types', toClient # <<>>, toClient' = Tail(toClient),
           UNCHANGED <<reader, delivered, toHost, hostTurn, sequence, finished>>,
           \A t \in Turns : /\ isClosed[t] => isClosed'[t]
                            /\ isClosed'[t] /\ ~isClosed[t] => Registered(t)
                            /\ toClient[1].frame = "error" /\ toClient[1].turn = t /\ Registered(t) => isClosed'[t]
                            /\ QueueInv(t)'
    PROVE  Inv'
<1>1. StartInv'
  BY StartsStay DEF Inv
<1>2. ASSUME NEW t \in Turns PROVE HostInv(t)'
  <2>1. ASSUME hostTurn[t] = "failing" PROVE Told(t, Len(toClient) + 1)'
    <3>1. Len(toClient) \in Nat \ {0} /\ Len(toClient') = Len(toClient) - 1
      BY NextFrame
    <3>2. PICK n \in Nat : n = Len(toClient)
      BY <3>1
    <3>3. Told(t, n + 1)
      BY <2>1, <3>2 DEF Inv, TurnInv, HostInv
    <3>4. Told(t, n)'
      BY <3>3, ToldRouted
    <3>5. n = Len(toClient') + 1
      BY <3>1, <3>2
    <3> QED BY <3>4, <3>5
  <2>2. reader[t] = "none" => ~isClosed'[t]
    BY DEF Inv, TurnInv, HostInv, Registered, Reading
  <2> QED BY <2>1, <2>2 DEF Inv, TurnInv, HostInv
<1>3. ASSUME NEW t \in Turns, NEW i \in 1 .. Len(toClient') PROVE FrameOK(t, i)'
  <2>1. i \in Nat /\ i + 1 \in 1 .. Len(toClient) /\ toClient'[i] = toClient[i + 1]
    BY NextFrame
  <2>2. FrameOK(t, i + 1)
    BY <2>1 DEF Inv, FrameInv
  <2>3. Told(t, i + 1) => Told(t, i)'
    BY <2>1, ToldRouted
  <2> QED BY <2>1, <2>2, <2>3 DEF FrameOK
<1> QED BY <1>1, <1>2, <1>3 DEF Inv, TurnInv, FrameInv

LEMMA QueueStays ==
    ASSUME NEW t \in Turns, QueueInv(t), reader'[t] = reader[t], items'[t] = items[t], isClosed'[t] = isClosed[t],
           expected'[t] = expected[t], delivered'[t] = delivered[t], sequence'[t] = sequence[t], finished'[t] = finished[t]
    PROVE  QueueInv(t)'
BY DEF QueueInv, Registered

\* What the pump may do to the queues.
QueueTypes ==
    /\ expected' \in [Turns -> Nat] /\ items' \in [Turns -> Seq(Items)]
    /\ hasTurnEnded' \in [Turns -> BOOLEAN] /\ isClosed' \in [Turns -> BOOLEAN]
QueuesMove ==
    /\ QueueTypes
    /\ \A t \in Turns : /\ isClosed[t] => isClosed'[t]
                        /\ isClosed'[t] /\ ~isClosed[t] => Registered(t)
                        /\ QueueInv(t)'

LEMMA QueuesStay ==
    ASSUME Inv, UNCHANGED <<reader, delivered, sequence, finished, expected, items, hasTurnEnded, isClosed>>
    PROVE  QueuesMove
<1>1. QueueTypes
  BY DEF Inv, Types, QueueTypes
<1>2. \A t \in Turns : QueueInv(t)'
  BY QueueStays DEF Inv, TurnInv
<1> QED BY <1>1, <1>2 DEF QueuesMove

LEMMA EndsMoves ==
    ASSUME Inv, NEW t \in Turns, Registered(t), NEW x \in Items, x.item # "event",
           x.item = "closed" /\ ~isClosed[t] => finished[t] /\ expected[t] = sequence[t] + 1,
           Ends(t, x), UNCHANGED <<reader, expected, delivered, sequence, finished>>
    PROVE  QueuesMove /\ isClosed'[t]
<1>1. Enqueued(t, x) \in Seq(Items)
  BY EnqueuedTypes DEF Inv
<1>2. /\ items' = [items EXCEPT ![t] = Enqueued(t, x)]
      /\ hasTurnEnded' = [hasTurnEnded EXCEPT ![t] = TRUE]
      /\ isClosed' = [isClosed EXCEPT ![t] = TRUE]
  BY DEF Ends
<1>3. /\ items'[t] = Enqueued(t, x) /\ isClosed'[t]
      /\ \A u \in Turns : u # t => items'[u] = items[u] /\ isClosed'[u] = isClosed[u]
  BY <1>2 DEF Inv, Types
<1>4. QueueTypes
  BY <1>1, <1>2 DEF Inv, Types, QueueTypes
<1>5. QueueInv(t)'
  <2>1. Registered(t)'
    BY DEF Registered
  <2> QED BY <1>3, <2>1, EndQueued
<1>6. ASSUME NEW u \in Turns, u # t PROVE QueueInv(u)'
  BY <1>3, <1>6, QueueStays DEF Inv, TurnInv
<1> QED BY <1>3, <1>4, <1>5, <1>6 DEF QueuesMove

\* The next event is counted, and queued unless the queue is closed.
LEMMA NextEventMoves ==
    ASSUME Inv, NEW t \in Turns, expected[t] <= sequence[t], NEW x \in Items, x.item = "event",
           expected' = [expected EXCEPT ![t] = @ + 1], items' = [items EXCEPT ![t] = Enqueued(t, x)],
           UNCHANGED <<reader, delivered, sequence, finished, hasTurnEnded, isClosed>>
    PROVE  QueuesMove
<1> DEFINE n == Len(items[t])
<1>1. items[t] \in Seq(Items) /\ Enqueued(t, x) \in Seq(Items)
  BY EnqueuedTypes DEF Inv, Types
<1>2. n \in Nat /\ expected[t] \in Nat /\ sequence[t] \in Nat /\ delivered[t] \in Nat
  BY DEF Inv, Types
<1>3. /\ expected'[t] = expected[t] + 1 /\ items'[t] = Enqueued(t, x)
      /\ \A u \in Turns : u # t => expected'[u] = expected[u] /\ items'[u] = items[u]
  BY DEF Inv, Types
<1>4. QueueTypes
  BY <1>1 DEF Inv, Types, QueueTypes
<1>5. QueueInv(t) /\ 1 <= expected[t] /\ delivered[t] <= sequence[t]
  BY DEF Inv, TurnInv, QueueInv
<1>6. 1 <= expected'[t] /\ expected'[t] <= sequence[t] + 1
  BY <1>2, <1>3, <1>5
<1>7. CASE isClosed[t]
  <2>1. items'[t] = items[t]
    BY <1>3, <1>7 DEF Enqueued
  <2> QED BY <1>4, <1>5, <1>6, <1>7, <2>1, <1>3, QueueStays DEF QueueInv, Registered, QueuesMove, Inv, TurnInv
<1>8. CASE ~isClosed[t]
  <2>1. items'[t] = Append(items[t], x)
    BY <1>3, <1>8 DEF Enqueued
  <2>2. Len(items'[t]) = n + 1 /\ (\A i \in 1 .. n : items'[t][i] = items[t][i]) /\ items'[t][n + 1] = x
    BY <1>1, <2>1, AppendedIsOneMore
  <2>3. (\A i \in 1 .. n : items[t][i].item = "event") /\ delivered[t] + n + 1 = expected[t]
    BY <1>5, <1>8 DEF QueueInv
  <2>4. \A i \in 1 .. n + 1 : items'[t][i].item = "event"
    <3>1. ASSUME NEW i \in 1 .. n + 1, i # n + 1 PROVE i \in 1 .. n
      BY <1>2, <3>1
    <3> QED BY <2>2, <2>3, <3>1
  <2>5. delivered[t] + (n + 1) + 1 = expected'[t]
    <3>1. delivered[t] + n + 1 = expected[t]
      BY <2>3
    <3> QED BY <1>2, <1>3, <3>1
  <2> HIDE DEF n
  <2>6. QueueInv(t)'
    BY <1>5, <1>6, <1>8, <2>2, <2>4, <2>5 DEF QueueInv
  <2>7. \A u \in Turns : u # t => QueueInv(u)'
    BY <1>3, QueueStays DEF Inv, TurnInv
  <2> QED BY <1>4, <2>6, <2>7 DEF QueuesMove
<1> QED BY <1>7, <1>8

LEMMA RouteKeepsInv ==
    ASSUME Inv, Route
    PROVE  Inv'
<1> DEFINE f == toClient[1]
<1>1. /\ toClient # <<>> /\ toClient' = Tail(toClient)
      /\ UNCHANGED <<pump, reader, delivered, aborted, stdin, toHost, host, hostTurn, hostAborted, sequence, finished, results>>
  BY DEF Route, hostState
<1>2. Head(toClient) = f /\ f \in Frames /\ 1 \in 1 .. Len(toClient)
  BY <1>1, NextFrame
<1>3. \/ f.frame = "acknowledged" /\ ReceiveAcknowledgement(f)
      \/ f.frame = "models" /\ ReceiveModels(f)
      \/ f.frame = "error" /\ ReceiveError(f)
      \/ f.frame = "event" /\ Registered(f.turn) /\ ReceiveEvent(f)
      \/ f.frame = "closed" /\ Registered(f.turn) /\ ReceiveClosed(f)
      \/ f.frame \in {"event", "closed"} /\ ~Registered(f.turn) /\ UNCHANGED <<queue, request, modelList>>
  BY <1>2 DEF Route
<1>4. request' \in [Requests -> Settled \cup {"unsent", "waiting"}]
  <2>1. ASSUME NEW r, NEW how \in {"acknowledged", "refused"}, request' = SettledAs(r, how)
        PROVE  request' \in [Requests -> Settled \cup {"unsent", "waiting"}]
    BY <2>1 DEF SettledAs, Inv, Types, Settled
  <2>2. request' = SettledAs(f.request, "acknowledged") \/ request' = SettledAs(f.request, "refused") \/ request' = request
    BY <1>3 DEF ReceiveAcknowledgement, ReceiveModels, ReceiveError, ReceiveEvent, ReceiveClosed
  <2> QED BY <2>1, <2>2 DEF Inv, Types
<1>5. modelList' \in [Lists -> {"none", "waiting", "listed", "failed"}]
  <2>1. ASSUME NEW l, NEW k \in {"listed", "failed"}, modelList' = [modelList EXCEPT ![l] = IF @ = "waiting" THEN k ELSE @]
        PROVE  modelList' \in [Lists -> {"none", "waiting", "listed", "failed"}]
    BY <2>1 DEF Inv, Types
  <2>2. CASE f.frame = "models" /\ ReceiveModels(f)
    BY <2>1, <2>2 DEF ReceiveModels
  <2>3. CASE f.frame = "error" /\ ReceiveError(f)
    BY <2>1, <2>3 DEF ReceiveError, Inv, Types
  <2>4. CASE UNCHANGED modelList
    BY <2>4 DEF Inv, Types
  <2> QED BY <1>3, <2>2, <2>3, <2>4 DEF ReceiveAcknowledgement, ReceiveEvent, ReceiveClosed
<1>6. ASSUME QueuesMove,
             \A t \in Turns : f.frame = "error" /\ f.turn = t /\ Registered(t) => isClosed'[t]
      PROVE  Inv'
  <2>1. toClient' \in Seq(Frames)
    BY <1>1, NextFrame
  <2>2. Types'
    BY <1>1, <1>4, <1>5, <1>6, <2>1 DEF Inv, Types, QueuesMove, QueueTypes
  <2> QED BY <1>1, <1>6, <2>2, RoutingKeepsInv DEF QueuesMove
<1>7. CASE f.frame # "error" /\ UNCHANGED queue
  <2>1. QueuesMove
    BY <1>1, <1>7, QueuesStay DEF queue
  <2> QED BY <1>6, <1>7, <2>1
<1>8. CASE f.frame = "error" /\ ReceiveError(f)
  <2>1. CASE f.turn # NoTurn /\ Registered(f.turn)
    <3>1. PICK t \in Turns : t = f.turn
      BY <1>2, <1>8, <2>1 DEF Frames
    <3>2. Ends(t, Item("error", 0)) /\ UNCHANGED expected /\ Registered(t)
      BY <1>8, <2>1, <3>1 DEF ReceiveError
    <3>3. Item("error", 0) \in Items /\ Item("error", 0).item = "error"
      BY ItemTypes
    <3>4. QueuesMove /\ isClosed'[t]
      BY <1>1, <3>2, <3>3, EndsMoves
    <3> QED BY <1>6, <3>1, <3>4
  <2>2. CASE ~(f.turn # NoTurn /\ Registered(f.turn))
    <3>1. UNCHANGED queue
      BY <1>8, <2>2 DEF ReceiveError
    <3>2. QueuesMove
      BY <1>1, <3>1, QueuesStay DEF queue
    <3> QED BY <1>6, <2>2, <3>2
  <2> QED BY <2>1, <2>2
<1>9. ASSUME f.frame \in {"event", "closed"}
      PROVE  f.turn \in Turns /\ f.number \in Nat
  BY <1>2, <1>9 DEF Frames
<1>10. CASE f.frame = "event" /\ Registered(f.turn) /\ ReceiveEvent(f)
  <2>1. PICK t \in Turns : t = f.turn
    BY <1>9, <1>10
  <2>2. f.number <= sequence[t]
    BY <1>2, <1>10, <2>1 DEF Inv, FrameInv, FrameOK
  <2>3. CASE f.number # expected[t]
    <3>1. Ends(t, Item("wrong number", f.number)) /\ UNCHANGED expected /\ Registered(t)
      BY <1>10, <2>1, <2>3 DEF ReceiveEvent
    <3>2. Item("wrong number", f.number) \in Items /\ Item("wrong number", f.number).item = "wrong number"
      BY <1>9, <1>10, ItemTypes
    <3>3. QueuesMove
      BY <1>1, <3>1, <3>2, EndsMoves
    <3> QED BY <1>6, <1>10, <3>3
  <2>4. CASE f.number = expected[t]
    <3>1. /\ expected' = [expected EXCEPT ![t] = @ + 1]
          /\ items' = [items EXCEPT ![t] = Enqueued(t, Item("event", f.number))]
          /\ UNCHANGED <<hasTurnEnded, isClosed>>
      BY <1>10, <2>1, <2>4 DEF ReceiveEvent
    <3>2. Item("event", f.number) \in Items /\ Item("event", f.number).item = "event"
      BY <1>9, <1>10, ItemTypes
    <3>3. QueuesMove
      BY <1>1, <2>2, <2>4, <3>1, <3>2, NextEventMoves
    <3> QED BY <1>6, <1>10, <3>3
  <2> QED BY <2>3, <2>4
<1>11. CASE f.frame = "closed" /\ Registered(f.turn) /\ ReceiveClosed(f)
  <2>1. PICK t \in Turns : t = f.turn
    BY <1>9, <1>11
  <2>2. Registered(t) /\ UNCHANGED expected
    BY <1>11, <2>1 DEF ReceiveClosed
  <2>3. FrameOK(t, 1) /\ 1 <= expected[t] /\ expected[t] <= sequence[t] + 1 /\ expected[t] \in Nat /\ sequence[t] \in Nat
    BY <1>2 DEF Inv, FrameInv, TurnInv, QueueInv, Types
  <2>4. f.number = sequence[t] /\ (finished[t] \/ isClosed[t])
    BY <1>11, <2>1, <2>2, <2>3 DEF FrameOK, Told
  <2>5. CASE Ends(t, Item("wrong number", f.number))
    <3>1. Item("wrong number", f.number) \in Items /\ Item("wrong number", f.number).item = "wrong number"
      BY <1>9, <1>11, ItemTypes
    <3>2. QueuesMove
      BY <1>1, <2>2, <2>5, <3>1, EndsMoves
    <3> QED BY <1>6, <1>11, <3>2
  <2>6. CASE (f.number = 0 \/ f.number = expected[t] - 1) /\ Ends(t, Item("closed", 0))
    <3>1. Item("closed", 0) \in Items /\ Item("closed", 0).item = "closed"
      BY ItemTypes
    <3>2. expected[t] = sequence[t] + 1
      BY <2>3, <2>4, <2>6
    <3>3. QueuesMove
      BY <1>1, <2>2, <2>4, <2>6, <3>1, <3>2, EndsMoves
    <3> QED BY <1>6, <1>11, <3>3
  <2> QED BY <1>11, <2>1, <2>5, <2>6 DEF ReceiveClosed
<1> QED BY <1>3, <1>7, <1>8, <1>10, <1>11 DEF ReceiveAcknowledgement, ReceiveModels

-----------------------------------------------------------------------------
(* The host.                                                               *)

\* The host writes one frame.
LEMMA WrittenKeepsInv ==
    ASSUME Inv, Types', StartInv', NEW x \in Frames, SendToClient(<<x>>),
           \A t \in Turns : SameTurn(t) \/ (ClientMoves(t) /\ HostMoves(t) /\ TurnInv(t)'),
           NEW n \in Nat, n = Len(toClient) + 1, \A t \in Turns : FrameOK(t, n)'
    PROVE  Inv'
<1>1. toClient \in Seq(Frames) /\ Len(toClient) \in Nat
  BY DEF Inv, Types
<1>2. /\ Len(toClient') = Len(toClient) + 1
      /\ \A i \in 1 .. Len(toClient) : toClient'[i] = toClient[i]
  BY <1>1, OneMore DEF SendToClient
<1>3. PipeGrows
  BY <1>1, <1>2 DEF PipeGrows
<1>4. \A i \in 1 .. Len(toClient') : i > Len(toClient) => i = n
  BY <1>1, <1>2
<1> QED BY <1>3, <1>4, TurnsKeepInv

LEMMA Written ==
    ASSUME Types, NEW x \in Frames, SendToClient(<<x>>), NEW n \in Nat, n = Len(toClient) + 1
    PROVE  /\ toClient' \in Seq(Frames) /\ Len(toClient') = n /\ toClient'[n] = x
           /\ PipeGrows
<1>1. toClient \in Seq(Frames) /\ Len(toClient) \in Nat
  BY DEF Types
<1>2. /\ toClient' \in Seq(Frames) /\ Len(toClient') = Len(toClient) + 1
      /\ \A i \in 1 .. Len(toClient) : toClient'[i] = toClient[i]
      /\ toClient'[Len(toClient) + 1] = x
  BY <1>1, OneMore DEF SendToClient
<1> QED BY <1>1, <1>2 DEF PipeGrows

\* An answer says nothing of the events of a turn.
LEMMA AnswerKeepsInv ==
    ASSUME Inv, Types', StartInv', NEW x \in Frames, x.frame \notin {"event", "closed"}, SendToClient(<<x>>),
           \A t \in Turns : SameTurn(t) \/ (ClientMoves(t) /\ HostMoves(t) /\ TurnInv(t)')
    PROVE  Inv'
<1>1. PICK n \in Nat : n = Len(toClient) + 1
  BY DEF Inv, Types
<1>2. toClient'[n] = x
  BY <1>1, Written DEF Inv
<1>3. \A t \in Turns : FrameOK(t, n)'
  BY <1>2 DEF FrameOK
<1> QED BY <1>1, <1>3, WrittenKeepsInv

LEMMA NextRequest ==
    ASSUME Inv, toHost # <<>>, toHost' = Tail(toHost), reader' = reader,
           \A t \in Turns : Head(toHost) # StartOf(t) => hostTurn'[t] = hostTurn[t]
    PROVE  /\ Head(toHost) \in Requests /\ toHost' \in Seq(Requests)
           /\ \A t \in Turns : Head(toHost) = StartOf(t) => hostTurn[t] = "none" /\ reader[t] # "none"
           /\ StartInv'
<1>1. toHost \in Seq(Requests) /\ Len(toHost) \in Nat \ {0}
  BY DEF Inv, Types
<1>2. Head(toHost) = toHost[1] /\ Head(toHost) \in Requests /\ 1 \in 1 .. Len(toHost)
  BY <1>1
<1>3. toHost' \in Seq(Requests) /\ Len(toHost') = Len(toHost) - 1
      /\ \A i \in 1 .. Len(toHost') : toHost'[i] = toHost[i + 1]
  BY <1>1, HeadTailProperties
<1>4. \A t \in Turns : Head(toHost) = StartOf(t) => hostTurn[t] = "none" /\ reader[t] # "none"
  BY <1>2 DEF Inv, StartInv
<1>5. ASSUME NEW t \in Turns, NEW i \in 1 .. Len(toHost'), toHost'[i] = StartOf(t)
      PROVE  /\ hostTurn'[t] = "none" /\ reader'[t] # "none"
             /\ \A j \in 1 .. Len(toHost') : toHost'[j] = StartOf(t) => j = i
  <2>1. i \in Nat /\ i + 1 \in 1 .. Len(toHost) /\ toHost[i + 1] = StartOf(t) /\ i + 1 # 1
    BY <1>1, <1>3, <1>5
  <2>2. /\ hostTurn[t] = "none" /\ reader[t] # "none"
        /\ \A j \in 1 .. Len(toHost) : toHost[j] = StartOf(t) => j = i + 1
    BY <2>1 DEF Inv, StartInv
  <2>3. Head(toHost) # StartOf(t)
    BY <1>2, <2>1, <2>2
  <2>4. ASSUME NEW j \in 1 .. Len(toHost'), toHost'[j] = StartOf(t) PROVE j = i
    <3>1. j \in Nat /\ j + 1 \in 1 .. Len(toHost) /\ toHost[j + 1] = StartOf(t)
      BY <1>1, <1>3, <2>4
    <3> QED BY <2>1, <2>2, <3>1
  <2> QED BY <2>2, <2>3, <2>4
<1> QED BY <1>2, <1>3, <1>4, <1>5 DEF StartInv

LEMMA HandleRequestKeepsInv ==
    ASSUME Inv, HandleRequest
    PROVE  Inv'
<1> DEFINE r == Head(toHost)
<1>1. /\ toHost # <<>> /\ toHost' = Tail(toHost)
      /\ UNCHANGED <<request, modelList, pump, reader, hasTurnEnded, expected, items, isClosed, delivered, aborted, stdin>>
  BY DEF HandleRequest, client, queue
<1>2. r \in Requests
  BY <1>1 DEF Inv, Types
<1>3. Ack(r) \in Frames /\ Refusal(r) \in Frames /\ Ack(r).frame = "acknowledged" /\ Refusal(r).frame = "error"
  BY <1>2, FrameTypes DEF Ack, Refusal, Frame
<1>4. ASSUME NEW x \in {Ack(r), Refusal(r)}, SendToClient(<<x>>), UNCHANGED <<hostTurn, sequence, finished>>,
             host' \in {"serving", "stopping", "exited"} \cup Lists, hostAborted' \in [Turns -> BOOLEAN],
             results' \in [Turns -> SUBSET Calls]
      PROVE  Inv'
  <2>1. StartInv' /\ toHost' \in Seq(Requests)
    BY <1>1, <1>4, NextRequest
  <2>2. x \in Frames /\ x.frame \notin {"event", "closed"}
    BY <1>3
  <2>3. PICK n \in Nat : n = Len(toClient) + 1
    BY DEF Inv, Types
  <2>4. toClient' \in Seq(Frames)
    BY <1>4, <2>2, <2>3, Written DEF Inv
  <2>5. Types'
    BY <1>1, <1>4, <2>1, <2>4 DEF Inv, Types
  <2>6. \A t \in Turns : SameTurn(t)
    BY <1>1, <1>4 DEF SameTurn
  <2> QED BY <1>4, <2>1, <2>2, <2>5, <2>6, AnswerKeepsInv
<1>5. ASSUME r.kind = "start", hostTurn' = [hostTurn EXCEPT ![r.of] = "streaming"], SendToClient(<<Ack(r)>>),
             UNCHANGED <<host, hostAborted, sequence, finished, results>>
      PROVE  Inv'
  <2>1. PICK t \in Turns : r = StartOf(t) /\ r.of = t
    BY <1>2, <1>5, RequestKinds
  <2>2. hostTurn' \in [Turns -> Active \cup {"none", "gone"}] /\ hostTurn'[t] = "streaming"
        /\ \A u \in Turns : u # t => hostTurn'[u] = hostTurn[u]
    BY <1>5, <2>1 DEF Inv, Types, Active
  <2>3. \A u \in Turns : r # StartOf(u) => hostTurn'[u] = hostTurn[u]
    BY <2>1, <2>2
  <2>4. StartInv' /\ toHost' \in Seq(Requests) /\ hostTurn[t] = "none" /\ reader[t] # "none"
    BY <1>1, <2>1, <2>3, NextRequest
  <2>5. PICK n \in Nat : n = Len(toClient) + 1
    BY DEF Inv, Types
  <2>6. toClient' \in Seq(Frames)
    BY <1>3, <1>5, <2>5, Written DEF Inv
  <2>7. Types'
    BY <1>1, <1>5, <2>2, <2>4, <2>6 DEF Inv, Types
  <2>8. \A u \in Turns : u # t => SameTurn(u)
    BY <1>1, <1>5, <2>2 DEF SameTurn
  <2>9. ClientMoves(t) /\ HostMoves(t)
    <3>1. sequence[t] \in Nat
      BY DEF Inv, Types
    <3> QED BY <1>1, <1>5, <2>2, <2>4, <3>1 DEF ClientMoves, HostMoves, Registered
  <2>10. TurnInv(t)'
    <3>1. HostInv(t) /\ QueueInv(t)
      BY DEF Inv, TurnInv
    <3>2. QueueInv(t)'
      BY <1>1, <1>5, <3>1, QueueStays
    <3>3. HostInv(t)'
      BY <1>1, <1>5, <2>2, <2>4, <3>1 DEF HostInv
    <3> QED BY <3>2, <3>3 DEF TurnInv
  <2> QED BY <1>3, <1>5, <2>4, <2>7, <2>8, <2>9, <2>10, AnswerKeepsInv
<1>6. CASE r.kind = "start" /\ HandleStart(r)
  <2>1. SendToClient(<<Refusal(r)>>) /\ UNCHANGED <<host, hostState>> => Inv'
    BY <1>4 DEF hostState, Inv, Types
  <2> QED BY <1>5, <1>6, <2>1 DEF HandleStart
<1>7. CASE r.kind = "submit" /\ HandleSubmit(r)
  <2>1. PICK t \in Turns, c \in Calls : r.of = t /\ r.call = c
    BY <1>2, <1>7, RequestKinds
  <2>2. results' \in [Turns -> SUBSET Calls]
    <3>1. results' = results \/ results' = [results EXCEPT ![t] = @ \cup {c}]
      BY <1>7, <2>1 DEF HandleSubmit, hostState
    <3>2. results \in [Turns -> SUBSET Calls]
      BY DEF Inv, Types
    <3> QED BY <3>1, <3>2
  <2>3. UNCHANGED <<host, hostTurn, hostAborted, sequence, finished>> /\ \E x \in {Ack(r), Refusal(r)} : SendToClient(<<x>>)
    BY <1>7 DEF HandleSubmit, hostState
  <2> QED BY <1>4, <2>2, <2>3 DEF Inv, Types
<1>8. CASE r.kind = "cancel" /\ HandleCancel(r)
  <2>1. hostAborted' \in [Turns -> BOOLEAN]
    <3>1. hostAborted' = hostAborted \/ hostAborted' = [hostAborted EXCEPT ![r.of] = TRUE]
      BY <1>8 DEF HandleCancel, hostState
    <3>2. hostAborted \in [Turns -> BOOLEAN]
      BY DEF Inv, Types
    <3> QED BY <3>1, <3>2
  <2>2. UNCHANGED <<host, hostTurn, sequence, finished, results>> /\ \E x \in {Ack(r), Refusal(r)} : SendToClient(<<x>>)
    BY <1>8 DEF HandleCancel, hostState
  <2> QED BY <1>4, <2>1, <2>2 DEF Inv, Types
<1>9. CASE r.kind = "list" /\ HandleList(r)
  <2>1. r.of \in Lists
    BY <1>2, <1>9, RequestKinds
  <2> QED BY <1>4, <1>9, <2>1 DEF HandleList, hostState, Inv, Types
<1>10. \/ r.kind = "start" /\ HandleStart(r)
       \/ r.kind = "submit" /\ HandleSubmit(r)
       \/ r.kind = "cancel" /\ HandleCancel(r)
       \/ r.kind = "list" /\ HandleList(r)
  BY <1>2, RequestKinds DEF HandleRequest
<1> QED BY <1>6, <1>7, <1>8, <1>9, <1>10

LEMMA RestOfHostKeepsInv ==
    ASSUME Inv, ModelsFetched \/ RequestsEnd \/ Stopped \/ HostDies
    PROVE  Inv'
<1>1. /\ UNCHANGED <<request, modelList, pump, reader, hasTurnEnded, expected, items, isClosed, delivered, aborted, stdin,
                      toHost, hostTurn, sequence, finished, results>>
  BY DEF ModelsFetched, RequestsEnd, Stopped, HostDies, client, queue, hostState
<1>2. host' \in {"serving", "stopping", "exited"} \cup Lists
  BY DEF ModelsFetched, RequestsEnd, Stopped, HostDies
<1>3. hostAborted' \in [Turns -> BOOLEAN]
  <2>1. hostAborted' = hostAborted \/ hostAborted' = [t \in Turns |-> hostAborted[t] \/ hostTurn[t] \in Active]
    BY DEF ModelsFetched, RequestsEnd, Stopped, HostDies, hostState
  <2>2. hostAborted \in [Turns -> BOOLEAN]
    BY DEF Inv, Types
  <2> QED BY <2>1, <2>2
<1>4. StartInv' /\ \A t \in Turns : SameTurn(t)
  BY <1>1, StartsStay DEF SameTurn, Inv
<1>5. CASE toClient' = toClient
  <2>1. Types'
    BY <1>1, <1>2, <1>3, <1>5 DEF Inv, Types
  <2> QED BY <1>1, <1>4, <1>5, <2>1, RequestsKeepInv
<1>6. CASE ModelsFetched
  <2>1. PICK kind \in {"models", "error"} : SendToClient(<<Frame(kind, ListOf(host), NoTurn, 0)>>)
    BY <1>6 DEF ModelsFetched
  <2>2. PICK x \in Frames : x = Frame(kind, ListOf(host), NoTurn, 0)
    BY <1>6, FrameTypes DEF ModelsFetched
  <2>3. x.frame \notin {"event", "closed"}
    BY <2>2 DEF Frame
  <2>4. PICK n \in Nat : n = Len(toClient) + 1
    BY DEF Inv, Types
  <2>5. toClient' \in Seq(Frames)
    BY <2>1, <2>2, <2>4, Written DEF Inv
  <2>6. Types'
    BY <1>1, <1>2, <1>3, <2>5 DEF Inv, Types
  <2> QED BY <1>4, <2>1, <2>2, <2>3, <2>6, AnswerKeepsInv
<1> QED BY <1>5, <1>6 DEF RequestsEnd, Stopped, HostDies

\* A step of the stream of a turn moves the turn at the host, and writes one frame
\* of it.
LEMMA StreamKeepsInv ==
    ASSUME Inv, NEW t \in Turns, hostTurn[t] # "none", HostMoves(t),
           UNCHANGED <<client, stdin, toHost, host, hostAborted, results>>,
           NEW k \in {"event", "closed", "error"}, NEW m \in Nat, SendToClient(<<Frame(k, NoRequest, t, m)>>),
           hostTurn' \in [Turns -> Active \cup {"none", "gone"}], hostTurn'[t] # "none",
           sequence' \in [Turns -> 0 .. MaxEvents], finished' \in [Turns -> BOOLEAN],
           \A u \in Turns : u # t => hostTurn'[u] = hostTurn[u] /\ sequence'[u] = sequence[u] /\ finished'[u] = finished[u],
           hostTurn'[t] \in {"streaming", "failing"} => ~finished'[t],
           hostTurn'[t] = "failing" => k = "error",
           k \in {"event", "closed"} => m <= sequence'[t],
           k = "closed" => /\ hostTurn'[t] \in {"closing", "gone"} /\ m = sequence'[t]
                           /\ finished'[t] \/ hostTurn[t] = "failing",
           finished[t] => sequence'[t] = sequence[t]
    PROVE  Inv'
<1> DEFINE x == Frame(k, NoRequest, t, m)
<1>1. /\ UNCHANGED <<request, modelList, pump, reader, hasTurnEnded, expected, items, isClosed, delivered, aborted, stdin,
                      toHost, host, hostAborted, results>>
      /\ x \in Frames /\ x.frame = k /\ x.turn = t /\ x.number = m
  BY FrameTypes DEF client, queue, Frame
<1> HIDE DEF x
<1>2. PICK n \in Nat \ {0} : n = Len(toClient) + 1
  BY DEF Inv, Types
<1>3. SendToClient(<<x>>)
  BY DEF x
<1>4. toClient' \in Seq(Frames) /\ Len(toClient') = n /\ toClient'[n] = x /\ PipeGrows
  BY <1>1, <1>2, <1>3, Written DEF Inv
<1>5. Types'
  <2>1. Types
    BY DEF Inv
  <2> QED BY <1>1, <1>4, <2>1 DEF Types
<1>6. StartInv'
  <2>1. \A u \in Turns : hostTurn[u] = "none" => hostTurn'[u] = "none"
    OBVIOUS
  <2>2. toHost' = toHost /\ reader' = reader
    BY <1>1
  <2>3. StartInv
    BY DEF Inv
  <2> QED BY ONLY <2>1, <2>2, <2>3 DEF StartInv, StartOf
<1>7. \A u \in Turns : u # t => SameTurn(u)
  BY <1>1 DEF SameTurn
<1>8. reader[t] # "none" /\ ClientMoves(t)
  BY <1>1 DEF Inv, TurnInv, HostInv, ClientMoves, Registered
<1>9. TurnInv(t)'
  <2>1. HostInv(t)'
    <3>1. ASSUME hostTurn'[t] = "failing" PROVE Told(t, Len(toClient) + 1)'
      <4>1. x.frame = "error" /\ n \in 1 .. Len(toClient') /\ n < Len(toClient') + 1
        BY <1>1, <1>2, <1>4, <3>1
      <4> QED BY <1>1, <1>4, <4>1 DEF Told
    <3> QED BY <1>1, <1>8, <3>1 DEF HostInv
  <2>2. QueueInv(t)'
    <3>1. QueueInv(t) /\ sequence[t] \in Nat /\ sequence'[t] \in Nat /\ sequence[t] <= sequence'[t] /\ (finished[t] => finished'[t])
          /\ expected[t] \in Nat /\ delivered[t] \in Nat /\ Len(items[t]) \in Nat
      BY DEF Inv, TurnInv, Types, HostMoves
    <3> QED BY <1>1, <3>1 DEF QueueInv, Registered
  <2> QED BY <2>1, <2>2 DEF TurnInv
<1>10. ASSUME NEW u \in Turns PROVE FrameOK(u, n)'
  <2>1. CASE u # t
    BY <1>1, <1>4, <2>1 DEF FrameOK
  <2>2. CASE u = t
    <3>1. hostTurn[t] = "failing" => Told(t, n)'
      <4>1. hostTurn[t] = "failing" => Told(t, n)
        BY <1>2 DEF Inv, TurnInv, HostInv
      <4> QED BY <1>4, <1>5, <1>8, <4>1, ToldStays DEF Inv
    <3> QED BY <1>1, <1>4, <1>8, <2>2, <3>1 DEF FrameOK
  <2> QED BY <2>1, <2>2
<1> QED BY <1>1, <1>2, <1>3, <1>5, <1>6, <1>7, <1>8, <1>9, <1>10, WrittenKeepsInv

LEMMA StreamStepsKeepInv ==
    ASSUME Inv, NEW t \in Turns, StreamStep(t) \/ FailStream(t)
    PROVE  Inv'
<1>1. /\ hostTurn \in [Turns -> Active \cup {"none", "gone"}] /\ sequence \in [Turns -> 0 .. MaxEvents]
      /\ finished \in [Turns -> BOOLEAN] /\ sequence[t] \in Nat
  BY DEF Inv, Types
<1>2. hostTurn[t] \in {"none", "streaming", "failing"} => ~finished[t]
  BY DEF Inv, TurnInv, HostInv
<1>3. CASE EmitEvent(t)
  <2>1. /\ hostTurn[t] = "streaming" /\ sequence[t] < MaxEvents
        /\ sequence' = [sequence EXCEPT ![t] = @ + 1]
        /\ SendToClient(<<Frame("event", NoRequest, t, sequence[t] + 1)>>)
        /\ UNCHANGED <<client, stdin, toHost, host, hostTurn, hostAborted, finished, results>>
    BY <1>3 DEF EmitEvent
  <2>2. sequence[t] + 1 \in 0 .. MaxEvents /\ sequence[t] + 1 \in Nat
    BY <1>1, <2>1
  <2>3. sequence' \in [Turns -> 0 .. MaxEvents] /\ sequence'[t] = sequence[t] + 1
        /\ \A u \in Turns : u # t => sequence'[u] = sequence[u]
    BY <1>1, <2>1, <2>2
  <2>4. HostMoves(t)
    BY <1>1, <2>1, <2>3 DEF HostMoves
  <2>5. sequence[t] + 1 <= sequence'[t] /\ ~finished[t]
    BY <1>2, <2>1, <2>2, <2>3
  <2> QED BY <1>1, <2>1, <2>2, <2>3, <2>4, <2>5, StreamKeepsInv
<1>4. CASE EndStream(t)
  <2>1. /\ hostTurn[t] = "streaming" /\ hostTurn' = [hostTurn EXCEPT ![t] = "closing"]
        /\ finished' = [finished EXCEPT ![t] = TRUE]
        /\ SendToClient(<<Frame("closed", NoRequest, t, sequence[t])>>)
        /\ UNCHANGED <<client, stdin, toHost, host, hostAborted, sequence, results>>
    BY <1>4 DEF EndStream
  <2>2. /\ hostTurn' \in [Turns -> Active \cup {"none", "gone"}] /\ hostTurn'[t] = "closing"
        /\ \A u \in Turns : u # t => hostTurn'[u] = hostTurn[u]
    BY <1>1, <2>1 DEF Active
  <2>3. /\ finished' \in [Turns -> BOOLEAN] /\ finished'[t]
        /\ \A u \in Turns : u # t => finished'[u] = finished[u]
    BY <1>1, <2>1
  <2>4. HostMoves(t) /\ sequence[t] <= sequence'[t]
    BY <1>1, <2>1, <2>2, <2>3 DEF HostMoves
  <2> QED BY <1>1, <2>1, <2>2, <2>3, <2>4, StreamKeepsInv
<1>5. CASE FailStream(t)
  <2>1. /\ hostTurn[t] = "streaming" /\ hostTurn' = [hostTurn EXCEPT ![t] = "failing"]
        /\ SendToClient(<<Frame("error", NoRequest, t, 0)>>)
        /\ UNCHANGED <<client, stdin, toHost, host, hostAborted, sequence, finished, results>>
    BY <1>5 DEF FailStream
  <2>2. /\ hostTurn' \in [Turns -> Active \cup {"none", "gone"}] /\ hostTurn'[t] = "failing"
        /\ \A u \in Turns : u # t => hostTurn'[u] = hostTurn[u]
    BY <1>1, <2>1 DEF Active
  <2>3. HostMoves(t) /\ ~finished'[t]
    BY <1>1, <1>2, <2>1, <2>2 DEF HostMoves
  <2> QED BY <1>1, <2>1, <2>2, <2>3, StreamKeepsInv
<1>6. CASE CloseFailedStream(t)
  <2>1. /\ hostTurn[t] = "failing" /\ hostTurn' = [hostTurn EXCEPT ![t] = "closing"]
        /\ SendToClient(<<Frame("closed", NoRequest, t, sequence[t])>>)
        /\ UNCHANGED <<client, stdin, toHost, host, hostAborted, sequence, finished, results>>
    BY <1>6 DEF CloseFailedStream
  <2>2. /\ hostTurn' \in [Turns -> Active \cup {"none", "gone"}] /\ hostTurn'[t] = "closing"
        /\ \A u \in Turns : u # t => hostTurn'[u] = hostTurn[u]
    BY <1>1, <2>1 DEF Active
  <2>3. HostMoves(t) /\ sequence[t] <= sequence'[t]
    BY <1>1, <2>1, <2>2 DEF HostMoves
  <2> QED BY <1>1, <2>1, <2>2, <2>3, StreamKeepsInv
<1>7. CASE ForgetTurn(t)
  <2>1. /\ hostTurn[t] = "closing" /\ hostTurn' = [hostTurn EXCEPT ![t] = "gone"]
        /\ UNCHANGED <<request, modelList, pump, reader, hasTurnEnded, expected, items, isClosed, delivered, aborted, stdin,
                        toHost, toClient, host, hostAborted, sequence, finished, results>>
    BY <1>7 DEF ForgetTurn, client, queue
  <2>2. /\ hostTurn' \in [Turns -> Active \cup {"none", "gone"}] /\ hostTurn'[t] = "gone"
        /\ \A u \in Turns : u # t => hostTurn'[u] = hostTurn[u]
    BY <1>1, <2>1 DEF Active
  <2>3. Types'
    BY <2>1, <2>2 DEF Inv, Types
  <2>4. StartInv'
    BY <2>1, <2>2 DEF Inv, StartInv
  <2>5. PipeGrows /\ \A i \in 1 .. Len(toClient') : ~(i > Len(toClient))
    BY <2>1 DEF PipeGrows, Inv, Types
  <2>6. \A u \in Turns : u # t => SameTurn(u)
    BY <2>1, <2>2 DEF SameTurn
  <2>7. ClientMoves(t) /\ HostMoves(t)
    BY <1>1, <2>1, <2>2 DEF ClientMoves, HostMoves, Registered
  <2>8. TurnInv(t)'
    <3>1. QueueInv(t)'
      BY <2>1, QueueStays DEF Inv, TurnInv
    <3>2. reader[t] # "none"
      BY <2>1 DEF Inv, TurnInv, HostInv
    <3>3. HostInv(t)'
      BY <2>1, <2>2, <3>2 DEF HostInv
    <3> QED BY <3>1, <3>3 DEF TurnInv
  <2> QED BY <2>3, <2>4, <2>5, <2>6, <2>7, <2>8, TurnsKeepInv
<1> QED BY <1>3, <1>4, <1>5, <1>6, <1>7 DEF StreamStep

-----------------------------------------------------------------------------
(* The invariant, and what it says of the types.                           *)

LEMMA InitInv == Init => Inv
<1> SUFFICES ASSUME Init PROVE Inv
  OBVIOUS
<1>1. Types
  BY DEF Init, Types, Settled, Reading, Active
<1>2. Len(toHost) = 0 /\ Len(toClient) = 0
  BY DEF Init
<1>3. StartInv /\ FrameInv
  BY <1>2 DEF StartInv, FrameInv
<1>4. ASSUME NEW t \in Turns PROVE TurnInv(t)
  <2>1. /\ hostTurn[t] = "none" /\ ~finished[t] /\ ~isClosed[t] /\ reader[t] = "none"
        /\ expected[t] = 1 /\ sequence[t] = 0 /\ delivered[t] = 0 /\ items[t] = <<>>
    BY DEF Init
  <2>2. Len(items[t]) = 0
    BY <2>1
  <2> QED BY <2>1, <2>2 DEF TurnInv, HostInv, QueueInv
<1> QED BY <1>1, <1>3, <1>4 DEF Inv

LEMMA StepInv == Inv /\ [Next]_vars => Inv'
<1> SUFFICES ASSUME Inv, [Next]_vars PROVE Inv'
  OBVIOUS
<1>1. ASSUME NEW t \in Turns, EngineStep(t) \/ Abort(t) \/ StopReading(t) \/ StreamStep(t) \/ FailStream(t)
      PROVE  Inv'
  <2>1. CASE Start(t)
    BY <2>1, StartKeepsInv
  <2>2. CASE StartSettled(t) \/ ContinueReading(t) \/ StopReading(t)
    BY <2>2, GoingOnKeepsInv
  <2>3. CASE Read(t)
    BY <2>3, ReadKeepsInv
  <2>4. CASE Abort(t) \/ \E c \in Calls : SubmitToolResult(t, c)
    BY <2>4, OtherRequestsKeepInv
  <2>5. CASE StreamStep(t) \/ FailStream(t)
    BY <2>5, StreamStepsKeepInv
  <2> QED BY <1>1, <2>1, <2>2, <2>3, <2>4, <2>5 DEF EngineStep
<1>2. CASE (\E l \in Lists : ListModels(l) \/ ListFails(l)) \/ (\E r \in Requests : TimesOut(r)) \/ CloseTransport
  BY <1>2, OtherRequestsKeepInv
<1>3. CASE Route
  BY <1>3, RouteKeepsInv
<1>4. CASE PumpEnds
  BY <1>4, PumpEndsKeepsInv
<1>5. CASE HostStep \/ HostDies
  BY <1>5, HandleRequestKeepsInv, RestOfHostKeepsInv DEF HostStep
<1>6. CASE UNCHANGED vars
  <2>1. /\ UNCHANGED <<request, modelList, pump, reader, hasTurnEnded, expected, items, isClosed, delivered, aborted, stdin,
                        toHost, toClient, host, hostTurn, hostAborted, sequence, finished, results>>
    BY <1>6 DEF vars, client, queue, hostState
  <2>2. Types' /\ StartInv'
    BY <2>1 DEF Inv, Types, StartInv
  <2> QED BY <2>1, <2>2, RequestsKeepInv
<1> QED BY <1>1, <1>2, <1>3, <1>4, <1>5, <1>6 DEF Next

\* Every variable stays in its range: no event of a turn is counted or handed on
\* beyond those the provider sends (providerEventSequenceNumber in the host,
\* nextExpectedProviderEventSequenceNumber in the client).
THEOREM TypeCorrect == Spec => []TypeOK
<1>1. ASSUME Inv PROVE TypeOK
  <2>1. ASSUME NEW t \in Turns PROVE expected[t] \in 1 .. MaxEvents + 1 /\ delivered[t] \in 0 .. MaxEvents
    <3>1. /\ 1 <= expected[t] /\ expected[t] <= sequence[t] + 1 /\ delivered[t] <= sequence[t]
          /\ expected[t] \in Nat /\ delivered[t] \in Nat /\ sequence[t] \in 0 .. MaxEvents
      BY <1>1 DEF Inv, TurnInv, QueueInv, Types
    <3> QED BY <3>1
  <2>2. expected \in [Turns -> 1 .. MaxEvents + 1] /\ delivered \in [Turns -> 0 .. MaxEvents]
    BY <1>1, <2>1 DEF Inv, Types
  <2> QED BY <1>1, <2>2 DEF Inv, Types, TypeOK
<1> QED BY <1>1, InitInv, StepInv, PTL DEF Spec

-----------------------------------------------------------------------------
(* The stream the engine reads.                                            *)

\* A stream that ends normally for the engine ended so at the provider, and the
\* engine was handed all of it.
LEMMA ClosedIsComplete ==
    ASSUME Inv, NEW t \in Turns, reader[t] = "reading", NextKind(t) = "closed", items[t] # <<>> \/ isClosed[t]
    PROVE  finished[t] /\ delivered[t] = sequence[t]
<1> DEFINE n == Len(items[t])
<1>1. Registered(t) /\ QueueInv(t)
  BY DEF Registered, Reading, Inv, TurnInv
<1>2. items[t] \in Seq(Items) /\ n \in Nat /\ delivered[t] \in Nat /\ sequence[t] \in Nat
  BY DEF Inv, Types
<1>3. items[t] # <<>>
  <2>1. isClosed[t] => n > 0
    BY <1>1 DEF QueueInv
  <2> QED BY <1>2, <2>1
<1>4. n \in Nat \ {0} /\ items[t][1].item = "closed"
  BY <1>3, Taken DEF NextKind
<1>5. isClosed[t]
  <2>1. ~isClosed[t] => \A i \in 1 .. n : items[t][i].item = "event"
    BY <1>1 DEF QueueInv
  <2> QED BY <1>4, <2>1
<1>6. /\ \A i \in 1 .. n : items[t][i].item = "event" <=> i < n
      /\ items[t][n].item = "closed" => finished[t] /\ delivered[t] + n = sequence[t] + 1
  BY <1>1, <1>5 DEF QueueInv
<1>7. n = 1
  <2>1. 1 \in 1 .. n
    BY <1>4
  <2>2. items[t][1].item = "event" <=> 1 < n
    BY <1>6, <2>1
  <2>3. ~(1 < n)
    BY <1>4, <2>2
  <2>4. \A k \in Nat \ {0} : ~(1 < k) => k = 1
    OBVIOUS
  <2> QED BY <1>4, <2>3, <2>4
<1>8. finished[t] /\ delivered[t] + n = sequence[t] + 1
  BY <1>4, <1>6, <1>7
<1>9. sequence[t] \in Nat
  BY DEF Inv, Types
<1> QED BY <1>2, <1>7, <1>8, <1>9

Over == {"completed", "failed", "left"}

LEMMA OutcomeStays ==
    ASSUME Types, \A t \in Turns : reader[t] \in Over \/ reader'[t] \in Over => reader'[t] = reader[t]
    PROVE  outcome' = outcome
BY DEF outcome, Over

LEMMA OutcomeMoves ==
    ASSUME Types, NEW t \in Turns, NEW end \in Over, reader' = [reader EXCEPT ![t] = end]
    PROVE  outcome' = [outcome EXCEPT ![t] = end]
BY DEF outcome, Over, Types

LEMMA ReaderRefines ==
    ASSUME Inv, NEW t \in Turns, StartSettled(t) \/ Read(t) \/ ContinueReading(t) \/ StopReading(t)
    PROVE  Stream!Next \/ UNCHANGED Stream!vars
<1>1. UNCHANGED <<sequence, finished>> /\ Registered(t) /\ reader \in [Turns -> Reading \cup {"none", "completed", "failed", "left"}]
      /\ outcome[t] = "open"
  BY DEF StartSettled, Read, ContinueReading, StopReading, hostState, Registered, Reading, outcome, Inv, Types
<1>2. CASE NextKind(t) = "event" /\ Read(t)
  <2>1. /\ reader[t] = "reading" /\ items[t] # <<>> /\ Head(items[t]).item = "event"
        /\ reader' = [reader EXCEPT ![t] = "holding"] /\ delivered' = [delivered EXCEPT ![t] = @ + 1]
        /\ items' = [items EXCEPT ![t] = Tail(@)]
        /\ UNCHANGED <<isClosed, expected>>
    BY <1>2 DEF Read, NextKind
  <2>2. items'[t] = Tail(items[t]) /\ delivered'[t] = delivered[t] + 1 /\ Registered(t)'
    BY <2>1 DEF Inv, Types, Registered, Reading
  <2>3. delivered[t] < sequence[t]
    BY <1>1, <2>1, <2>2, ReadEvent
  <2>4. outcome' = outcome
    BY <1>1, <2>1, OutcomeStays DEF Over, Inv
  <2>5. Stream!Deliver(t)
    BY <1>1, <2>1, <2>3, <2>4 DEF Stream!Deliver
  <2> QED BY <2>5 DEF Stream!Next
<1>3. CASE NextKind(t) = "closed" /\ Read(t)
  <2>1. reader[t] = "reading" /\ (items[t] # <<>> \/ isClosed[t]) /\ Dispose(t, "completed") /\ UNCHANGED delivered
    BY <1>3 DEF Read
  <2>2. finished[t] /\ delivered[t] = sequence[t]
    BY <1>3, <2>1, ClosedIsComplete
  <2>3. outcome' = [outcome EXCEPT ![t] = "completed"]
    BY <2>1, OutcomeMoves DEF Dispose, Over, Inv
  <2>4. Stream!Complete(t)
    BY <1>1, <2>1, <2>2, <2>3 DEF Stream!Complete
  <2> QED BY <2>4 DEF Stream!Next
<1>4. ASSUME NEW end \in {"failed", "left"}, Dispose(t, end), UNCHANGED delivered
      PROVE  Stream!Next
  <2>1. outcome' = [outcome EXCEPT ![t] = end]
    BY <1>4, OutcomeMoves DEF Dispose, Over, Inv
  <2>2. Stream!Break(t)
    BY <1>1, <1>4, <2>1 DEF Stream!Break
  <2> QED BY <2>2 DEF Stream!Next
<1>5. CASE reader' = [reader EXCEPT ![t] = "reading"] /\ UNCHANGED delivered
  <2>1. outcome' = outcome
    BY <1>1, <1>5, OutcomeStays DEF Over, Registered, Reading, Inv
  <2> QED BY <1>1, <1>5, <2>1 DEF Stream!vars
<1>6. CASE Read(t)
  BY <1>2, <1>3, <1>4, <1>6 DEF Read
<1>7. CASE StartSettled(t) \/ ContinueReading(t) \/ StopReading(t)
  BY <1>4, <1>5, <1>7 DEF StartSettled, ContinueReading, StopReading, queue
<1> QED BY <1>6, <1>7

LEMMA StreamRefines ==
    ASSUME Inv, NEW t \in Turns, StreamStep(t) \/ FailStream(t)
    PROVE  Stream!Next \/ UNCHANGED Stream!vars
<1>1. outcome' = outcome /\ UNCHANGED delivered
  BY DEF StreamStep, EmitEvent, EndStream, FailStream, CloseFailedStream, ForgetTurn, client, outcome
<1>2. hostTurn[t] = "streaming" => ~finished[t]
  BY DEF Inv, TurnInv, HostInv
<1>3. CASE EmitEvent(t)
  <2>1. Stream!Emit(t)
    BY <1>1, <1>2, <1>3 DEF EmitEvent, Stream!Emit
  <2> QED BY <2>1 DEF Stream!Next
<1>4. CASE EndStream(t)
  <2>1. Stream!Finish(t)
    BY <1>1, <1>2, <1>4 DEF EndStream, Stream!Finish
  <2> QED BY <2>1 DEF Stream!Next
<1>5. CASE FailStream(t) \/ CloseFailedStream(t) \/ ForgetTurn(t)
  BY <1>1, <1>5 DEF FailStream, CloseFailedStream, ForgetTurn, Stream!vars
<1> QED BY <1>3, <1>4, <1>5 DEF StreamStep

LEMMA OthersRefine ==
    ASSUME Inv,
           \/ \E t \in Turns : Start(t) \/ Abort(t) \/ \E c \in Calls : SubmitToolResult(t, c)
           \/ \E l \in Lists : ListModels(l) \/ ListFails(l)
           \/ \E r \in Requests : TimesOut(r)
           \/ Route \/ PumpEnds \/ CloseTransport \/ HostStep \/ HostDies \/ UNCHANGED vars
    PROVE  UNCHANGED Stream!vars
<1>1. CASE \E t \in Turns : Start(t)
  <2>1. PICK t \in Turns : Start(t)
    BY <1>1
  <2>2. UNCHANGED <<sequence, finished, delivered>>
    BY <2>1 DEF Start, hostState
  <2>3. outcome' = outcome
    BY <2>1, OutcomeStays DEF Start, Over, Inv, Types
  <2> QED BY <2>2, <2>3 DEF Stream!vars
<1>2. CASE UNCHANGED <<sequence, finished, delivered, reader>>
  BY <1>2 DEF Stream!vars, outcome
<1>3. CASE (\E t \in Turns : Abort(t) \/ \E c \in Calls : SubmitToolResult(t, c)) \/ (\E l \in Lists : ListModels(l) \/ ListFails(l))
           \/ (\E r \in Requests : TimesOut(r)) \/ CloseTransport \/ UNCHANGED vars
  BY <1>2, <1>3 DEF Abort, SubmitToolResult, ListModels, ListFails, TimesOut, CloseTransport, vars, client, hostState
<1>4. CASE Route \/ PumpEnds
  BY <1>2, <1>4 DEF Route, PumpEnds, hostState
<1>5. CASE HandleRequest
  <2>1. Head(toHost).kind \in {"start", "submit", "cancel", "list"}
    BY <1>5, RequestKinds DEF HandleRequest, Inv, Types
  <2>2. UNCHANGED <<sequence, finished>>
    BY <1>5, <2>1 DEF HandleRequest, HandleStart, HandleSubmit, HandleCancel, HandleList, hostState
  <2> QED BY <1>2, <1>5, <2>2 DEF HandleRequest, client
<1>6. CASE ModelsFetched \/ RequestsEnd \/ Stopped \/ HostDies
  BY <1>2, <1>6 DEF ModelsFetched, RequestsEnd, Stopped, HostDies, client, hostState
<1> QED BY <1>1, <1>3, <1>4, <1>5, <1>6 DEF HostStep

\* The engine reads through the protocol what a provider in its own process could
\* have given it: events in order and each once, a normal end only when the provider
\* ended so and everything before it was read, and nothing after the end
\* (receiveProviderEventFrame, receiveProviderTurnClosedFrame and
\* streamProviderEvents in the client, streamProviderEventsToProtocolFrames in the
\* host).
THEOREM ProtocolRefinesStream == Spec => StreamsLikeAProvider
<1>1. Init => Stream!Init
  BY DEF Init, Stream!Init, outcome
<1>2. Inv /\ [Next]_vars => [Stream!Next]_(Stream!vars)
  <2> SUFFICES ASSUME Inv, [Next]_vars PROVE Stream!Next \/ UNCHANGED Stream!vars
    OBVIOUS
  <2> QED BY ReaderRefines, StreamRefines, OthersRefine DEF Next, EngineStep
<1> QED BY <1>1, <1>2, InitInv, StepInv, PTL DEF Spec, StreamsLikeAProvider, Stream!Spec

-----------------------------------------------------------------------------
(* The results the host acknowledges.                                      *)

AckOnItsWay(r) == \E i \in 1 .. Len(toClient) : toClient[i].frame = "acknowledged" /\ toClient[i].request = r

\* An acknowledgement in the client or on its way there is of a result the turn got.
ResultInv == \A t \in Turns, c \in Calls :
    request[SubmitOf(t, c)] = "acknowledged" \/ AckOnItsWay(SubmitOf(t, c)) => c \in results[t]

\* A step acknowledges in the client what was on its way, and sends the
\* acknowledgement of a result with the result handed to the turn.
LEMMA AcksKeepResults ==
    ASSUME ResultInv, \A t \in Turns : results[t] \subseteq results'[t],
           \A r \in Requests : request'[r] = "acknowledged" => request[r] = "acknowledged" \/ AckOnItsWay(r),
           \A t \in Turns, c \in Calls : AckOnItsWay(SubmitOf(t, c))' => AckOnItsWay(SubmitOf(t, c)) \/ c \in results'[t]
    PROVE  ResultInv'
<1> SUFFICES ASSUME NEW t \in Turns, NEW c \in Calls, (request[SubmitOf(t, c)] = "acknowledged" \/ AckOnItsWay(SubmitOf(t, c)))'
             PROVE  c \in results'[t]
  BY DEF ResultInv
<1>1. SubmitOf(t, c) \in Requests
  BY RequestNames
<1>2. request[SubmitOf(t, c)] = "acknowledged" \/ AckOnItsWay(SubmitOf(t, c)) => c \in results'[t]
  BY DEF ResultInv
<1>3. CASE request'[SubmitOf(t, c)] = "acknowledged"
  BY <1>1, <1>2, <1>3
<1>4. CASE AckOnItsWay(SubmitOf(t, c))'
  BY <1>2, <1>4
<1> QED BY <1>3, <1>4 DEF SubmitOf

\* The client sends, gives up or reads.
LEMMA ClientKeepsResults ==
    ASSUME ResultInv, UNCHANGED <<toClient, results>>,
           \A r \in Requests : request'[r] = "acknowledged" => request[r] = "acknowledged"
    PROVE  ResultInv'
<1>1. \A t \in Turns, c \in Calls : AckOnItsWay(SubmitOf(t, c))' => AckOnItsWay(SubmitOf(t, c))
  BY DEF AckOnItsWay, SubmitOf
<1> QED BY <1>1, AcksKeepResults

LEMMA SendingKeepsResults ==
    ASSUME Types, ResultInv, UNCHANGED <<toClient, results>>, NEW rs, SendAll(rs)
    PROVE  ResultInv'
<1>1. ASSUME NEW r \in Requests PROVE request'[r] \in {request[r], "waiting", "refused"}
  <2>1. CASE request' = [q \in Requests |-> IF \E i \in 1 .. Len(rs) : rs[i] = q THEN "waiting" ELSE request[q]]
    BY <2>1
  <2>2. CASE request' = [q \in Requests |-> IF \E i \in 1 .. Len(rs) : rs[i] = q THEN "refused" ELSE request[q]]
    BY <2>2
  <2> QED BY <2>1, <2>2 DEF SendAll
<1>2. \A r \in Requests : request'[r] = "acknowledged" => request[r] = "acknowledged"
  BY <1>1
<1> QED BY <1>2, ClientKeepsResults

LEMMA EngineKeepsResults ==
    ASSUME Inv, ResultInv,
           \/ \E t \in Turns : \/ Start(t) \/ StartSettled(t) \/ Read(t) \/ ContinueReading(t) \/ StopReading(t) \/ Abort(t)
                               \/ \E c \in Calls : SubmitToolResult(t, c)
           \/ \E l \in Lists : ListModels(l) \/ ListFails(l)
           \/ \E r \in Requests : TimesOut(r)
           \/ PumpEnds \/ CloseTransport \/ UNCHANGED vars
    PROVE  ResultInv'
<1>1. Types
  BY DEF Inv
<1>2. CASE UNCHANGED <<request, toClient, results>>
  BY <1>2, ClientKeepsResults
<1>3. ASSUME NEW t \in Turns, Start(t) PROVE ResultInv'
  BY <1>1, <1>3, SendingKeepsResults DEF Start, hostState
<1>4. ASSUME NEW t \in Turns, Abort(t) PROVE ResultInv'
  BY <1>1, <1>2, <1>4, SendingKeepsResults DEF Abort, hostState
<1>5. ASSUME NEW t \in Turns, NEW c \in Calls, SubmitToolResult(t, c) PROVE ResultInv'
  BY <1>1, <1>5, SendingKeepsResults DEF SubmitToolResult, hostState
<1>6. ASSUME NEW l \in Lists, ListModels(l) PROVE ResultInv'
  BY <1>1, <1>6, SendingKeepsResults DEF ListModels, hostState
<1>7. CASE (\E r \in Requests : TimesOut(r)) \/ PumpEnds
  <2>1. UNCHANGED <<toClient, results>>
    BY <1>7 DEF TimesOut, PumpEnds, hostState
  <2>2. \A r \in Requests : request'[r] = "acknowledged" => request[r] = "acknowledged"
    <3>1. CASE \E q \in Requests : request' = [request EXCEPT ![q] = "timed out"]
      BY <1>1, <3>1 DEF Types
    <3>2. CASE request' = [r \in Requests |-> IF request[r] = "waiting" THEN "refused" ELSE request[r]]
      BY <3>2
    <3> QED BY <1>7, <3>1, <3>2 DEF TimesOut, PumpEnds
  <2> QED BY <2>1, <2>2, ClientKeepsResults
<1>8. ASSUME NEW t \in Turns, StartSettled(t) \/ Read(t) \/ ContinueReading(t) \/ StopReading(t) PROVE ResultInv'
  <2>1. UNCHANGED <<request, toClient, results>>
    BY <1>8 DEF StartSettled, Read, ContinueReading, StopReading, hostState
  <2> QED BY <1>2, <2>1
<1>9. ASSUME NEW l \in Lists, ListFails(l) PROVE ResultInv'
  BY <1>2, <1>9 DEF ListFails, hostState
<1>10. CASE CloseTransport \/ UNCHANGED vars
  BY <1>2, <1>10 DEF CloseTransport, vars, client, hostState
<1> QED BY <1>3, <1>4, <1>5, <1>6, <1>7, <1>8, <1>9, <1>10

LEMMA RouteKeepsResults ==
    ASSUME Inv, ResultInv, Route
    PROVE  ResultInv'
<1> DEFINE f == Head(toClient)
<1>1. toClient # <<>> /\ toClient' = Tail(toClient) /\ results' = results
  BY DEF Route, hostState
<1>2. /\ f = toClient[1] /\ 1 \in 1 .. Len(toClient)
      /\ \A i \in 1 .. Len(toClient') : i + 1 \in 1 .. Len(toClient) /\ toClient'[i] = toClient[i + 1]
  BY <1>1, NextFrame
<1>3. \A t \in Turns, c \in Calls : AckOnItsWay(SubmitOf(t, c))' => AckOnItsWay(SubmitOf(t, c))
  BY <1>2 DEF AckOnItsWay, SubmitOf
<1>4. \/ f.frame = "acknowledged" /\ request' = SettledAs(f.request, "acknowledged")
      \/ request' = SettledAs(f.request, "refused")
      \/ request' = request
  <2>1. CASE f.frame = "acknowledged" /\ ReceiveAcknowledgement(f)
    BY <2>1 DEF ReceiveAcknowledgement
  <2>2. CASE ReceiveModels(f) \/ ReceiveEvent(f) \/ ReceiveClosed(f) \/ UNCHANGED <<queue, request, modelList>>
    BY <2>2 DEF ReceiveModels, ReceiveEvent, ReceiveClosed
  <2>3. CASE ReceiveError(f)
    BY <2>3 DEF ReceiveError
  <2> QED BY <2>1, <2>2, <2>3 DEF Route
<1>5. ASSUME NEW r \in Requests, request'[r] = "acknowledged" PROVE request[r] = "acknowledged" \/ AckOnItsWay(r)
  <2>1. request \in [Requests -> Settled \cup {"unsent", "waiting"}]
    BY DEF Inv, Types
  <2>2. CASE f.frame = "acknowledged" /\ request' = SettledAs(f.request, "acknowledged")
    <3>1. f.request = r => AckOnItsWay(r)
      BY <1>2, <2>2 DEF AckOnItsWay
    <3>2. f.request # r => request'[r] = request[r]
      BY <2>1, <2>2 DEF SettledAs
    <3> QED BY <1>5, <3>1, <3>2
  <2>3. CASE request' = SettledAs(f.request, "refused") \/ request' = request
    BY <1>5, <2>1, <2>3 DEF SettledAs
  <2> QED BY <1>4, <2>2, <2>3
<1> QED BY <1>1, <1>3, <1>5, AcksKeepResults

\* The host writes one frame, and acknowledges a result only when it hands it on.
LEMMA WritingKeepsResults ==
    ASSUME Inv, ResultInv, request' = request, NEW x \in Frames, SendToClient(<<x>>),
           \A t \in Turns : results[t] \subseteq results'[t],
           x.frame = "acknowledged" => \A t \in Turns, c \in Calls : x.request = SubmitOf(t, c) => c \in results'[t]
    PROVE  ResultInv'
<1>1. PICK n \in Nat : n = Len(toClient) + 1
  BY DEF Inv, Types
<1>2. /\ Len(toClient') = n /\ toClient'[n] = x
      /\ \A k \in 1 .. Len(toClient) : toClient'[k] = toClient[k]
  BY <1>1, Written DEF Inv, PipeGrows
<1>3. \A i \in 1 .. Len(toClient') : i = n \/ i \in 1 .. Len(toClient)
  <2>1. Len(toClient) \in Nat
    BY DEF Inv, Types
  <2> QED BY <1>1, <1>2, <2>1
<1>4. ASSUME NEW t \in Turns, NEW c \in Calls, AckOnItsWay(SubmitOf(t, c))'
      PROVE  AckOnItsWay(SubmitOf(t, c)) \/ c \in results'[t]
  <2>1. PICK i \in 1 .. Len(toClient') : toClient'[i].frame = "acknowledged" /\ toClient'[i].request = SubmitOf(t, c)
    BY <1>4 DEF AckOnItsWay, SubmitOf
  <2>2. CASE i = n
    BY <1>2, <2>1, <2>2
  <2>3. CASE i \in 1 .. Len(toClient)
    BY <1>2, <2>1, <2>3 DEF AckOnItsWay
  <2> QED BY <1>3, <2>2, <2>3
<1> QED BY <1>4, AcksKeepResults

LEMMA HandleRequestKeepsResults ==
    ASSUME Inv, ResultInv, HandleRequest
    PROVE  ResultInv'
<1> DEFINE r == Head(toHost)
<1>1. request' = request
  BY DEF HandleRequest, client
<1>2. r \in Requests
  BY DEF HandleRequest, Inv, Types
<1>3. /\ Ack(r) \in Frames /\ Refusal(r) \in Frames
      /\ Ack(r).request = r /\ Refusal(r).frame = "error"
  BY <1>2, FrameTypes DEF Ack, Refusal, Frame
<1>4. CASE SendToClient(<<Refusal(r)>>) /\ results' = results
  BY <1>1, <1>3, <1>4, WritingKeepsResults
<1>5. CASE r.kind # "submit" /\ SendToClient(<<Ack(r)>>) /\ results' = results
  <2>1. \A t \in Turns, c \in Calls : r # SubmitOf(t, c)
    BY <1>5 DEF SubmitOf
  <2> QED BY <1>1, <1>3, <1>5, <2>1, WritingKeepsResults
<1>6. CASE r.kind = "submit" /\ SendToClient(<<Ack(r)>>) /\ results' = [results EXCEPT ![r.of] = @ \cup {r.call}]
  <2>1. r.of \in Turns /\ r.call \in Calls /\ results \in [Turns -> SUBSET Calls]
    BY <1>2, <1>6, RequestKinds DEF Inv, Types
  <2>2. r.call \in results'[r.of] /\ \A t \in Turns : results[t] \subseteq results'[t]
    BY <1>6, <2>1
  <2>3. \A t \in Turns, c \in Calls : r = SubmitOf(t, c) => t = r.of /\ c = r.call
    BY DEF SubmitOf
  <2>4. \A t \in Turns, c \in Calls : Ack(r).request = SubmitOf(t, c) => c \in results'[t]
    BY <1>3, <2>2, <2>3
  <2> QED BY <1>1, <1>3, <1>6, <2>2, <2>4, WritingKeepsResults
<1>7. \/ r.kind = "start" /\ HandleStart(r)
      \/ r.kind = "submit" /\ HandleSubmit(r)
      \/ r.kind = "cancel" /\ HandleCancel(r)
      \/ r.kind = "list" /\ HandleList(r)
  BY <1>2, RequestKinds DEF HandleRequest
<1> QED BY <1>4, <1>5, <1>6, <1>7 DEF HandleStart, HandleSubmit, HandleCancel, HandleList, hostState

LEMMA HostKeepsResults ==
    ASSUME Inv, ResultInv,
           \/ ModelsFetched \/ RequestsEnd \/ Stopped \/ HostDies
           \/ \E t \in Turns : StreamStep(t) \/ FailStream(t)
    PROVE  ResultInv'
<1>1. request' = request /\ results' = results
  BY DEF ModelsFetched, RequestsEnd, Stopped, HostDies, StreamStep, EmitEvent, EndStream, CloseFailedStream, ForgetTurn,
         FailStream, client, hostState
<1>2. CASE toClient' = toClient
  BY <1>1, <1>2, ClientKeepsResults
<1>3. CASE \E x \in Frames : x.frame # "acknowledged" /\ SendToClient(<<x>>)
  BY <1>1, <1>3, WritingKeepsResults
<1>4. CASE ModelsFetched
  <2>1. host \in Lists
    BY <1>4 DEF ModelsFetched
  <2>2. \A k \in {"models", "error"} : /\ Frame(k, ListOf(host), NoTurn, 0) \in Frames
                                       /\ Frame(k, ListOf(host), NoTurn, 0).frame # "acknowledged"
    BY <2>1, FrameTypes DEF Frame
  <2> QED BY <1>3, <1>4, <2>2 DEF ModelsFetched
<1>5. ASSUME NEW t \in Turns, StreamStep(t) \/ FailStream(t) PROVE ResultInv'
  <2>1. sequence[t] \in Nat /\ sequence[t] + 1 \in Nat /\ 0 \in Nat
    BY DEF Inv, Types
  <2>2. \A k \in {"event", "closed", "error"}, m \in Nat : /\ Frame(k, NoRequest, t, m) \in Frames
                                                           /\ Frame(k, NoRequest, t, m).frame # "acknowledged"
    BY FrameTypes DEF Frame
  <2> QED BY <1>2, <1>3, <1>5, <2>1, <2>2 DEF StreamStep, EmitEvent, EndStream, CloseFailedStream, ForgetTurn, FailStream
<1> QED BY <1>2, <1>4, <1>5 DEF RequestsEnd, Stopped, HostDies

\* What the client was told of a submission is true at the host, whatever was
\* cancelled, timed out or ended between: a result the engine counts as delivered
\* is one its provider turn got (submitToolResult in the client,
\* submitOpenAiProviderProtocolToolResult in the host).
THEOREM AcknowledgementsAreTrue == Spec => []AcknowledgedResultsArrive
<1>1. Init => ResultInv
  <2>1. \A t \in Turns, c \in Calls : SubmitOf(t, c) \in Requests
    BY RequestNames
  <2> QED BY <2>1 DEF Init, ResultInv, AckOnItsWay
<1>2. Inv /\ ResultInv /\ [Next]_vars => ResultInv'
  <2> SUFFICES ASSUME Inv, ResultInv, [Next]_vars PROVE ResultInv'
    OBVIOUS
  <2>1. CASE Route
    BY <2>1, RouteKeepsResults
  <2>2. CASE HandleRequest
    BY <2>2, HandleRequestKeepsResults
  <2> QED BY <2>1, <2>2, EngineKeepsResults, HostKeepsResults DEF Next, EngineStep, HostStep
<1>3. ResultInv => AcknowledgedResultsArrive
  BY DEF ResultInv, AcknowledgedResultsArrive
<1> QED BY <1>1, <1>2, <1>3, InitInv, StepInv, PTL DEF Spec

-----------------------------------------------------------------------------
(* The requests the client waits for.                                      *)

Asked(r) == \E i \in 1 .. Len(toHost) : toHost[i] = r
Answered(r) == \E i \in 1 .. Len(toClient) : toClient[i].frame \in {"acknowledged", "error"} /\ toClient[i].request = r
WaitInv == host # "exited" => \A r \in Requests : request[r] = "waiting" => Asked(r) \/ Answered(r)

\* A step that leaves a request waiting leaves it, or its answer, on its way.
LEMMA WaitsAreKept ==
    ASSUME WaitInv, host' # "exited" => host # "exited",
           \A r \in Requests : request'[r] = "waiting" =>
               \/ Asked(r)'
               \/ request[r] = "waiting" /\ (Asked(r) \/ Answered(r) => Asked(r)' \/ Answered(r)')
    PROVE  WaitInv'
BY DEF WaitInv

\* The client gives up or reads.
LEMMA ClientKeepsWaits ==
    ASSUME WaitInv, UNCHANGED <<toHost, toClient, host>>,
           \A r \in Requests : request'[r] = "waiting" => request[r] = "waiting"
    PROVE  WaitInv'
<1>1. \A r \in Requests : (Asked(r) => Asked(r)') /\ (Answered(r) => Answered(r)')
  BY DEF Asked, Answered
<1> QED BY <1>1, WaitsAreKept

LEMMA SendingKeepsWaits ==
    ASSUME Types, WaitInv, UNCHANGED <<toClient, host>>, NEW rs \in Seq(Requests), SendAll(rs)
    PROVE  WaitInv'
<1>1. CASE /\ toHost' = toHost \o rs
           /\ request' = [r \in Requests |-> IF \E i \in 1 .. Len(rs) : rs[i] = r THEN "waiting" ELSE request[r]]
  <2>1. /\ toHost \in Seq(Requests) /\ Len(toHost) \in Nat /\ Len(rs) \in Nat
        /\ Len(toHost') = Len(toHost) + Len(rs)
        /\ \A i \in 1 .. Len(toHost) : toHost'[i] = toHost[i]
        /\ \A i \in 1 .. Len(rs) : toHost'[Len(toHost) + i] = rs[i]
    <3>1. toHost \in Seq(Requests)
      BY DEF Types
    <3> QED BY <1>1, <3>1, ConcatProperties
  <2>2. ASSUME NEW r \in Requests, \E i \in 1 .. Len(rs) : rs[i] = r PROVE Asked(r)'
    <3>1. PICK i \in 1 .. Len(rs) : rs[i] = r
      BY <2>2
    <3>2. PICK k \in Nat : k = Len(toHost) + i
      BY <2>1
    <3>3. k \in 1 .. Len(toHost') /\ toHost'[k] = r
      BY <2>1, <3>1, <3>2
    <3> QED BY <3>3 DEF Asked
  <2>3. ASSUME NEW r \in Requests, Asked(r) PROVE Asked(r)'
    <3>1. PICK i \in 1 .. Len(toHost) : toHost[i] = r
      BY <2>3 DEF Asked
    <3>2. i \in 1 .. Len(toHost') /\ toHost'[i] = r
      BY <2>1, <3>1
    <3> QED BY <3>2 DEF Asked
  <2>4. \A r \in Requests : Answered(r) => Answered(r)'
    BY DEF Answered
  <2>5. \A r \in Requests : request'[r] = "waiting" => (\E i \in 1 .. Len(rs) : rs[i] = r) \/ request[r] = "waiting"
    BY <1>1
  <2> QED BY <2>2, <2>3, <2>4, <2>5, WaitsAreKept
<1>2. CASE /\ toHost' = toHost
           /\ request' = [r \in Requests |-> IF \E i \in 1 .. Len(rs) : rs[i] = r THEN "refused" ELSE request[r]]
  <2>1. \A r \in Requests : request'[r] = "waiting" => request[r] = "waiting"
    BY <1>2
  <2> QED BY <1>2, <2>1, ClientKeepsWaits
<1> QED BY <1>1, <1>2 DEF SendAll

LEMMA EngineKeepsWaits ==
    ASSUME Inv, WaitInv,
           \/ \E t \in Turns : \/ Start(t) \/ StartSettled(t) \/ Read(t) \/ ContinueReading(t) \/ StopReading(t) \/ Abort(t)
                               \/ \E c \in Calls : SubmitToolResult(t, c)
           \/ \E l \in Lists : ListModels(l) \/ ListFails(l)
           \/ \E r \in Requests : TimesOut(r)
           \/ PumpEnds \/ CloseTransport \/ UNCHANGED vars
    PROVE  WaitInv'
<1>1. Types
  BY DEF Inv
<1>2. CASE UNCHANGED <<request, toHost, toClient, host>>
  BY <1>2, ClientKeepsWaits
<1>3. ASSUME NEW t \in Turns, Start(t) PROVE WaitInv'
  <2>1. StartOf(t) \in Requests /\ CancelOf(t) \in Requests
    BY RequestNames
  <2>2. <<StartOf(t)>> \in Seq(Requests) /\ (IF aborted[t] THEN <<CancelOf(t)>> ELSE <<>>) \in Seq(Requests)
    BY <2>1
  <2>3. (IF aborted[t] THEN <<CancelOf(t)>> ELSE <<>>) \o <<StartOf(t)>> \in Seq(Requests)
    BY <2>2, ConcatProperties
  <2>4. UNCHANGED <<toClient, host>> /\ SendAll((IF aborted[t] THEN <<CancelOf(t)>> ELSE <<>>) \o <<StartOf(t)>>)
    BY <1>3 DEF Start
  <2> QED BY <1>1, <2>3, <2>4, SendingKeepsWaits
<1>4. ASSUME NEW r \in Requests, SendAll(<<r>>), UNCHANGED <<toClient, host>> PROVE WaitInv'
  <2>1. <<r>> \in Seq(Requests)
    OBVIOUS
  <2> QED BY <1>1, <1>4, <2>1, SendingKeepsWaits
<1>5. ASSUME NEW t \in Turns, Abort(t) PROVE WaitInv'
  <2>1. CancelOf(t) \in Requests
    BY RequestNames
  <2> QED BY <1>2, <1>4, <1>5, <2>1 DEF Abort
<1>6. ASSUME NEW t \in Turns, NEW c \in Calls, SubmitToolResult(t, c) PROVE WaitInv'
  <2>1. SubmitOf(t, c) \in Requests
    BY RequestNames
  <2> QED BY <1>4, <1>6, <2>1 DEF SubmitToolResult
<1>7. ASSUME NEW l \in Lists, ListModels(l) PROVE WaitInv'
  <2>1. ListOf(l) \in Requests
    BY RequestNames
  <2> QED BY <1>4, <1>7, <2>1 DEF ListModels
<1>8. CASE (\E r \in Requests : TimesOut(r)) \/ PumpEnds
  <2>1. UNCHANGED <<toHost, toClient, host>>
    BY <1>8 DEF TimesOut, PumpEnds
  <2>2. \A r \in Requests : request'[r] = "waiting" => request[r] = "waiting"
    <3>1. CASE \E q \in Requests : request' = [request EXCEPT ![q] = "timed out"]
      BY <1>1, <3>1 DEF Types
    <3>2. CASE request' = [r \in Requests |-> IF request[r] = "waiting" THEN "refused" ELSE request[r]]
      BY <3>2
    <3> QED BY <1>8, <3>1, <3>2 DEF TimesOut, PumpEnds
  <2> QED BY <2>1, <2>2, ClientKeepsWaits
<1>9. ASSUME NEW t \in Turns, StartSettled(t) \/ Read(t) \/ ContinueReading(t) \/ StopReading(t) PROVE WaitInv'
  <2>1. UNCHANGED <<request, toHost, toClient, host>>
    BY <1>9 DEF StartSettled, Read, ContinueReading, StopReading
  <2> QED BY <1>2, <2>1
<1>10. ASSUME NEW l \in Lists, ListFails(l) PROVE WaitInv'
  BY <1>2, <1>10 DEF ListFails
<1>11. CASE CloseTransport \/ UNCHANGED vars
  BY <1>2, <1>11 DEF CloseTransport, vars, client
<1> QED BY <1>3, <1>5, <1>6, <1>7, <1>8, <1>9, <1>10, <1>11

\* The pump settles the request whose answer it takes.
LEMMA RouteKeepsWaits ==
    ASSUME Inv, WaitInv, Route
    PROVE  WaitInv'
<1> DEFINE f == Head(toClient)
<1>1. toClient # <<>> /\ toClient' = Tail(toClient) /\ UNCHANGED <<toHost, host>>
  BY DEF Route
<1>2. /\ f = toClient[1] /\ Len(toClient) \in Nat \ {0} /\ Len(toClient') = Len(toClient) - 1 /\ f \in Frames
      /\ \A i \in 1 .. Len(toClient') : toClient'[i] = toClient[i + 1]
  BY <1>1, NextFrame
<1>3. request \in [Requests -> Settled \cup {"unsent", "waiting"}]
  BY DEF Inv, Types
<1>4. /\ request' = request \/ \E how \in Settled : request' = SettledAs(f.request, how)
      /\ f.frame \in {"acknowledged", "error"} /\ f.request # NoRequest => \E how \in Settled : request' = SettledAs(f.request, how)
  <2>1. CASE f.frame = "acknowledged" /\ ReceiveAcknowledgement(f)
    BY <2>1 DEF ReceiveAcknowledgement, Settled
  <2>2. CASE f.frame \notin {"acknowledged", "error"} /\ request' = request
    BY <2>2
  <2>3. CASE f.frame = "error" /\ ReceiveError(f)
    BY <2>3 DEF ReceiveError, Settled
  <2> QED BY <2>1, <2>2, <2>3 DEF Route, ReceiveModels, ReceiveEvent, ReceiveClosed
<1>5. ASSUME NEW r \in Requests, request'[r] = "waiting"
      PROVE  request[r] = "waiting" /\ ~(f.frame \in {"acknowledged", "error"} /\ f.request = r)
  <2>1. ASSUME NEW how \in Settled, request' = SettledAs(f.request, how)
        PROVE  request[r] = "waiting" /\ f.request # r
    BY <1>3, <1>5, <2>1 DEF SettledAs, Settled
  <2>2. r # NoRequest
    BY RequestKinds
  <2> QED BY <1>4, <1>5, <2>1, <2>2
<1>6. ASSUME NEW r \in Requests, request'[r] = "waiting", Answered(r) PROVE Answered(r)'
  <2>1. PICK i \in 1 .. Len(toClient) : toClient[i].frame \in {"acknowledged", "error"} /\ toClient[i].request = r
    BY <1>6 DEF Answered
  <2>2. i # 1
    BY <1>2, <1>5, <1>6, <2>1
  <2>3. PICK k \in Nat : k = i - 1
    BY <1>2, <2>2
  <2>4. k \in 1 .. Len(toClient') /\ i = k + 1
    BY <1>2, <2>2, <2>3
  <2>5. toClient'[k] = toClient[i]
    BY <1>2, <2>4
  <2> QED BY <2>1, <2>4, <2>5 DEF Answered
<1>7. \A r \in Requests : Asked(r) => Asked(r)'
  BY <1>1 DEF Asked
<1> QED BY <1>1, <1>5, <1>6, <1>7, WaitsAreKept

\* The host writes one frame.
LEMMA WritingKeepsAnswers ==
    ASSUME Inv, NEW x \in Frames, SendToClient(<<x>>), NEW r, Answered(r)
    PROVE  Answered(r)'
<1>1. PICK n \in Nat : n = Len(toClient) + 1
  BY DEF Inv, Types
<1>2. /\ Len(toClient) \in Nat /\ Len(toClient') = n
      /\ \A k \in 1 .. Len(toClient) : toClient'[k] = toClient[k]
  BY <1>1, Written DEF Inv, Types, PipeGrows
<1>3. PICK i \in 1 .. Len(toClient) : toClient[i].frame \in {"acknowledged", "error"} /\ toClient[i].request = r
  BY DEF Answered
<1>4. i \in 1 .. Len(toClient') /\ toClient'[i] = toClient[i]
  BY <1>1, <1>2
<1> QED BY <1>3, <1>4 DEF Answered

\* The host answers the request it takes.
LEMMA HandleRequestKeepsWaits ==
    ASSUME Inv, WaitInv, HandleRequest
    PROVE  WaitInv'
<1>1. toHost # <<>> /\ toHost' = Tail(toHost) /\ request' = request /\ host = "serving"
  BY DEF HandleRequest, client
<1>2. toHost \in Seq(Requests) /\ Len(toHost) \in Nat \ {0}
  BY <1>1 DEF Inv, Types
<1> PICK q \in Requests : q = Head(toHost)
  BY <1>2
<1>3. /\ q = toHost[1] /\ q \in Requests /\ Len(toHost') = Len(toHost) - 1
      /\ \A i \in 1 .. Len(toHost') : toHost'[i] = toHost[i + 1]
  BY <1>1, <1>2, HeadTailProperties
<1>4. ASSUME NEW r \in Requests, Asked(r), r # q PROVE Asked(r)'
  <2>1. PICK i \in 1 .. Len(toHost) : toHost[i] = r
    BY <1>4 DEF Asked
  <2>2. i # 1
    BY <1>3, <1>4, <2>1
  <2>3. PICK k \in Nat : k = i - 1
    BY <1>2, <2>2
  <2>4. k \in 1 .. Len(toHost') /\ i = k + 1
    BY <1>2, <1>3, <2>2, <2>3
  <2>5. toHost'[k] = r
    BY <1>3, <2>1, <2>4
  <2> QED BY <2>4, <2>5 DEF Asked
<1>5. \/ q.kind = "start" /\ HandleStart(q)
      \/ q.kind = "submit" /\ HandleSubmit(q)
      \/ q.kind = "cancel" /\ HandleCancel(q)
      \/ q.kind = "list" /\ HandleList(q)
  BY <1>3, RequestKinds DEF HandleRequest
<1>6. SendToClient(<<Ack(q)>>) \/ SendToClient(<<Refusal(q)>>)
  BY <1>5 DEF HandleStart, HandleSubmit, HandleCancel, HandleList
<1>7. PICK x \in Frames : SendToClient(<<x>>) /\ x.frame \in {"acknowledged", "error"} /\ x.request = q
  <2>1. Ack(q) \in Frames /\ Refusal(q) \in Frames
    BY FrameTypes
  <2>2. Ack(q).frame = "acknowledged" /\ Ack(q).request = q
    BY DEF Ack, Frame
  <2>3. Refusal(q).frame = "error" /\ Refusal(q).request = q
    BY DEF Refusal, Frame
  <2> QED BY <1>6, <2>1, <2>2, <2>3
<1>8. Answered(q)'
  <2>1. PICK n \in Nat : n = Len(toClient) + 1
    BY DEF Inv, Types
  <2>2. Len(toClient') = n /\ toClient'[n] = x
    BY <1>7, <2>1, Written DEF Inv
  <2>3. n \in 1 .. Len(toClient')
    <3>1. Len(toClient) \in Nat
      BY DEF Inv, Types
    <3> QED BY <2>1, <2>2, <3>1
  <2> QED BY <1>7, <2>2, <2>3 DEF Answered
<1>9. \A r \in Requests : Answered(r) => Answered(r)'
  BY <1>7, WritingKeepsAnswers
<1> QED BY <1>1, <1>4, <1>8, <1>9, WaitsAreKept

LEMMA HostKeepsWaits ==
    ASSUME Inv, WaitInv,
           \/ ModelsFetched \/ RequestsEnd \/ Stopped \/ HostDies
           \/ \E t \in Turns : StreamStep(t) \/ FailStream(t)
    PROVE  WaitInv'
<1>1. request' = request /\ toHost' = toHost /\ (host' # "exited" => host # "exited")
  BY DEF ModelsFetched, RequestsEnd, Stopped, HostDies, StreamStep, EmitEvent, EndStream, CloseFailedStream, ForgetTurn,
         FailStream, client
<1>2. \A r \in Requests : Asked(r) => Asked(r)'
  BY <1>1 DEF Asked
<1>3. CASE toClient' = toClient
  <2>1. \A r \in Requests : Answered(r) => Answered(r)'
    BY <1>3 DEF Answered
  <2> QED BY <1>1, <1>2, <2>1, WaitsAreKept
<1>4. CASE \E x \in Frames : SendToClient(<<x>>)
  <2>1. \A r \in Requests : Answered(r) => Answered(r)'
    BY <1>4, WritingKeepsAnswers
  <2> QED BY <1>1, <1>2, <2>1, WaitsAreKept
<1>5. CASE ModelsFetched
  <2>1. host \in Lists
    BY <1>5 DEF ModelsFetched
  <2>2. \A k \in {"models", "error"} : Frame(k, ListOf(host), NoTurn, 0) \in Frames
    BY <2>1, FrameTypes
  <2> QED BY <1>4, <1>5, <2>2 DEF ModelsFetched
<1>6. ASSUME NEW t \in Turns, StreamStep(t) \/ FailStream(t) PROVE WaitInv'
  <2>1. sequence[t] \in Nat /\ sequence[t] + 1 \in Nat /\ 0 \in Nat
    BY DEF Inv, Types
  <2>2. \A k \in {"event", "closed", "error"}, m \in Nat : Frame(k, NoRequest, t, m) \in Frames
    BY FrameTypes
  <2> QED BY <1>3, <1>4, <1>6, <2>1, <2>2 DEF StreamStep, EmitEvent, EndStream, CloseFailedStream, ForgetTurn, FailStream
<1> QED BY <1>3, <1>5, <1>6 DEF RequestsEnd, Stopped, HostDies

\* While the pump reads and the host lives, a request the client waits for is on its
\* way there or its answer is on its way back, also when the turn it names has ended
\* at either side (every case of the host's loop over requests answers;
\* routeIncomingProviderFrame settles the request of each answer).
THEOREM NoRequestIsForgotten == Spec => []RequestsStayAnswerable
<1>1. Init => WaitInv
  BY DEF Init, WaitInv
<1>2. Inv /\ WaitInv /\ [Next]_vars => WaitInv'
  <2> SUFFICES ASSUME Inv, WaitInv, [Next]_vars PROVE WaitInv'
    OBVIOUS
  <2>1. CASE Route
    BY <2>1, RouteKeepsWaits
  <2>2. CASE HandleRequest
    BY <2>2, HandleRequestKeepsWaits
  <2> QED BY <2>1, <2>2, EngineKeepsWaits, HostKeepsWaits DEF Next, EngineStep, HostStep
<1>3. ASSUME Inv, WaitInv PROVE RequestsStayAnswerable
  <2>1. \A r \in Requests : Asked(r) => Questions(r) # {}
    BY DEF Asked, Questions
  <2>2. \A r \in Requests : Answered(r) => Answers(r) # {}
    BY DEF Answered, Answers
  <2> QED BY <1>3, <2>1, <2>2 DEF WaitInv, RequestsStayAnswerable
<1> QED BY <1>1, <1>2, <1>3, InitInv, StepInv, PTL DEF Spec
=============================================================================
