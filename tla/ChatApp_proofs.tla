---------------------------- MODULE ChatApp_proofs ----------------------------
(***************************************************************************)
(* Theorems about the chat application: about the relay of a turn's events *)
(* into the chat's state and onto the screen (TranscriptRelay), for any    *)
(* turns, parts, lengths and failures, and about its loop over prompts,    *)
(* turns and compactions (ChatApp), for any number of sessions and prompts *)
(* and any depth of continuations.  The two specifications share no        *)
(* variable, and no theorem is about both.                                 *)
(***************************************************************************)
EXTENDS ChatApp, TranscriptRelay, HistoryProjection_proofs

-----------------------------------------------------------------------------
(* The folds over a queue.                                                  *)

Position(q, i) == [j \in DOMAIN q |-> j][i]

\* A step of ApplyAll, of Application and of Compacted, from b, at position i.
Step(fold, q, b, i) ==
    IF fold = "state" THEN Apply(b, q[i])
    ELSE IF fold = "application"
         THEN [state |-> Apply(b.state, q[i]),
               changes |-> Merge(b.changes, EventChanges(b.state, Apply(b.state, q[i]), q[i]))]
         ELSE IF Superseded(q, Position(q, i)) THEN b ELSE Append(b, q[Position(q, i)])

\* f is what the fold over the first n events comes to, for each set of positions.
RelayFolds(fold, base, q, f, n) ==
    f = [s \in SUBSET (1 .. n) |->
            IF s = {} THEN base ELSE Step(fold, q, f[s \ {Max(s)}], Max(s))]

\* What is known of the first n events goes on to the next.
LEMMA RelayFoldGoesOn ==
    ASSUME NEW fold, NEW base, NEW q, NEW n \in Nat, NEW f, RelayFolds(fold, base, q, f, n)
    PROVE  \E g : RelayFolds(fold, base, q, g, n + 1)
<1> DEFINE g == [s \in SUBSET (1 .. n + 1) |->
                   IF n + 1 \in s THEN Step(fold, q, f[s \ {n + 1}], n + 1) ELSE f[s]]
           At(s) == IF s = {} THEN base ELSE Step(fold, q, g[s \ {Max(s)}], Max(s))
<1>1. ASSUME NEW s \in SUBSET (1 .. n) PROVE g[s] = f[s]
  <2>1. s \in SUBSET (1 .. n + 1) /\ n + 1 \notin s
    OBVIOUS
  <2> QED BY <2>1
<1>2. ASSUME NEW s \in SUBSET (1 .. n + 1) PROVE g[s] = At(s)
  <2>1. CASE n + 1 \in s
    <3>1. Max(s) = n + 1
      <4>1. \A y \in s : n + 1 >= y
        OBVIOUS
      <4>2. \A x \in s : (\A y \in s : x >= y) => x = n + 1
        BY <2>1
      <4> QED BY <4>1, <4>2, <2>1 DEF Max
    <3>2. s \ {n + 1} \in SUBSET (1 .. n)
      OBVIOUS
    <3>3. g[s \ {n + 1}] = f[s \ {n + 1}]
      BY <1>1, <3>2
    <3>4. g[s] = Step(fold, q, f[s \ {n + 1}], n + 1)
      BY <2>1
    <3> HIDE DEF g
    <3> QED BY <3>1, <3>3, <3>4, <2>1
  <2>2. CASE n + 1 \notin s
    <3>1. s \in SUBSET (1 .. n) /\ s \ {Max(s)} \in SUBSET (1 .. n)
      <4>1. ASSUME NEW i \in s PROVE i \in 1 .. n
        BY <2>2
      <4> QED BY <4>1
    <3>2. g[s] = f[s] /\ g[s \ {Max(s)}] = f[s \ {Max(s)}]
      BY <3>1, <1>1
    <3>3. f[s] = IF s = {} THEN base ELSE Step(fold, q, f[s \ {Max(s)}], Max(s))
      BY <3>1 DEF RelayFolds
    <3> HIDE DEF g
    <3> QED BY <3>2, <3>3
  <2> QED BY <2>1, <2>2
<1>3. g = [s \in SUBSET (1 .. n + 1) |-> At(s)]
  <2>1. g = [s \in SUBSET (1 .. n + 1) |-> g[s]]
    OBVIOUS
  <2> HIDE DEF g, At
  <2> QED BY <2>1, <1>2
<1> HIDE DEF g
<1>4. RelayFolds(fold, base, q, g, n + 1)
  BY <1>3 DEF RelayFolds
<1> QED BY <1>4

\* Hence there is such a function for any number of events.
LEMMA RelayFoldExists ==
    ASSUME NEW fold, NEW base, NEW q, NEW n \in Nat
    PROVE  \E f : RelayFolds(fold, base, q, f, n)
<1> DEFINE S == {k \in Nat : \E f : RelayFolds(fold, base, q, f, k)}
<1>1. 0 \in S
  <2> DEFINE f == [s \in SUBSET (1 .. 0) |-> base]
  <2>1. \A s \in SUBSET (1 .. 0) : s = {}
    OBVIOUS
  <2>2. RelayFolds(fold, base, q, f, 0)
    BY <2>1 DEF RelayFolds
  <2> QED BY <2>2
<1>2. \A k \in Nat : k \in S => k + 1 \in S
  BY RelayFoldGoesOn
<1> HIDE DEF S
<1>3. n \in S
  BY <1>1, <1>2, AllNaturals
<1> QED BY <1>3 DEF S

\* a is what a fold comes to after each number of events, up to n.
Path(fold, base, q, a, n) ==
    a[0] = base /\ \A k \in 0 .. n - 1 : a[k + 1] = Step(fold, q, a[k], k + 1)

\* The fold is the end of a path with one step for each event.
LEMMA FoldIsPath ==
    ASSUME NEW fold, NEW base, NEW q, NEW n \in Nat, NEW f, RelayFolds(fold, base, q, f, n)
    PROVE  \E a : Path(fold, base, q, a, n) /\ a[n] = f[1 .. n]
<1> DEFINE a == [k \in 0 .. n |-> f[1 .. k]]
           At(s) == IF s = {} THEN base ELSE Step(fold, q, f[s \ {Max(s)}], Max(s))
<1>1. \A s \in SUBSET (1 .. n) : f[s] = At(s)
  BY DEF RelayFolds
<1>2. a[0] = base
  <2>1. 1 .. 0 = {} /\ {} \in SUBSET (1 .. n)
    OBVIOUS
  <2>2. f[{}] = base
    BY <1>1, <2>1
  <2> QED BY <2>1, <2>2
<1>3. ASSUME NEW k \in 0 .. n - 1 PROVE a[k + 1] = Step(fold, q, a[k], k + 1)
  <2>1. k \in Nat /\ k + 1 \in 0 .. n /\ k \in 0 .. n /\ 1 .. k + 1 \in SUBSET (1 .. n)
    OBVIOUS
  <2>2. Max(1 .. k + 1) = k + 1 /\ (1 .. k + 1) \ {k + 1} = 1 .. k /\ 1 .. k + 1 # {}
    BY <2>1, MaxOfSegment
  <2>3. f[1 .. k + 1] = Step(fold, q, f[1 .. k], k + 1)
    BY <1>1, <2>1, <2>2
  <2>4. a[k + 1] = f[1 .. k + 1] /\ a[k] = f[1 .. k]
    BY <2>1
  <2> QED BY <2>3, <2>4
<1>4. a[n] = f[1 .. n]
  OBVIOUS
<1> HIDE DEF a
<1> QED BY <1>2, <1>3, <1>4 DEF Path

\* The three folds as the operators of the model write them.
LEMMA StateUnfold ==
    ASSUME NEW E, NEW q \in Seq(E), NEW s
    PROVE  ApplyAll(s, q) = (CHOOSE f : RelayFolds("state", s, q, f, Len(q)))[1 .. Len(q)]
<1>1. DOMAIN q = 1 .. Len(q)
  OBVIOUS
<1> QED BY <1>1 DEF ApplyAll, FoldLeft, MapThenFoldSet, RelayFolds, Step

\* The same for the state together with its change set.
LEMMA ApplicationUnfold ==
    ASSUME NEW E, NEW q \in Seq(E), NEW s
    PROVE  Application(s, q) =
             (CHOOSE f : RelayFolds("application", [state |-> s, changes |-> NoChanges], q, f, Len(q)))[1 .. Len(q)]
<1>1. DOMAIN q = 1 .. Len(q) /\ "application" # "state"
  OBVIOUS
<1> QED BY <1>1 DEF Application, FoldLeft, MapThenFoldSet, RelayFolds, Step

\* The same for the queue without what is superseded.
LEMMA CompactedUnfold ==
    ASSUME NEW E, NEW q \in Seq(E)
    PROVE  Compacted(q) = (CHOOSE f : RelayFolds("compacted", <<>>, q, f, Len(q)))[1 .. Len(q)]
<1>1. DOMAIN q = 1 .. Len(q) /\ "compacted" # "state" /\ "compacted" # "application"
  OBVIOUS
<1>2. DOMAIN [i \in DOMAIN q |-> i] = 1 .. Len(q)
  BY <1>1
<1> QED BY <1>1, <1>2 DEF Compacted, FoldLeft, MapThenFoldSet, RelayFolds, Step, Position

\* Each of the folds is the end of its path.
LEMMA StatePath ==
    ASSUME NEW E, NEW q \in Seq(E), NEW s
    PROVE  \E a : Path("state", s, q, a, Len(q)) /\ ApplyAll(s, q) = a[Len(q)]
<1> DEFINE F == CHOOSE f : RelayFolds("state", s, q, f, Len(q))
<1>1. Len(q) \in Nat
  OBVIOUS
<1>2. RelayFolds("state", s, q, F, Len(q))
  BY <1>1, RelayFoldExists
<1>3. ApplyAll(s, q) = F[1 .. Len(q)]
  BY StateUnfold
<1> HIDE DEF F
<1> QED BY <1>1, <1>2, <1>3, FoldIsPath

\* So does the state together with its change set.
LEMMA ApplicationPath ==
    ASSUME NEW E, NEW q \in Seq(E), NEW s
    PROVE  \E a : /\ Path("application", [state |-> s, changes |-> NoChanges], q, a, Len(q))
                  /\ Application(s, q) = a[Len(q)]
<1> DEFINE base == [state |-> s, changes |-> NoChanges]
           F == CHOOSE f : RelayFolds("application", base, q, f, Len(q))
<1>1. Len(q) \in Nat
  OBVIOUS
<1>2. RelayFolds("application", base, q, F, Len(q))
  <2> HIDE DEF base
  <2> QED BY <1>1, RelayFoldExists
<1>3. Application(s, q) = F[1 .. Len(q)]
  BY ApplicationUnfold
<1> HIDE DEF F
<1>4. \E a : Path("application", base, q, a, Len(q)) /\ a[Len(q)] = F[1 .. Len(q)]
  <2> HIDE DEF base
  <2> QED BY <1>1, <1>2, FoldIsPath
<1> QED BY <1>3, <1>4

\* So does the queue without what is superseded.
LEMMA CompactedPath ==
    ASSUME NEW E, NEW q \in Seq(E)
    PROVE  \E a : Path("compacted", <<>>, q, a, Len(q)) /\ Compacted(q) = a[Len(q)]
<1> DEFINE F == CHOOSE f : RelayFolds("compacted", <<>>, q, f, Len(q))
<1>1. Len(q) \in Nat
  OBVIOUS
<1>2. RelayFolds("compacted", <<>>, q, F, Len(q))
  BY <1>1, RelayFoldExists
<1>3. Compacted(q) = F[1 .. Len(q)]
  BY CompactedUnfold
<1> HIDE DEF F
<1> QED BY <1>1, <1>2, <1>3, FoldIsPath

\* Two paths of states over the same events are the same.
LEMMA StatePathsAgree ==
    ASSUME NEW s, NEW p, NEW q, NEW m \in Nat, NEW n \in Nat, m <= n,
           \A i \in 1 .. m : p[i] = q[i],
           NEW a, Path("state", s, p, a, m), NEW b, Path("state", s, q, b, n)
    PROVE  a[m] = b[m]
<1> DEFINE S == {k \in Nat : k <= m => a[k] = b[k]}
<1>1. 0 \in S
  BY DEF Path
<1>2. ASSUME NEW k \in Nat, k \in S PROVE k + 1 \in S
  <2> SUFFICES ASSUME k + 1 <= m PROVE a[k + 1] = b[k + 1]
    OBVIOUS
  <2>1. k \in 0 .. m - 1 /\ k \in 0 .. n - 1 /\ k + 1 \in 1 .. m /\ k <= m
    OBVIOUS
  <2>2. a[k] = b[k] /\ p[k + 1] = q[k + 1]
    BY <1>2, <2>1
  <2>3. a[k + 1] = Apply(a[k], p[k + 1]) /\ b[k + 1] = Apply(b[k], q[k + 1])
    BY <2>1 DEF Path, Step
  <2> QED BY <2>2, <2>3
<1> HIDE DEF S
<1>3. m \in S
  BY <1>1, <1>2, AllNaturals
<1> QED BY <1>3 DEF S

\* No event changes nothing.
LEMMA ApplyNothing == ASSUME NEW s PROVE ApplyAll(s, <<>>) = s
<1>1. <<>> \in Seq({}) /\ Len(<<>>) = 0
  OBVIOUS
<1>2. PICK a : Path("state", s, <<>>, a, 0) /\ ApplyAll(s, <<>>) = a[0]
  BY <1>1, StatePath
<1> QED BY <1>2 DEF Path

\* The last event of a queue is applied last.
LEMMA ApplyAppend ==
    ASSUME NEW E, NEW q \in Seq(E), NEW e \in E, NEW s
    PROVE  ApplyAll(s, Append(q, e)) = Apply(ApplyAll(s, q), e)
<1> DEFINE n == Len(q)
           g == Append(q, e)
<1>1. g \in Seq(E) /\ n \in Nat /\ Len(g) = n + 1 /\ g[n + 1] = e /\ \A i \in 1 .. n : q[i] = g[i]
  OBVIOUS
<1>2. PICK a : Path("state", s, q, a, n) /\ ApplyAll(s, q) = a[n]
  BY StatePath
<1> HIDE DEF g
<1>3. PICK b : Path("state", s, g, b, n + 1) /\ ApplyAll(s, g) = b[n + 1]
  BY <1>1, StatePath
<1> HIDE DEF n
<1>4. n + 1 \in Nat /\ n <= n + 1 /\ n \in 0 .. (n + 1) - 1
  BY <1>1
<1>5. a[n] = b[n]
  BY <1>1, <1>2, <1>3, <1>4, StatePathsAgree
<1>6. b[n + 1] = Apply(b[n], g[n + 1])
  BY <1>3, <1>4 DEF Path, Step
<1> QED BY <1>1, <1>2, <1>3, <1>5, <1>6 DEF g

\* What is kept of a queue is a sequence of its events.
LEMMA CompactedIsSeq ==
    ASSUME NEW E, NEW q \in Seq(E), NEW a, Path("compacted", <<>>, q, a, Len(q))
    PROVE  \A k \in 0 .. Len(q) : a[k] \in Seq(E)
<1> DEFINE S == {k \in Nat : k <= Len(q) => a[k] \in Seq(E)}
<1>1. 0 \in S
  <2>1. <<>> \in Seq(E)
    OBVIOUS
  <2>2. a[0] = <<>>
    BY DEF Path
  <2> QED BY <2>1, <2>2
<1>2. ASSUME NEW k \in Nat, k \in S PROVE k + 1 \in S
  <2> SUFFICES ASSUME k + 1 <= Len(q) PROVE a[k + 1] \in Seq(E)
    OBVIOUS
  <2>1. k \in 0 .. Len(q) - 1 /\ k <= Len(q) /\ q[k + 1] \in E
    OBVIOUS
  <2>2. a[k] \in Seq(E)
    BY <1>2, <2>1
  <2>3. a[k + 1] = IF Superseded(q, k + 1) THEN a[k] ELSE Append(a[k], q[k + 1])
    <3>1. Position(q, k + 1) = k + 1
      BY <2>1 DEF Position
    <3> QED BY <3>1, <2>1 DEF Path, Step
  <2> QED BY <2>1, <2>2, <2>3
<1> HIDE DEF S
<1>3. Nat \subseteq S
  BY <1>1, <1>2, AllNaturals
<1>4. \A k \in 0 .. Len(q) : k \in Nat /\ k <= Len(q)
  OBVIOUS
<1> QED BY <1>3, <1>4 DEF S

-----------------------------------------------------------------------------
(* States of the chat, and the events of a turn.                            *)

MessageIds == {"user", "assistant"} \X Turns
PartIds    == MessageIds \X (DOMAIN KindOf \union {"notice"})

EndStatuses  == {"completed", "incomplete", "failed", "interrupted"}
PartStatuses == EndStatuses \union Unfinished \union {"streaming", "denied"}
NoticeKinds  == {"incomplete", "failed", "interrupted"}

MessageRecords == [status : EndStatuses \union {"streaming"}, parts : Seq(PartIds)]
PartRecords ==
    [kind : {"text", "reasoning", "tool"} \union NoticeKinds, status : PartStatuses, length : Nat, counted : BOOLEAN]

\* A call is not streamed, text and reasoning do not run, and a notice is final.
PartFits(p, part) ==
    /\ part.kind = "tool" => part.status # "streaming"
    /\ part.kind = "reasoning" => part.status \notin Unfinished
    /\ part.kind \in NoticeKinds => part.status \notin Unfinished \union {"streaming"}
    /\ p[2] # "notice" => part.kind = KindOf[p[2]]

\* The parts belong to the messages they name, and the messages list them all.
ContentOK(messages, order, parts) ==
    /\ DOMAIN messages \subseteq MessageIds /\ messages \in [DOMAIN messages -> MessageRecords]
    /\ DOMAIN parts \subseteq PartIds /\ parts \in [DOMAIN parts -> PartRecords]
    /\ order \in Seq(MessageIds) /\ ToSet(order) = DOMAIN messages
    /\ \A m \in DOMAIN messages : \A i \in DOMAIN messages[m].parts :
         messages[m].parts[i] \in DOMAIN parts /\ messages[m].parts[i][1] = m
    /\ \A p \in DOMAIN parts :
         p[1] \in DOMAIN messages /\ Contains(messages[p[1]].parts, p) /\ PartFits(p, parts[p])

Chat(st, approval, used, help, messages, order, parts) ==
    [status |-> st, approval |-> approval, usage |-> used, help |-> help,
     messages |-> messages, order |-> order, parts |-> parts]

ChatOK(s) ==
    /\ s = Chat(s.status, s.approval, s.usage, s.help, s.messages, s.order, s.parts)
    /\ ContentOK(s.messages, s.order, s.parts)

\* The fields of a chat, which is well formed if its content is.
LEMMA ChatFields ==
    ASSUME NEW a, NEW b, NEW c, NEW d, NEW e, NEW f, NEW g, ContentOK(e, f, g)
    PROVE  /\ ChatOK(Chat(a, b, c, d, e, f, g))
           /\ Chat(a, b, c, d, e, f, g).status = a /\ Chat(a, b, c, d, e, f, g).approval = b
           /\ Chat(a, b, c, d, e, f, g).usage = c /\ Chat(a, b, c, d, e, f, g).help = d
           /\ Chat(a, b, c, d, e, f, g).messages = e /\ Chat(a, b, c, d, e, f, g).order = f
           /\ Chat(a, b, c, d, e, f, g).parts = g
BY DEF ChatOK, Chat

\* A new message without parts keeps the content well formed.
LEMMA AddedMessage ==
    ASSUME NEW M, NEW O, NEW P, ContentOK(M, O, P), NEW m \in MessageIds \ DOMAIN M,
           NEW r \in MessageRecords, r.parts = <<>>
    PROVE  ContentOK(Restated(M, m, r), Append(O, m), P)
<1> DEFINE N == Restated(M, m, r)
<1>1. DOMAIN N = DOMAIN M \union {m} /\ N[m] = r /\ \A x \in DOMAIN M : N[x] = M[x]
  BY DEF Restated
<1>2. N \in [DOMAIN N -> MessageRecords]
  BY DEF Restated, ContentOK
<1> HIDE DEF N
<1>3. Append(O, m) \in Seq(MessageIds) /\ ToSet(Append(O, m)) = DOMAIN N
  <2>1. O \in Seq(MessageIds) /\ ToSet(O) = DOMAIN M
    BY DEF ContentOK
  <2>2. \A i \in DOMAIN Append(O, m) : (i \in DOMAIN O /\ Append(O, m)[i] = O[i]) \/ Append(O, m)[i] = m
    BY <2>1
  <2>3. \A i \in DOMAIN O : i \in DOMAIN Append(O, m) /\ Append(O, m)[i] = O[i]
    BY <2>1
  <2>4. Len(O) + 1 \in DOMAIN Append(O, m) /\ Append(O, m)[Len(O) + 1] = m
    BY <2>1
  <2> QED BY <1>1, <2>1, <2>2, <2>3, <2>4 DEF ToSet
<1>4. \A x \in DOMAIN N : \A i \in DOMAIN N[x].parts : N[x].parts[i] \in DOMAIN P /\ N[x].parts[i][1] = x
  BY <1>1 DEF ContentOK
<1>5. \A p \in DOMAIN P : p[1] \in DOMAIN N /\ Contains(N[p[1]].parts, p) /\ PartFits(p, P[p])
  BY <1>1 DEF ContentOK
<1> QED BY <1>1, <1>2, <1>3, <1>4, <1>5 DEF ContentOK, N

\* So does a new status of a message.
LEMMA NewStatus ==
    ASSUME NEW M, NEW O, NEW P, ContentOK(M, O, P), NEW m \in DOMAIN M, NEW st \in EndStatuses
    PROVE  ContentOK([M EXCEPT ![m].status = st], O, P)
<1> DEFINE N == [M EXCEPT ![m].status = st]
<1>1. M \in [DOMAIN M -> MessageRecords]
  BY DEF ContentOK
<1>2. DOMAIN N = DOMAIN M /\ \A x \in DOMAIN M : N[x].parts = M[x].parts /\ N[x] \in MessageRecords
  BY <1>1 DEF MessageRecords
<1>3. N \in [DOMAIN N -> MessageRecords]
  BY <1>2
<1> HIDE DEF N
<1> QED BY <1>2, <1>3 DEF ContentOK, N

\* So do other parts under the same ids.
LEMMA NewParts ==
    ASSUME NEW M, NEW O, NEW P, ContentOK(M, O, P), NEW Q \in [DOMAIN P -> PartRecords],
           \A p \in DOMAIN P : PartFits(p, Q[p])
    PROVE  ContentOK(M, O, Q)
BY DEF ContentOK

Upserted(M, p) == [M EXCEPT ![p[1]].parts = IF Contains(@, p) THEN @ ELSE Append(@, p)]

\* What naming a part does to the message it belongs to.
LEMMA UpsertedFacts ==
    ASSUME NEW M, NEW O, NEW P, ContentOK(M, O, P), NEW p \in PartIds, p[1] \in DOMAIN M
    PROVE  /\ DOMAIN Upserted(M, p) = DOMAIN M
           /\ Upserted(M, p) \in [DOMAIN M -> MessageRecords]
           /\ \A x \in DOMAIN M : x # p[1] => Upserted(M, p)[x] = M[x]
           /\ \A x \in DOMAIN M : Upserted(M, p)[x].status = M[x].status
           /\ Contains(M[p[1]].parts, p) => Upserted(M, p) = M
           /\ ~Contains(M[p[1]].parts, p) => Upserted(M, p)[p[1]].parts = Append(M[p[1]].parts, p)
<1> DEFINE m == p[1]
<1>1. M \in [DOMAIN M -> MessageRecords] /\ M[m] \in MessageRecords /\ M[m].parts \in Seq(PartIds)
  BY DEF ContentOK, MessageRecords
<1>2. Append(M[m].parts, p) \in Seq(PartIds)
  BY <1>1
<1>3. [M[m] EXCEPT !.parts = M[m].parts] = M[m] /\ [M[m] EXCEPT !.parts = Append(M[m].parts, p)] \in MessageRecords
  BY <1>1, <1>2 DEF MessageRecords
<1>4. CASE Contains(M[m].parts, p)
  <2>1. Upserted(M, p) = [M EXCEPT ![m] = [M[m] EXCEPT !.parts = M[m].parts]]
    BY <1>1, <1>4 DEF Upserted
  <2> HIDE DEF m
  <2>2. Upserted(M, p) = M
    BY <1>1, <1>3, <2>1
  <2> QED BY <2>2, <1>4, <1>1 DEF m
<1>5. CASE ~Contains(M[m].parts, p)
  <2>1. Upserted(M, p) = [M EXCEPT ![m] = [M[m] EXCEPT !.parts = Append(M[m].parts, p)]]
    BY <1>1, <1>5 DEF Upserted
  <2>2. [M[m] EXCEPT !.parts = Append(M[m].parts, p)].status = M[m].status
    BY <1>1 DEF MessageRecords
  <2>3. [M[m] EXCEPT !.parts = Append(M[m].parts, p)].parts = Append(M[m].parts, p)
    BY <1>1 DEF MessageRecords
  <2>4. m \in DOMAIN M
    OBVIOUS
  <2> DEFINE R == [M[m] EXCEPT !.parts = Append(M[m].parts, p)]
  <2> HIDE DEF R
  <2>5. Upserted(M, p) = [M EXCEPT ![m] = R] /\ R \in MessageRecords /\ R.status = M[m].status
          /\ R.parts = Append(M[m].parts, p)
    BY <2>1, <2>2, <2>3, <1>3 DEF R
  <2> HIDE DEF m
  <2> QED BY <2>4, <2>5, <1>1, <1>5 DEF m
<1> QED BY <1>4, <1>5

\* Adding a part, or replacing it, keeps the content well formed.
LEMMA UpsertedPart ==
    ASSUME NEW M, NEW O, NEW P, ContentOK(M, O, P), NEW p \in PartIds, p[1] \in DOMAIN M,
           NEW r \in PartRecords, PartFits(p, r)
    PROVE  ContentOK(Upserted(M, p), O, Restated(P, p, r))
<1> DEFINE N == Upserted(M, p)
           Q == Restated(P, p, r)
           m == p[1]
<1>1. DOMAIN Q = DOMAIN P \union {p} /\ Q[p] = r /\ \A x \in DOMAIN P : x # p => Q[x] = P[x]
  BY DEF Restated
<1>2. Q \in [DOMAIN Q -> PartRecords]
  BY DEF Restated, ContentOK
<1>3. /\ DOMAIN N = DOMAIN M /\ N \in [DOMAIN M -> MessageRecords]
      /\ \A x \in DOMAIN M : x # m => N[x] = M[x]
      /\ Contains(M[m].parts, p) => N = M
      /\ ~Contains(M[m].parts, p) => N[m].parts = Append(M[m].parts, p)
  BY UpsertedFacts
<1>4. M[m].parts \in Seq(PartIds) /\ m \in DOMAIN M
  BY DEF ContentOK, MessageRecords
<1> HIDE DEF N, Q
<1>5. \A i \in DOMAIN M[m].parts : M[m].parts[i] \in DOMAIN P /\ M[m].parts[i][1] = m
  BY <1>4 DEF ContentOK
<1>6. \A i \in DOMAIN N[m].parts : N[m].parts[i] \in DOMAIN Q /\ N[m].parts[i][1] = m
  <2> HIDE DEF m
  <2>1. CASE Contains(M[m].parts, p)
    BY <2>1, <1>1, <1>3, <1>5
  <2>2. CASE ~Contains(M[m].parts, p)
    <3>1. \A i \in DOMAIN Append(M[m].parts, p) :
            \/ i \in DOMAIN M[m].parts /\ Append(M[m].parts, p)[i] = M[m].parts[i]
            \/ Append(M[m].parts, p)[i] = p
      BY <1>4
    <3> QED BY <3>1, <2>2, <1>1, <1>3, <1>5 DEF m
  <2> QED BY <2>1, <2>2
<1>7. \A x \in DOMAIN N : \A i \in DOMAIN N[x].parts : N[x].parts[i] \in DOMAIN Q /\ N[x].parts[i][1] = x
  <2>1. \A x \in DOMAIN M : x # m => \A i \in DOMAIN N[x].parts : N[x].parts[i] \in DOMAIN P /\ N[x].parts[i][1] = x
    BY <1>3 DEF ContentOK
  <2> HIDE DEF m
  <2> QED BY <2>1, <1>1, <1>3, <1>6
<1>8. \A y \in DOMAIN P : Contains(N[y[1]].parts, y)
  <2> TAKE y \in DOMAIN P
  <2>1. y[1] \in DOMAIN M /\ Contains(M[y[1]].parts, y)
    BY DEF ContentOK
  <2>2. CASE y[1] # m \/ Contains(M[m].parts, p)
    BY <2>1, <2>2, <1>3
  <2>3. CASE y[1] = m /\ ~Contains(M[m].parts, p)
    <3>1. \A i \in 1 .. Len(M[m].parts) : i \in 1 .. Len(Append(M[m].parts, p)) /\ Append(M[m].parts, p)[i] = M[m].parts[i]
      BY <1>4
    <3> HIDE DEF m
    <3> QED BY <3>1, <2>1, <2>3, <1>3 DEF Contains
  <2> QED BY <2>2, <2>3
<1>9. Contains(N[m].parts, p)
  <2>1. CASE Contains(M[m].parts, p)
    BY <2>1, <1>3
  <2>2. CASE ~Contains(M[m].parts, p)
    <3>1. Len(M[m].parts) + 1 \in 1 .. Len(Append(M[m].parts, p)) /\ Append(M[m].parts, p)[Len(M[m].parts) + 1] = p
      BY <1>4
    <3> HIDE DEF m
    <3> QED BY <3>1, <2>2, <1>3 DEF Contains
  <2> QED BY <2>1, <2>2
<1>10. \A y \in DOMAIN Q : y[1] \in DOMAIN N /\ Contains(N[y[1]].parts, y) /\ PartFits(y, Q[y])
  <2>1. \A y \in DOMAIN P : y[1] \in DOMAIN N /\ PartFits(y, P[y])
    BY <1>3 DEF ContentOK
  <2> QED BY <2>1, <1>1, <1>3, <1>4, <1>8, <1>9
<1>11. DOMAIN Q \subseteq PartIds /\ DOMAIN M \subseteq MessageIds /\ O \in Seq(MessageIds) /\ ToSet(O) = DOMAIN M
  BY <1>1 DEF ContentOK
<1> QED BY <1>2, <1>3, <1>7, <1>10, <1>11 DEF ContentOK, N, Q

-----------------------------------------------------------------------------
(* What an event leaves alone.                                              *)

\* n has all that s has, and differs at most in the message m and its parts.
Touches(s, n, m) ==
    /\ ChatOK(n) /\ n.help = s.help
    /\ DOMAIN s.messages \subseteq DOMAIN n.messages /\ DOMAIN n.messages \subseteq DOMAIN s.messages \union {m}
    /\ DOMAIN s.parts \subseteq DOMAIN n.parts
    /\ \A p \in DOMAIN n.parts : p \in DOMAIN s.parts \/ p[1] = m
    /\ \A x \in DOMAIN s.messages : x # m => n.messages[x] = s.messages[x]
    /\ \A p \in DOMAIN s.parts : p[1] # m => n.parts[p] = s.parts[p]

\* So does a step of the end of a message, which is about nothing else.
Edits(s, n, m) == Touches(s, n, m) /\ n.status = s.status /\ n.approval = s.approval

\* Two steps about the same message are a step about it.
LEMMA EditsTwice ==
    ASSUME NEW s, NEW n, NEW k, NEW m, Edits(s, n, m), Edits(n, k, m)
    PROVE  Edits(s, k, m)
BY DEF Edits, Touches

\* So are two steps the first of which changes more than the message.
LEMMA TouchesThenEdits ==
    ASSUME NEW s, NEW n, NEW k, NEW m, Touches(s, n, m), Edits(n, k, m)
    PROVE  Touches(s, k, m)
BY DEF Edits, Touches

\* Doing nothing is a step about any message.
LEMMA EditsNothing == ASSUME NEW s, NEW m, ChatOK(s) PROVE Edits(s, s, m)
BY DEF Edits, Touches

\* The parts of a message are those that are named after it.
LEMMA PartsAreNamed ==
    ASSUME NEW s, ChatOK(s), NEW m \in DOMAIN s.messages
    PROVE  PartsOf(s, m) = {p \in DOMAIN s.parts : p[1] = m}
<1>1. ASSUME NEW p \in DOMAIN s.parts, Contains(s.messages[m].parts, p) PROVE p[1] = m
  <2>1. s.messages[m].parts \in Seq(PartIds)
    BY DEF ChatOK, ContentOK, MessageRecords
  <2>2. PICK i \in 1 .. Len(s.messages[m].parts) : s.messages[m].parts[i] = p
    BY <1>1 DEF Contains
  <2>3. i \in DOMAIN s.messages[m].parts
    BY <2>1
  <2> QED BY <2>2, <2>3 DEF ChatOK, ContentOK
<1>2. \A p \in DOMAIN s.parts : p[1] = m => Contains(s.messages[m].parts, p)
  BY DEF ChatOK, ContentOK
<1> QED BY <1>1, <1>2 DEF PartsOf

\* The status, the approval and the usage are set together.
LEMMA HeadIs ==
    ASSUME NEW s, ChatOK(s), NEW st, NEW approval, NEW used
    PROVE  /\ [s EXCEPT !.status = st, !.approval = approval]
                = Chat(st, approval, s.usage, s.help, s.messages, s.order, s.parts)
           /\ [s EXCEPT !.status = st, !.approval = approval, !.usage = used]
                = Chat(st, approval, used, s.help, s.messages, s.order, s.parts)
<1> DEFINE s1 == [s EXCEPT !.status = st]
           s2 == [s1 EXCEPT !.approval = approval]
<1>1. s = Chat(s.status, s.approval, s.usage, s.help, s.messages, s.order, s.parts)
  BY DEF ChatOK
<1>2. /\ [s EXCEPT !.status = st, !.approval = approval] = s2
      /\ [s EXCEPT !.status = st, !.approval = approval, !.usage = used] = [s2 EXCEPT !.usage = used]
  OBVIOUS
<1>3. s1 = Chat(st, s.approval, s.usage, s.help, s.messages, s.order, s.parts)
  BY <1>1 DEF Chat
<1> HIDE DEF s1
<1>4. s2 = Chat(st, approval, s.usage, s.help, s.messages, s.order, s.parts)
  BY <1>3 DEF Chat
<1> HIDE DEF s2
<1>5. [s2 EXCEPT !.usage = used] = Chat(st, approval, used, s.help, s.messages, s.order, s.parts)
  BY <1>4 DEF Chat
<1> QED BY <1>2, <1>4, <1>5

\* What a step that sets them keeps.
LEMMA HeadStep ==
    ASSUME NEW s, ChatOK(s), NEW m, NEW st, NEW approval, NEW used, NEW n,
           n = Chat(st, approval, used, s.help, s.messages, s.order, s.parts)
    PROVE  /\ Touches(s, n, m) /\ n.status = st /\ n.approval = approval
           /\ n.messages = s.messages /\ n.order = s.order /\ n.parts = s.parts
<1>1. ContentOK(s.messages, s.order, s.parts)
  BY DEF ChatOK
<1>2. /\ ChatOK(n) /\ n.status = st /\ n.approval = approval /\ n.help = s.help
      /\ n.messages = s.messages /\ n.order = s.order /\ n.parts = s.parts
  BY <1>1, ChatFields
<1>3. Touches(s, n, m)
  BY <1>2 DEF Touches
<1> QED BY <1>2, <1>3

\* appendConversationMessageIfMissing: a step about its message.
LEMMA MessageStep ==
    ASSUME NEW s, ChatOK(s), NEW m \in MessageIds, NEW r \in MessageRecords, r.parts = <<>>
    PROVE  LET n == AppendMessageIfMissing(s, m, r) IN Edits(s, n, m) /\ m \in DOMAIN n.messages
<1> DEFINE n == AppendMessageIfMissing(s, m, r)
<1>1. CASE m \in DOMAIN s.messages
  BY <1>1, EditsNothing DEF AppendMessageIfMissing
<1>2. CASE m \notin DOMAIN s.messages
  <2> DEFINE M == Restated(s.messages, m, r)
             O == Append(s.order, m)
  <2>1. n = Chat(s.status, s.approval, s.usage, s.help, M, O, s.parts)
    BY <1>2 DEF AppendMessageIfMissing, ChatOK, Chat
  <2>2. ContentOK(M, O, s.parts)
    BY <1>2, AddedMessage DEF ChatOK
  <2>3. DOMAIN M = DOMAIN s.messages \union {m} /\ \A x \in DOMAIN s.messages : x # m => M[x] = s.messages[x]
    BY DEF Restated
  <2> HIDE DEF n, M, O
  <2>4. /\ ChatOK(n) /\ n.status = s.status /\ n.approval = s.approval /\ n.help = s.help
        /\ n.messages = M /\ n.parts = s.parts
    BY <2>1, <2>2, ChatFields
  <2> QED BY <2>3, <2>4 DEF Edits, Touches, n
<1> QED BY <1>1, <1>2

\* upsertConversationMessagePart: a step about the message of the part.
LEMMA UpsertStep ==
    ASSUME NEW s, ChatOK(s), NEW p \in PartIds, NEW r \in PartRecords, PartFits(p, r)
    PROVE  LET n == UpsertPart(s, p, r) IN
           /\ Edits(s, n, p[1])
           /\ \A x \in DOMAIN s.messages : n.messages[x].status = s.messages[x].status
           /\ p[1] \in DOMAIN s.messages => n.parts = Restated(s.parts, p, r)
           /\ p \in DOMAIN s.parts => n = Chat(s.status, s.approval, s.usage, s.help, s.messages, s.order,
                                               Restated(s.parts, p, r))
<1> DEFINE n == UpsertPart(s, p, r)
           m == p[1]
<1>1. CASE m \notin DOMAIN s.messages
  <2>1. n = s /\ p \notin DOMAIN s.parts
    BY <1>1 DEF UpsertPart, ChatOK, ContentOK
  <2> QED BY <2>1, <1>1, EditsNothing
<1>2. CASE m \in DOMAIN s.messages
  <2> DEFINE M == Upserted(s.messages, p)
             P == Restated(s.parts, p, r)
  <2>1. n = Chat(s.status, s.approval, s.usage, s.help, M, s.order, P)
    <3>1. s = Chat(s.status, s.approval, s.usage, s.help, s.messages, s.order, s.parts)
      BY DEF ChatOK
    <3>2. n = [s EXCEPT !.parts = P, !.messages = M]
      BY <1>2, <3>1 DEF UpsertPart, Upserted, Chat
    <3> HIDE DEF n, M, P
    <3> QED BY <3>1, <3>2 DEF Chat
  <2>2. ContentOK(s.messages, s.order, s.parts)
    BY DEF ChatOK
  <2>3. ContentOK(M, s.order, P)
    BY <1>2, <2>2, UpsertedPart
  <2>4. /\ DOMAIN M = DOMAIN s.messages /\ \A x \in DOMAIN s.messages : x # m => M[x] = s.messages[x]
        /\ \A x \in DOMAIN s.messages : M[x].status = s.messages[x].status
        /\ Contains(s.messages[m].parts, p) => M = s.messages
    BY <1>2, <2>2, UpsertedFacts
  <2>5. DOMAIN P = DOMAIN s.parts \union {p} /\ \A x \in DOMAIN s.parts : x # p => P[x] = s.parts[x]
    BY DEF Restated
  <2>6. p \in DOMAIN s.parts => Contains(s.messages[m].parts, p)
    BY <2>2 DEF ContentOK
  <2> HIDE DEF n, M, P
  <2>7. /\ ChatOK(n) /\ n.status = s.status /\ n.approval = s.approval /\ n.help = s.help
        /\ n.messages = M /\ n.parts = P
    BY <2>1, <2>3, ChatFields
  <2>8. Edits(s, n, m)
    BY <2>4, <2>5, <2>7 DEF Edits, Touches
  <2>9. p \in DOMAIN s.parts => n = Chat(s.status, s.approval, s.usage, s.help, s.messages, s.order, P)
    BY <2>1, <2>4, <2>6
  <2> QED BY <2>4, <2>7, <2>8, <2>9 DEF n, P
<1> QED BY <1>1, <1>2

\* Only the values of parts of m are new.
LEMMA PartsStep ==
    ASSUME NEW s, ChatOK(s), NEW m \in DOMAIN s.messages, NEW Q \in [DOMAIN s.parts -> PartRecords],
           \A p \in DOMAIN s.parts : PartFits(p, Q[p]) /\ (p[1] # m => Q[p] = s.parts[p])
    PROVE  LET n == [s EXCEPT !.parts = Q] IN Edits(s, n, m) /\ n.parts = Q /\ n.messages = s.messages
<1> DEFINE n == [s EXCEPT !.parts = Q]
<1>1. n = Chat(s.status, s.approval, s.usage, s.help, s.messages, s.order, Q)
  BY DEF ChatOK, Chat
<1>2. ContentOK(s.messages, s.order, Q)
  BY NewParts DEF ChatOK
<1> HIDE DEF n
<1>3. /\ ChatOK(n) /\ n.status = s.status /\ n.approval = s.approval /\ n.help = s.help
      /\ n.messages = s.messages /\ n.parts = Q
  BY <1>1, <1>2, ChatFields
<1>4. DOMAIN Q = DOMAIN s.parts
  OBVIOUS
<1> QED BY <1>3, <1>4 DEF Edits, Touches, n

\* The message says that it has ended.
LEMMA StatusStep ==
    ASSUME NEW s, ChatOK(s), NEW m \in DOMAIN s.messages, NEW st \in EndStatuses
    PROVE  LET n == [s EXCEPT !.messages[m].status = st] IN
           Edits(s, n, m) /\ m \in DOMAIN n.messages /\ n.messages[m].status = st
<1> DEFINE n == [s EXCEPT !.messages[m].status = st]
           M == [s.messages EXCEPT ![m].status = st]
<1>1. n = Chat(s.status, s.approval, s.usage, s.help, M, s.order, s.parts)
  <2>1. s = Chat(s.status, s.approval, s.usage, s.help, s.messages, s.order, s.parts)
    BY DEF ChatOK
  <2>2. n = [s EXCEPT !.messages = M]
    BY <2>1 DEF Chat
  <2> HIDE DEF n, M
  <2> QED BY <2>1, <2>2 DEF Chat
<1>2. ContentOK(M, s.order, s.parts)
  BY NewStatus DEF ChatOK
<1>3. M[m].status = st /\ DOMAIN M = DOMAIN s.messages /\ \A x \in DOMAIN s.messages : x # m => M[x] = s.messages[x]
  <2>1. s.messages[m] \in MessageRecords
    BY DEF ChatOK, ContentOK
  <2> QED BY <2>1 DEF MessageRecords
<1> HIDE DEF n, M
<1>4. /\ ChatOK(n) /\ n.status = s.status /\ n.approval = s.approval /\ n.help = s.help
      /\ n.messages = M /\ n.parts = s.parts
  BY <1>1, <1>2, ChatFields
<1> QED BY <1>3, <1>4 DEF Edits, Touches, n

\* The message has an end, and nothing in it runs or is streamed.
IsClosed(s, m) ==
    /\ m \in DOMAIN s.messages /\ s.messages[m].status # "streaming"
    /\ \A p \in DOMAIN s.parts : p[1] = m => s.parts[p].status \notin Unfinished \union {"streaming"}

\* No part runs or is streamed once it has been ended.
LEMMA EndedPart ==
    ASSUME NEW p, NEW r \in PartRecords, PartFits(p, r), NEW st \in EndStatuses
    PROVE  /\ Ended(r, st) \in PartRecords /\ PartFits(p, Ended(r, st))
           /\ Ended(r, st).status \notin Unfinished \union {"streaming"}
<1>1. CASE r.kind = "text"
  BY <1>1 DEF Ended, PartRecords, PartFits, PartStatuses, EndStatuses, NoticeKinds, Unfinished
<1>2. CASE r.kind = "reasoning"
  BY <1>2 DEF Ended, PartRecords, PartFits, PartStatuses, EndStatuses, NoticeKinds, Unfinished
<1>3. CASE r.kind = "tool"
  BY <1>3 DEF Ended, PartRecords, PartFits, PartStatuses, EndStatuses, NoticeKinds, Unfinished
<1>4. CASE r.kind \in NoticeKinds
  BY <1>4 DEF Ended, PartRecords, PartFits, PartStatuses, EndStatuses, NoticeKinds, Unfinished
<1> QED BY <1>1, <1>2, <1>3, <1>4 DEF PartRecords

\* Ending the parts of a message that has an end closes it.
LEMMA EndPartsStep ==
    ASSUME NEW s, ChatOK(s), NEW m \in DOMAIN s.messages, NEW st \in EndStatuses, s.messages[m].status # "streaming"
    PROVE  LET n == EndParts(s, m, st) IN Edits(s, n, m) /\ IsClosed(n, m)
<1> DEFINE n == EndParts(s, m, st)
           Q == [p \in DOMAIN s.parts |-> IF p \in PartsOf(s, m) THEN Ended(s.parts[p], st) ELSE s.parts[p]]
<1>1. n = [s EXCEPT !.parts = Q]
  BY DEF EndParts, ChatOK, Chat
<1>2. \A p \in DOMAIN s.parts : p \in PartsOf(s, m) <=> p[1] = m
  BY PartsAreNamed
<1>3. \A p \in DOMAIN s.parts : s.parts[p] \in PartRecords /\ PartFits(p, s.parts[p])
  BY DEF ChatOK, ContentOK
<1>4. \A p \in DOMAIN s.parts :
        /\ Q[p] \in PartRecords /\ PartFits(p, Q[p]) /\ (p[1] # m => Q[p] = s.parts[p])
        /\ p[1] = m => Q[p].status \notin Unfinished \union {"streaming"}
  BY <1>2, <1>3, EndedPart
<1>5. Q \in [DOMAIN s.parts -> PartRecords] /\ DOMAIN Q = DOMAIN s.parts
  BY <1>4
<1> HIDE DEF Q, n
<1>6. Edits(s, n, m) /\ n.parts = Q /\ n.messages = s.messages
  BY <1>1, <1>4, <1>5, PartsStep
<1>7. IsClosed(n, m)
  BY <1>4, <1>5, <1>6 DEF IsClosed
<1> QED BY <1>6, <1>7 DEF n

\* The notice of how it ended leaves it closed.
LEMMA NoticeStep ==
    ASSUME NEW s, ChatOK(s), NEW m \in DOMAIN s.messages, NEW st \in NoticeKinds, IsClosed(s, m)
    PROVE  LET n == AddNotice(s, m, st) IN Edits(s, n, m) /\ IsClosed(n, m)
<1> DEFINE p == <<m, "notice">>
           r == [kind |-> st, status |-> st, length |-> 0, counted |-> FALSE]
           n == UpsertPart(s, p, r)
<1>1. p \in PartIds /\ p[1] = m
  BY DEF PartIds, ChatOK, ContentOK
<1>2. r \in PartRecords /\ PartFits(p, r) /\ r.status \notin Unfinished \union {"streaming"}
  BY DEF PartRecords, PartFits, NoticeKinds, Unfinished, PartStatuses, EndStatuses
<1> HIDE DEF p, r
<1>3. /\ Edits(s, n, m) /\ n.parts = Restated(s.parts, p, r)
      /\ n.messages[m].status = s.messages[m].status
  BY <1>1, <1>2, UpsertStep
<1> HIDE DEF n
<1>4. IsClosed(n, m)
  <2>1. \A x \in DOMAIN n.parts : n.parts[x] = r \/ (x \in DOMAIN s.parts /\ n.parts[x] = s.parts[x])
    <3>1. /\ DOMAIN Restated(s.parts, p, r) = DOMAIN s.parts \union {p}
          /\ \A x \in DOMAIN s.parts \union {p} : Restated(s.parts, p, r)[x] = IF x = p THEN r ELSE s.parts[x]
      BY DEF Restated
    <3> QED BY <3>1, <1>3
  <2>2. m \in DOMAIN n.messages
    BY <1>3 DEF Edits, Touches
  <2> QED BY <1>2, <1>3, <2>1, <2>2 DEF IsClosed
<1>5. Edits(s, s, m)
  BY EditsNothing
<1>6. AddNotice(s, m, st) = s \/ AddNotice(s, m, st) = n
  BY DEF AddNotice, n, p, r
<1> QED BY <1>3, <1>4, <1>5, <1>6

\* So does counting the tokens of its reasoning.
LEMMA CountStep ==
    ASSUME NEW s, ChatOK(s), NEW m \in DOMAIN s.messages, IsClosed(s, m)
    PROVE  LET n == CountReasoning(s, m) IN Edits(s, n, m) /\ IsClosed(n, m)
<1> DEFINE completed == {p \in PartsOf(s, m) : s.parts[p].kind = "reasoning" /\ s.parts[p].status = "completed"}
           Q == [p \in DOMAIN s.parts |-> IF completed = {p} THEN [s.parts[p] EXCEPT !.counted = TRUE] ELSE s.parts[p]]
           n == [s EXCEPT !.parts = Q]
<1>1. CountReasoning(s, m) = n
  BY DEF CountReasoning, ChatOK, Chat
<1>2. \A p \in completed : p[1] = m
  BY PartsAreNamed
<1>3. \A p \in DOMAIN s.parts : s.parts[p] \in PartRecords /\ PartFits(p, s.parts[p])
  BY DEF ChatOK, ContentOK
<1>4. \A r \in PartRecords : /\ [r EXCEPT !.counted = TRUE] \in PartRecords
                             /\ [r EXCEPT !.counted = TRUE].status = r.status
                             /\ [r EXCEPT !.counted = TRUE].kind = r.kind
  BY DEF PartRecords
<1> HIDE DEF completed
<1>5. \A p \in DOMAIN s.parts :
        /\ Q[p] \in PartRecords /\ PartFits(p, Q[p]) /\ (p[1] # m => Q[p] = s.parts[p])
        /\ Q[p].status = s.parts[p].status
  BY <1>2, <1>3, <1>4 DEF PartFits
<1>6. Q \in [DOMAIN s.parts -> PartRecords] /\ DOMAIN Q = DOMAIN s.parts
  BY <1>5
<1> HIDE DEF Q
<1>7. Edits(s, n, m) /\ n.parts = Q /\ n.messages = s.messages
  BY <1>5, <1>6, PartsStep
<1> HIDE DEF n
<1>8. IsClosed(n, m)
  BY <1>5, <1>6, <1>7 DEF IsClosed
<1> QED BY <1>1, <1>7, <1>8

\* The end of a message closes it.
LEMMA EndMessageStep ==
    ASSUME NEW s, ChatOK(s), NEW m, NEW st \in EndStatuses
    PROVE  LET n == EndMessage(s, m, st) IN
           Edits(s, n, m) /\ (m \in DOMAIN s.messages => IsClosed(n, m))
<1>1. CASE m \notin DOMAIN s.messages
  BY <1>1, EditsNothing DEF EndMessage
<1>2. CASE m \in DOMAIN s.messages
  <2> DEFINE s1 == [s EXCEPT !.messages[m].status = st]
             s2 == EndParts(s1, m, st)
             s3 == IF st = "completed" THEN s2 ELSE AddNotice(s2, m, st)
             s4 == IF st \in {"completed", "incomplete"} THEN CountReasoning(s3, m) ELSE s3
  <2>1. EndMessage(s, m, st) = s4
    BY <1>2 DEF EndMessage
  <2>2. Edits(s, s1, m) /\ m \in DOMAIN s1.messages /\ s1.messages[m].status = st
    BY <1>2, StatusStep
  <2> HIDE DEF s1
  <2>3. Edits(s1, s2, m) /\ IsClosed(s2, m)
    <3>1. ChatOK(s1) /\ s1.messages[m].status # "streaming"
      BY <2>2 DEF Edits, Touches, EndStatuses
    <3> QED BY <3>1, <2>2, EndPartsStep
  <2> HIDE DEF s2
  <2>4. Edits(s2, s3, m) /\ IsClosed(s3, m)
    <3>1. ChatOK(s2) /\ m \in DOMAIN s2.messages
      BY <2>3 DEF Edits, Touches, IsClosed
    <3>2. CASE st = "completed"
      BY <3>1, <3>2, <2>3, EditsNothing
    <3>3. CASE st # "completed"
      <4>1. st \in NoticeKinds
        BY <3>3 DEF EndStatuses, NoticeKinds
      <4> QED BY <4>1, <3>1, <3>3, <2>3, NoticeStep
    <3> QED BY <3>2, <3>3
  <2> HIDE DEF s3
  <2>5. Edits(s3, s4, m) /\ IsClosed(s4, m)
    <3>1. ChatOK(s3) /\ m \in DOMAIN s3.messages
      BY <2>4 DEF Edits, Touches, IsClosed
    <3> QED BY <3>1, <2>4, EditsNothing, CountStep
  <2> HIDE DEF s4
  <2> QED BY <2>1, <2>2, <2>3, <2>4, <2>5, EditsTwice
<1> QED BY <1>1, <1>2

StartEvents == [type : {"turn_started"}, message : MessageIds]
PartEvents ==
    {e \in [type : {"part_added", "part_updated"}, id : PartIds, part : PartRecords] : PartFits(e.id, e.part)}
ApprovalEvents == [type : {"approval_requested", "approval_cleared"}, id : PartIds]
EndEvents == [type : {"ended"}, message : MessageIds, status : EndStatuses]
ChatEvents == StartEvents \union PartEvents \union ApprovalEvents \union EndEvents

\* The message an event is about; the approval events touch none.
About(e, m) ==
    CASE e.type \in {"part_added", "part_updated"} -> m = e.id[1]
      [] e.type \in {"turn_started", "ended"} -> m = e.message
      [] OTHER -> TRUE

\* The start of a turn: its message is there, and nothing waits for an approval.
LEMMA ApplyStart ==
    ASSUME NEW s, ChatOK(s), NEW e \in StartEvents
    PROVE  /\ Touches(s, Apply(s, e), e.message)
           /\ Apply(s, e).approval = None /\ e.message \in DOMAIN Apply(s, e).messages
<1> DEFINE h == [s EXCEPT !.status = "streaming_assistant_response", !.approval = None]
           r == [status |-> "streaming", parts |-> <<>>]
<1>1. e.type = "turn_started" /\ e.message \in MessageIds
  BY DEF StartEvents
<1>2. Apply(s, e) = AppendMessageIfMissing(h, e.message, r)
  BY <1>1 DEF Apply
<1>3. h = Chat("streaming_assistant_response", None, s.usage, s.help, s.messages, s.order, s.parts)
  BY HeadIs
<1> HIDE DEF h
<1>4. Touches(s, h, e.message) /\ h.approval = None
  BY <1>3, HeadStep
<1>5. r \in MessageRecords /\ r.parts = <<>>
  BY DEF MessageRecords
<1> HIDE DEF r
<1> DEFINE n == AppendMessageIfMissing(h, e.message, r)
<1>6. Edits(h, n, e.message) /\ e.message \in DOMAIN n.messages
  BY <1>1, <1>4, <1>5, MessageStep DEF Touches
<1> HIDE DEF n
<1>7. n.approval = None /\ Touches(s, n, e.message)
  BY <1>4, <1>6, TouchesThenEdits DEF Edits
<1> QED BY <1>2, <1>6, <1>7 DEF n

\* A part of a message.
LEMMA ApplyPart ==
    ASSUME NEW s, ChatOK(s), NEW e \in PartEvents
    PROVE  /\ Edits(s, Apply(s, e), e.id[1])
           /\ Apply(s, e) = UpsertPart(s, e.id, e.part)
<1>1. /\ e.type \in {"part_added", "part_updated"}
      /\ e.id \in PartIds /\ e.part \in PartRecords /\ PartFits(e.id, e.part)
  BY DEF PartEvents
<1>2. Apply(s, e) = UpsertPart(s, e.id, e.part)
  BY <1>1 DEF Apply
<1>3. Edits(s, UpsertPart(s, e.id, e.part), e.id[1])
  BY <1>1, UpsertStep
<1> QED BY <1>2, <1>3

\* An approval that is asked for or cleared changes no message.
LEMMA ApplyApproval ==
    ASSUME NEW s, ChatOK(s), NEW e \in ApprovalEvents, NEW m
    PROVE  /\ Touches(s, Apply(s, e), m) /\ Apply(s, e).approval \in {s.approval, None, e.id}
           /\ Apply(s, e).messages = s.messages /\ Apply(s, e).parts = s.parts /\ Apply(s, e).order = s.order
<1>1. e.type \in {"approval_requested", "approval_cleared"} /\ e.id \in PartIds
  BY DEF ApprovalEvents
<1>2. CASE e.type = "approval_requested"
  <2> DEFINE n == [s EXCEPT !.status = "waiting_for_tool_approval", !.approval = e.id]
  <2>1. Apply(s, e) = n
    BY <1>2 DEF Apply
  <2>2. n = Chat("waiting_for_tool_approval", e.id, s.usage, s.help, s.messages, s.order, s.parts)
    BY HeadIs
  <2> HIDE DEF n
  <2>3. Touches(s, n, m) /\ n.approval = e.id /\ n.messages = s.messages /\ n.order = s.order /\ n.parts = s.parts
    BY <2>2, HeadStep
  <2> QED BY <2>1, <2>3
<1>3. CASE e.type = "approval_cleared"
  <2> DEFINE st == IF s.status = "waiting_for_tool_approval" THEN "streaming_assistant_response" ELSE s.status
             ap == IF s.approval = e.id THEN None ELSE s.approval
             n  == [s EXCEPT !.status = st, !.approval = ap]
  <2>1. Apply(s, e) = n
    BY <1>3 DEF Apply, ChatOK, Chat
  <2>2. ap \in {s.approval, None}
    OBVIOUS
  <2> HIDE DEF st, ap
  <2>3. n = Chat(st, ap, s.usage, s.help, s.messages, s.order, s.parts)
    BY HeadIs
  <2> HIDE DEF n
  <2>4. Touches(s, n, m) /\ n.approval = ap /\ n.messages = s.messages /\ n.order = s.order /\ n.parts = s.parts
    BY <2>3, HeadStep
  <2> QED BY <2>1, <2>2, <2>4
<1> QED BY <1>1, <1>2, <1>3

\* The end of a turn closes its message, if it was started.
LEMMA ApplyEnd ==
    ASSUME NEW s, ChatOK(s), NEW e \in EndEvents
    PROVE  /\ Touches(s, Apply(s, e), e.message)
           /\ Apply(s, e).status = "waiting_for_user_input" /\ Apply(s, e).approval = None
           /\ e.message \in DOMAIN s.messages => IsClosed(Apply(s, e), e.message)
<1> DEFINE us == IF e.status \in {"completed", "incomplete"} THEN e.message[2] ELSE s.usage
           h  == [s EXCEPT !.status = "waiting_for_user_input", !.approval = None, !.usage = us]
<1>1. e.type = "ended" /\ e.message \in MessageIds /\ e.status \in EndStatuses
  BY DEF EndEvents
<1>2. Apply(s, e) = EndMessage(h, e.message, e.status)
  BY <1>1 DEF Apply, ChatOK, Chat
<1> HIDE DEF us
<1>3. h = Chat("waiting_for_user_input", None, us, s.help, s.messages, s.order, s.parts)
  BY HeadIs
<1> HIDE DEF h
<1>4. Touches(s, h, e.message) /\ h.status = "waiting_for_user_input" /\ h.approval = None /\ h.messages = s.messages
  BY <1>3, HeadStep
<1> DEFINE n == EndMessage(h, e.message, e.status)
<1>5. Edits(h, n, e.message) /\ (e.message \in DOMAIN h.messages => IsClosed(n, e.message))
  <2>1. ChatOK(h)
    BY <1>4 DEF Touches
  <2> QED BY <1>1, <2>1, EndMessageStep
<1> HIDE DEF n
<1>6. n.status = "waiting_for_user_input" /\ n.approval = None /\ Touches(s, n, e.message)
  BY <1>4, <1>5, TouchesThenEdits DEF Edits
<1> QED BY <1>2, <1>4, <1>5, <1>6 DEF n

\* Whatever the event, it touches nothing but what it is about.
LEMMA ApplyTouches ==
    ASSUME NEW s, ChatOK(s), NEW e \in ChatEvents, NEW m, About(e, m)
    PROVE  Touches(s, Apply(s, e), m)
<1>1. CASE e \in StartEvents
  <2>1. m = e.message
    BY <1>1 DEF About, StartEvents
  <2> QED BY <1>1, <2>1, ApplyStart
<1>2. CASE e \in PartEvents
  <2>1. m = e.id[1]
    BY <1>2 DEF About, PartEvents
  <2> QED BY <1>2, <2>1, ApplyPart DEF Edits
<1>3. CASE e \in ApprovalEvents
  BY <1>3, ApplyApproval
<1>4. CASE e \in EndEvents
  <2>1. m = e.message
    BY <1>4 DEF About, EndEvents
  <2> QED BY <1>4, <2>1, ApplyEnd
<1> QED BY <1>1, <1>2, <1>3, <1>4 DEF ChatEvents

\* Every event is about some message.
LEMMA SomeMessage ==
    ASSUME NEW e \in ChatEvents
    PROVE  \E m : About(e, m)
BY DEF About

\* No event makes the chat ill formed, or takes a message or a part away.
LEMMA ApplyKeepsChat ==
    ASSUME NEW s, ChatOK(s), NEW e \in ChatEvents
    PROVE  /\ ChatOK(Apply(s, e)) /\ Apply(s, e).help = s.help
           /\ DOMAIN s.parts \subseteq DOMAIN Apply(s, e).parts
           /\ DOMAIN s.messages \subseteq DOMAIN Apply(s, e).messages
BY SomeMessage, ApplyTouches DEF Touches

-----------------------------------------------------------------------------
(* Coalescing.                                                              *)

\* a and c are the same, but for what the parts in X hold.
AlikeBut(a, c, X) ==
    /\ ChatOK(a) /\ ChatOK(c)
    /\ a.status = c.status /\ a.approval = c.approval /\ a.usage = c.usage /\ a.help = c.help
    /\ a.messages = c.messages /\ a.order = c.order /\ DOMAIN a.parts = DOMAIN c.parts
    /\ \A p \in DOMAIN a.parts : p \in X \/ a.parts[p] = c.parts[p]

\* A chat is alike to itself.
LEMMA AlikeItself == ASSUME NEW a, ChatOK(a), NEW X PROVE AlikeBut(a, a, X)
BY DEF AlikeBut

\* Chats that differ in no part are the same.
LEMMA AlikeIsSame == ASSUME NEW a, NEW c, AlikeBut(a, c, {}) PROVE a = c
<1>1. a.parts \in [DOMAIN a.parts -> PartRecords] /\ c.parts \in [DOMAIN c.parts -> PartRecords]
  BY DEF AlikeBut, ChatOK, ContentOK
<1>2. a.parts = c.parts
  BY <1>1 DEF AlikeBut
<1>3. /\ a = Chat(a.status, a.approval, a.usage, a.help, a.messages, a.order, a.parts)
      /\ c = Chat(c.status, c.approval, c.usage, c.help, c.messages, c.order, c.parts)
  BY DEF AlikeBut, ChatOK
<1> QED BY <1>2, <1>3 DEF AlikeBut

\* An update of a part that there is changes what the part holds.
LEMMA Update ==
    ASSUME NEW s, ChatOK(s), NEW e \in PartEvents, e.id \in DOMAIN s.parts
    PROVE  LET n == Apply(s, e) IN
           /\ AlikeBut(n, s, {e.id}) /\ n.parts[e.id] = e.part
<1> DEFINE P == Restated(s.parts, e.id, e.part)
           n == Apply(s, e)
<1>1. e.id \in PartIds /\ e.part \in PartRecords /\ PartFits(e.id, e.part)
  BY DEF PartEvents
<1>2. n = Chat(s.status, s.approval, s.usage, s.help, s.messages, s.order, P) /\ ChatOK(n)
  <2>1. n = UpsertPart(s, e.id, e.part) /\ Edits(s, n, e.id[1])
    BY ApplyPart
  <2> HIDE DEF n
  <2>2. UpsertPart(s, e.id, e.part) = Chat(s.status, s.approval, s.usage, s.help, s.messages, s.order, P)
    BY <1>1, UpsertStep
  <2> QED BY <2>1, <2>2 DEF Edits, Touches
<1> HIDE DEF n
<1>3. DOMAIN P = DOMAIN s.parts /\ P[e.id] = e.part /\ \A p \in DOMAIN s.parts : p # e.id => P[p] = s.parts[p]
  BY DEF Restated
<1> HIDE DEF P
<1>4. /\ n.status = s.status /\ n.approval = s.approval /\ n.usage = s.usage /\ n.help = s.help
      /\ n.messages = s.messages /\ n.order = s.order /\ n.parts = P
  BY <1>2 DEF Chat
<1>5. AlikeBut(n, s, {e.id})
  BY <1>2, <1>3, <1>4 DEF AlikeBut
<1> QED BY <1>3, <1>4, <1>5 DEF n

\* An update of a part on both sides leaves no difference in it.
LEMMA UpdateBoth ==
    ASSUME NEW a, NEW c, NEW X, AlikeBut(a, c, X), NEW e \in PartEvents, e.id \in DOMAIN a.parts
    PROVE  AlikeBut(Apply(a, e), Apply(c, e), X \ {e.id})
<1>1. ChatOK(a) /\ ChatOK(c) /\ e.id \in DOMAIN c.parts
  BY DEF AlikeBut
<1> DEFINE m == Apply(a, e)
           n == Apply(c, e)
<1>2. AlikeBut(m, a, {e.id}) /\ m.parts[e.id] = e.part
  BY <1>1, Update
<1>3. AlikeBut(n, c, {e.id}) /\ n.parts[e.id] = e.part
  BY <1>1, Update
<1> HIDE DEF m, n
<1>4. AlikeBut(m, n, X \ {e.id})
  BY <1>2, <1>3 DEF AlikeBut
<1> QED BY <1>4 DEF m, n

\* On one side, it makes a difference in that part at most.
LEMMA UpdateOne ==
    ASSUME NEW a, NEW c, NEW X, AlikeBut(a, c, X), NEW e \in PartEvents, e.id \in DOMAIN a.parts
    PROVE  AlikeBut(Apply(a, e), c, X \union {e.id})
<1>1. ChatOK(a)
  BY DEF AlikeBut
<1> DEFINE m == Apply(a, e)
<1>2. AlikeBut(m, a, {e.id})
  BY <1>1, Update
<1> HIDE DEF m
<1>4. AlikeBut(m, c, X \union {e.id})
  BY <1>2 DEF AlikeBut
<1> QED BY <1>4 DEF m

\* The updates of a queue are of parts that there are.
KnownIn(s, q) == \A k \in 1 .. Len(q) : Batchable(q[k]) => q[k].id \in DOMAIN s.parts

\* The parts whose next update comes with only updates before it.
Pending(q, k) ==
    {p \in PartIds : \E j \in k + 1 .. Len(q) :
        q[j].type = "part_updated" /\ q[j].id = p /\ \A i \in k + 1 .. j : Batchable(q[i])}

\* What is held back is an update of a part.
LEMMA StreamedIsPart == ASSUME NEW e \in ChatEvents, Batchable(e) PROVE e \in PartEvents /\ e.type = "part_updated"
BY DEF ChatEvents, Batchable, StartEvents, PartEvents, ApprovalEvents, EndEvents

\* Before an event that is not such an update, nothing is pending; and at the end.
LEMMA NothingPending ==
    ASSUME NEW q \in Seq(ChatEvents), NEW k \in 0 .. Len(q), k < Len(q) => ~Batchable(q[k + 1])
    PROVE  Pending(q, k) = {}
<1>1. \A j \in k + 1 .. Len(q) : k < Len(q) /\ k + 1 \in k + 1 .. j
  OBVIOUS
<1> QED BY <1>1 DEF Pending

\* After an update the others that were pending still are, and so is its part if
\* a later update supersedes it.
LEMMA StillPending ==
    ASSUME NEW q \in Seq(ChatEvents), NEW k \in 0 .. Len(q) - 1, Batchable(q[k + 1])
    PROVE  /\ Pending(q, k) \ {q[k + 1].id} \subseteq Pending(q, k + 1)
           /\ Superseded(q, k + 1) => Pending(q, k) \union {q[k + 1].id} \subseteq Pending(q, k + 1)
<1>1. ASSUME NEW p \in PartIds, NEW j \in k + 1 .. Len(q), p # q[k + 1].id,
             q[j].type = "part_updated", q[j].id = p, \A i \in k + 1 .. j : Batchable(q[i])
      PROVE  p \in Pending(q, k + 1)
  <2>1. j \in (k + 1) + 1 .. Len(q)
    BY <1>1
  <2>2. \A i \in (k + 1) + 1 .. j : i \in k + 1 .. j
    OBVIOUS
  <2> QED BY <1>1, <2>1, <2>2 DEF Pending
<1>2. Pending(q, k) \ {q[k + 1].id} \subseteq Pending(q, k + 1)
  BY <1>1 DEF Pending
<1>3. Superseded(q, k + 1) => q[k + 1].id \in Pending(q, k + 1)
  <2> SUFFICES ASSUME Superseded(q, k + 1) PROVE q[k + 1].id \in Pending(q, k + 1)
    OBVIOUS
  <2>1. k + 1 \in 1 .. Len(q) /\ q[k + 1] \in ChatEvents
    OBVIOUS
  <2>2. q[k + 1].id \in PartIds
    BY <2>1, StreamedIsPart DEF PartEvents
  <2>3. PICK j \in (k + 1) + 1 .. Len(q) : /\ q[j].type = "part_updated" /\ q[j].id = q[k + 1].id
                                           /\ \A i \in k + 1 .. j : Batchable(q[i])
    BY DEF Superseded
  <2>4. \A i \in (k + 1) + 1 .. j : i \in k + 1 .. j
    OBVIOUS
  <2> QED BY <2>2, <2>3, <2>4 DEF Pending
<1> QED BY <1>2, <1>3

\* Leaving superseded updates out changes nothing.
LEMMA CompactedIsEnough ==
    ASSUME NEW s, ChatOK(s), NEW q \in Seq(ChatEvents), KnownIn(s, q)
    PROVE  ApplyAll(s, Compacted(q)) = ApplyAll(s, q)
<1> DEFINE n == Len(q)
<1>1. PICK a : Path("state", s, q, a, n) /\ ApplyAll(s, q) = a[n]
  BY StatePath
<1>2. PICK b : Path("compacted", <<>>, q, b, n) /\ Compacted(q) = b[n]
  BY CompactedPath
<1>3. n \in Nat /\ \A k \in 0 .. n - 1 : q[k + 1] \in ChatEvents /\ k + 1 \in 1 .. n /\ k \in 0 .. n /\ k \in Nat
  OBVIOUS
<1>4. \A k \in 0 .. n : b[k] \in Seq(ChatEvents)
  BY <1>2, CompactedIsSeq
<1>5. \A k \in 1 .. n : Batchable(q[k]) => q[k].id \in DOMAIN s.parts
  BY DEF KnownIn
<1> HIDE DEF n
<1> DEFINE Claim(k) == /\ AlikeBut(a[k], ApplyAll(s, b[k]), Pending(q, k))
                       /\ DOMAIN s.parts \subseteq DOMAIN a[k].parts
           S == {k \in Nat : k <= n => Claim(k)}
<1>6. 0 \in S
  <2>1. a[0] = s /\ b[0] = <<>>
    BY <1>1, <1>2 DEF Path
  <2>2. ApplyAll(s, b[0]) = s
    BY <2>1, ApplyNothing
  <2>3. AlikeBut(s, s, Pending(q, 0))
    BY AlikeItself
  <2> QED BY <2>1, <2>2, <2>3
<1>7. ASSUME NEW k \in Nat, k \in S PROVE k + 1 \in S
  <2> SUFFICES ASSUME k + 1 <= n PROVE Claim(k + 1)
    OBVIOUS
  <2>1. k \in 0 .. n - 1 /\ k <= n /\ k + 1 \in Nat
    BY <1>3
  <2>2. Claim(k)
    BY <2>1, <1>7
  <2> DEFINE e == q[k + 1]
             c == ApplyAll(s, b[k])
  <2>3. e \in ChatEvents /\ k + 1 \in 1 .. n /\ k \in 0 .. n
    BY <1>3, <2>1
  <2>4. a[k + 1] = Apply(a[k], e)
    BY <1>1, <2>1 DEF Path, Step
  <2>5. b[k + 1] = IF Superseded(q, k + 1) THEN b[k] ELSE Append(b[k], e)
    <3>1. Position(q, k + 1) = k + 1
      BY <2>3 DEF Position, n
    <3> QED BY <3>1, <1>2, <2>1 DEF Path, Step
  <2>6. ApplyAll(s, b[k + 1]) = IF Superseded(q, k + 1) THEN c ELSE Apply(c, e)
    <3>1. ApplyAll(s, Append(b[k], e)) = Apply(ApplyAll(s, b[k]), e)
      BY <1>4, <2>3, ApplyAppend
    <3> QED BY <3>1, <2>5
  <2>7. AlikeBut(a[k], c, Pending(q, k)) /\ DOMAIN s.parts \subseteq DOMAIN a[k].parts
    BY <2>2
  <2> HIDE DEF c, e
  <2>8. DOMAIN s.parts \subseteq DOMAIN a[k + 1].parts
    BY <2>3, <2>4, <2>7, ApplyKeepsChat DEF AlikeBut
  <2>9. CASE Batchable(e)
    <3>1. e \in PartEvents /\ e.id \in DOMAIN a[k].parts
      BY <1>5, <2>3, <2>7, <2>9, StreamedIsPart DEF e
    <3>2. CASE Superseded(q, k + 1)
      <4>1. AlikeBut(a[k + 1], c, Pending(q, k) \union {e.id})
        BY <2>4, <2>7, <3>1, UpdateOne
      <4>2. Pending(q, k) \union {e.id} \subseteq Pending(q, k + 1)
        BY <2>1, <2>9, <3>2, StillPending DEF e, n
      <4>3. ApplyAll(s, b[k + 1]) = c
        BY <2>6, <3>2
      <4> QED BY <4>1, <4>2, <4>3, <2>8 DEF AlikeBut
    <3>3. CASE ~Superseded(q, k + 1)
      <4>1. AlikeBut(a[k + 1], Apply(c, e), Pending(q, k) \ {e.id})
        BY <2>4, <2>7, <3>1, UpdateBoth
      <4>2. Pending(q, k) \ {e.id} \subseteq Pending(q, k + 1)
        BY <2>1, <2>9, StillPending DEF e, n
      <4>3. ApplyAll(s, b[k + 1]) = Apply(c, e)
        BY <2>6, <3>3
      <4> QED BY <4>1, <4>2, <4>3, <2>8 DEF AlikeBut
    <3> QED BY <3>2, <3>3
  <2>10. CASE ~Batchable(e)
    <3>1. Pending(q, k) = {}
      BY <2>3, <2>10, NothingPending DEF e, n
    <3>2. a[k] = c
      BY <2>7, <3>1, AlikeIsSame
    <3>3. ~Superseded(q, k + 1)
      BY <2>10 DEF Superseded, e
    <3>4. ApplyAll(s, b[k + 1]) = a[k + 1]
      BY <2>4, <2>6, <3>2, <3>3
    <3>5. ChatOK(a[k + 1])
      BY <2>3, <2>4, <2>7, ApplyKeepsChat DEF AlikeBut
    <3>6. AlikeBut(a[k + 1], a[k + 1], Pending(q, k + 1))
      BY <3>5, AlikeItself
    <3> QED BY <3>4, <3>6, <2>8
  <2> QED BY <2>9, <2>10
<1>8. n \in S
  <2> HIDE DEF S
  <2> QED BY <1>3, <1>6, <1>7, AllNaturals
<1>9. Pending(q, n) = {}
  <2>1. n \in 0 .. Len(q) /\ ~(n < Len(q))
    BY <1>3 DEF n
  <2> QED BY <2>1, NothingPending
<1>10. AlikeBut(a[n], ApplyAll(s, b[n]), {})
  <2>1. Claim(n)
    BY <1>3, <1>8
  <2> QED BY <2>1, <1>9
<1> QED BY <1>1, <1>2, <1>10, AlikeIsSame

-----------------------------------------------------------------------------
(* The screen.                                                              *)

LEMMA RowStays ==
    ASSUME NEW s, ChatOK(s), NEW n, NEW x, Touches(s, n, x), NEW m \in DOMAIN s.messages, m # x
    PROVE  Row(n, m) = Row(s, m)
<1>1. n.messages[m] = s.messages[m]
  BY DEF Touches
<1>2. \A i \in DOMAIN s.messages[m].parts :
        s.messages[m].parts[i] \in DOMAIN s.parts /\ s.messages[m].parts[i][1] = m
  BY DEF ChatOK, ContentOK
<1>3. \A i \in DOMAIN s.messages[m].parts :
        n.parts[s.messages[m].parts[i]] = s.parts[s.messages[m].parts[i]]
  BY <1>2 DEF Touches
<1> QED BY <1>1, <1>3 DEF Row

\* What a change set leaves out has not changed.
Covers(s, n, c) ==
    /\ \A m \in DOMAIN n.messages : m \in c.rows \/ (m \in DOMAIN s.messages /\ Row(s, m) = Row(n, m))
    /\ c.order \/ s.order = n.order
    /\ c.transcript \/ Transcript(s) = Transcript(n)
    /\ c.composer \/ (s.status = n.status /\ s.usage = n.usage)
    /\ c.interaction \/ Interaction(s) = Interaction(n)

ChangeSets == [rows : SUBSET MessageIds, order : BOOLEAN, transcript : BOOLEAN,
               composer : BOOLEAN, interaction : BOOLEAN]

\* A merged change set has what either has.
LEMMA MergeFields ==
    ASSUME NEW c \in ChangeSets, NEW d \in ChangeSets
    PROVE  /\ Merge(c, d) \in ChangeSets
           /\ Merge(c, d).rows = c.rows \union d.rows
           /\ Merge(c, d).order = (c.order \/ d.order)
           /\ Merge(c, d).transcript = (c.transcript \/ d.transcript)
           /\ Merge(c, d).composer = (c.composer \/ d.composer)
           /\ Merge(c, d).interaction = (c.interaction \/ d.interaction)
<1>1. /\ c.rows \union d.rows \in SUBSET MessageIds /\ (c.order \/ d.order) \in BOOLEAN
      /\ (c.transcript \/ d.transcript) \in BOOLEAN
      /\ (c.composer \/ d.composer) \in BOOLEAN /\ (c.interaction \/ d.interaction) \in BOOLEAN
  BY DEF ChangeSets
<1>2. Merge(c, d) \in ChangeSets
  BY <1>1 DEF Merge, ChangeSets
<1> QED BY <1>2 DEF Merge

\* Two change sets that cover a step each cover both, merged.
LEMMA CoversMerged ==
    ASSUME NEW s, NEW n, NEW k, NEW c \in ChangeSets, NEW d \in ChangeSets,
           DOMAIN s.messages \subseteq DOMAIN n.messages,
           DOMAIN n.messages \subseteq DOMAIN k.messages,
           Covers(s, n, c), Covers(n, k, d)
    PROVE  Covers(s, k, Merge(c, d))
<1> DEFINE g == Merge(c, d)
<1>1. /\ g.rows = c.rows \union d.rows
      /\ g.order = (c.order \/ d.order) /\ g.transcript = (c.transcript \/ d.transcript)
      /\ g.composer = (c.composer \/ d.composer) /\ g.interaction = (c.interaction \/ d.interaction)
  BY MergeFields
<1> HIDE DEF g
<1>2. \A m \in DOMAIN k.messages : m \in g.rows \/ (m \in DOMAIN s.messages /\ Row(s, m) = Row(k, m))
  BY <1>1 DEF Covers
<1>3. g.order \/ s.order = k.order
  BY <1>1 DEF Covers
<1>4. g.transcript \/ Transcript(s) = Transcript(k)
  BY <1>1 DEF Covers
<1>5. g.composer \/ (s.status = k.status /\ s.usage = k.usage)
  BY <1>1 DEF Covers
<1>6. g.interaction \/ Interaction(s) = Interaction(k)
  BY <1>1 DEF Covers
<1> QED BY <1>2, <1>3, <1>4, <1>5, <1>6 DEF Covers, g

\* The empty change set covers a step that changes nothing.
LEMMA CoversNothing == ASSUME NEW s, ChatOK(s) PROVE NoChanges \in ChangeSets /\ Covers(s, s, NoChanges)
BY DEF NoChanges, ChangeSets, Covers

\* The change set of an event covers what the event does.
LEMMA EventChangesCover ==
    ASSUME NEW s, ChatOK(s), NEW e \in ChatEvents
    PROVE  LET n == Apply(s, e) IN
           EventChanges(s, n, e) \in ChangeSets /\ Covers(s, n, EventChanges(s, n, e))
<1> DEFINE n == Apply(s, e)
           c == EventChanges(s, n, e)
<1>1. \A m : About(e, m) => Touches(s, n, m)
  BY ApplyTouches
<1>2. n.help = s.help /\ ChatOK(n)
  BY ApplyKeepsChat
<1> HIDE DEF n
<1>3. ChangedByEvent(s, n, e) \subseteq MessageIds
  BY DEF ChangedByEvent, ChatEvents, StartEvents, PartEvents, ApprovalEvents, EndEvents, PartIds
<1>4. \A m \in DOMAIN n.messages :
        m \in ChangedByEvent(s, n, e) \/ (m \in DOMAIN s.messages /\ Row(s, m) = Row(n, m))
  <2> SUFFICES ASSUME NEW m \in DOMAIN n.messages, m \notin ChangedByEvent(s, n, e)
               PROVE  m \in DOMAIN s.messages /\ Row(s, m) = Row(n, m)
    OBVIOUS
  <2>1. CASE e \in ApprovalEvents
    <3>1. \A x : Touches(s, n, x)
      BY <1>1, <2>1 DEF ApprovalEvents, About
    <3>2. n.messages = s.messages /\ n.parts = s.parts
      BY <2>1, ApplyApproval DEF n
    <3> QED BY <3>2 DEF Row
  <2>2. CASE e \in PartEvents
    <3>1. e.type \in {"part_added", "part_updated"}
      BY <2>2 DEF PartEvents
    <3>2. Touches(s, n, e.id[1])
      BY <1>1, <3>1 DEF About
    <3>3. m = e.id[1] => ~RowChanged(s, n, m)
      BY <3>1 DEF ChangedByEvent
    <3>4. CASE m = e.id[1]
      BY <3>3, <3>4 DEF RowChanged
    <3>5. CASE m # e.id[1]
      <4>1. m \in DOMAIN s.messages
        BY <3>2, <3>5 DEF Touches
      <4> QED BY <4>1, <3>2, <3>5, RowStays
    <3> QED BY <3>4, <3>5
  <2>3. CASE e \in StartEvents \union EndEvents
    <3>1. e.type \in {"turn_started", "ended"}
      BY <2>3 DEF StartEvents, EndEvents
    <3>2. Touches(s, n, e.message)
      BY <1>1, <3>1 DEF About
    <3>3. m = e.message => ~RowChanged(s, n, m)
      BY <3>1 DEF ChangedByEvent
    <3>4. CASE m = e.message
      BY <3>3, <3>4 DEF RowChanged
    <3>5. CASE m # e.message
      <4>1. m \in DOMAIN s.messages
        BY <3>2, <3>5 DEF Touches
      <4> QED BY <4>1, <3>2, <3>5, RowStays
    <3> QED BY <3>4, <3>5
  <2> QED BY <2>1, <2>2, <2>3 DEF ChatEvents
<1>5. c \in ChangeSets
  BY <1>3 DEF EventChanges, ChangeSets
<1>6. /\ c.rows = ChangedByEvent(s, n, e) /\ c.order = (s.order # n.order)
      /\ c.transcript = (Transcript(s) # Transcript(n))
      /\ c.composer = (s.status # n.status \/ s.usage # n.usage)
      /\ c.interaction = (s.status # n.status \/ s.approval # n.approval)
  BY DEF EventChanges
<1> HIDE DEF c
<1>7. c.interaction \/ Interaction(s) = Interaction(n)
  BY <1>2, <1>6 DEF Interaction
<1>8. Covers(s, n, c)
  BY <1>4, <1>6, <1>7 DEF Covers
<1> QED BY <1>5, <1>8 DEF n, c

\* The change set the setter computes covers any change of the state.
LEMMA StateChangesCover ==
    ASSUME NEW s, ChatOK(s), NEW n, ChatOK(n)
    PROVE  StateChanges(s, n) \in ChangeSets /\ Covers(s, n, StateChanges(s, n))
<1> DEFINE c == StateChanges(s, n)
<1>1. /\ c.rows = {m \in DOMAIN s.messages \union DOMAIN n.messages : RowChanged(s, n, m)}
      /\ c.order = (s.order # n.order)
      /\ c.transcript = (Transcript(s) # Transcript(n))
      /\ c.composer = (s.status # n.status \/ s.usage # n.usage)
      /\ c.interaction = (Interaction(s) # Interaction(n))
  BY DEF StateChanges
<1>2. c \in ChangeSets
  <2>1. {m \in DOMAIN s.messages \union DOMAIN n.messages : RowChanged(s, n, m)} \subseteq MessageIds
    BY DEF ChatOK, ContentOK
  <2> QED BY <2>1 DEF StateChanges, ChangeSets
<1> HIDE DEF c
<1>3. \A m \in DOMAIN n.messages : m \in c.rows \/ (m \in DOMAIN s.messages /\ Row(s, m) = Row(n, m))
  BY <1>1 DEF RowChanged
<1>4. Covers(s, n, c)
  BY <1>1, <1>3 DEF Covers
<1> QED BY <1>2, <1>4 DEF c

\* The screen that is drawn from a change set that covers the change is the new one.
LEMMA DrawnIsScreen ==
    ASSUME NEW s, ChatOK(s), NEW n, ChatOK(n), NEW c, Covers(s, n, c), NEW u, u \/ s.order = n.order
    PROVE  Drawn(ScreenOf(s), s, n, c, u) = ScreenOf(n)
<1>1. ToSet(s.order) = DOMAIN s.messages /\ ToSet(n.order) = DOMAIN n.messages
  BY DEF ChatOK, ContentOK
<1> DEFINE list == IF u THEN n.order ELSE s.order
<1>2. list = n.order
  OBVIOUS
<1> DEFINE shown == [m \in ToSet(s.order) |-> Row(s, m)]
           rows  == [m \in ToSet(n.order) |->
                       IF m \in c.rows \/ m \notin DOMAIN shown THEN Row(n, m) ELSE shown[m]]
<1>3. rows = [m \in ToSet(n.order) |-> Row(n, m)]
  <2>1. \A m \in ToSet(n.order) :
          (IF m \in c.rows \/ m \notin DOMAIN shown THEN Row(n, m) ELSE shown[m]) = Row(n, m)
    BY <1>1 DEF Covers
  <2> QED BY <2>1
<1>4. (IF c.order \/ c.transcript THEN Transcript(n) ELSE Transcript(s)) = Transcript(n)
  BY DEF Covers
<1>5. (IF c.composer \/ CanEditDraft(s) # CanEditDraft(n) THEN Composer(n) ELSE Composer(s)) = Composer(n)
  BY DEF Covers, Composer
<1>6. (IF c.interaction THEN Interaction(n) ELSE Interaction(s)) = Interaction(n)
  BY DEF Covers
<1>7. (IF Auxiliary(s) # Auxiliary(n) THEN Auxiliary(n) ELSE Auxiliary(s)) = Auxiliary(n)
  OBVIOUS
<1>8. /\ ScreenOf(s).list = s.order /\ ScreenOf(s).rows = shown /\ ScreenOf(s).transcript = Transcript(s)
      /\ ScreenOf(s).composer = Composer(s) /\ ScreenOf(s).interaction = Interaction(s)
      /\ ScreenOf(s).auxiliary = Auxiliary(s)
  BY DEF ScreenOf
<1>9. Drawn(ScreenOf(s), s, n, c, u) =
        [list |-> list,
         rows |-> [m \in ToSet(list) |-> IF m \in c.rows \/ m \notin DOMAIN shown THEN Row(n, m) ELSE shown[m]],
         transcript |-> IF c.order \/ c.transcript THEN Transcript(n) ELSE Transcript(s),
         composer |-> IF c.composer \/ CanEditDraft(s) # CanEditDraft(n) THEN Composer(n) ELSE Composer(s),
         interaction |-> IF c.interaction THEN Interaction(n) ELSE Interaction(s),
         auxiliary |-> IF Auxiliary(s) # Auxiliary(n) THEN Auxiliary(n) ELSE Auxiliary(s)]
  <2> HIDE DEF shown
  <2> QED BY <1>8 DEF Drawn
<1> QED BY <1>2, <1>3, <1>4, <1>5, <1>6, <1>7, <1>9 DEF ScreenOf

\* A delivery comes to the state that the events come to, and covers its change.
LEMMA ApplicationCovers ==
    ASSUME NEW s, ChatOK(s), NEW q \in Seq(ChatEvents)
    PROVE  LET a == Application(s, q) IN
           /\ a.state = ApplyAll(s, q) /\ ChatOK(a.state) /\ a.changes \in ChangeSets
           /\ Covers(s, a.state, a.changes)
<1> DEFINE n == Len(q)
           base == [state |-> s, changes |-> NoChanges]
<1>1. PICK a : Path("application", base, q, a, n) /\ Application(s, q) = a[n]
  BY ApplicationPath
<1>2. PICK b : Path("state", s, q, b, n) /\ ApplyAll(s, q) = b[n]
  BY StatePath
<1>3. n \in Nat /\ \A k \in 0 .. n - 1 : q[k + 1] \in ChatEvents
  OBVIOUS
<1>4. base.state = s /\ base.changes = NoChanges
  OBVIOUS
<1> HIDE DEF n, base
<1> DEFINE Claim(k) == /\ a[k].state = b[k] /\ ChatOK(b[k]) /\ a[k].changes \in ChangeSets
                       /\ DOMAIN s.messages \subseteq DOMAIN b[k].messages
                       /\ Covers(s, b[k], a[k].changes)
           S == {k \in Nat : k <= n => Claim(k)}
<1>5. 0 \in S
  <2>1. a[0] = base /\ b[0] = s
    BY <1>1, <1>2 DEF Path
  <2> QED BY <2>1, <1>4, CoversNothing
<1>6. ASSUME NEW k \in Nat, k \in S PROVE k + 1 \in S
  <2> SUFFICES ASSUME k + 1 <= n PROVE Claim(k + 1)
    OBVIOUS
  <2>1. k \in 0 .. n - 1 /\ k <= n
    BY <1>3
  <2>2. Claim(k)
    BY <2>1, <1>6
  <2> DEFINE e == q[k + 1]
             d == EventChanges(b[k], Apply(b[k], e), e)
  <2>3. e \in ChatEvents
    BY <1>3, <2>1
  <2>4. b[k + 1] = Apply(b[k], e)
    BY <1>2, <2>1 DEF Path, Step
  <2>5. a[k + 1].state = b[k + 1] /\ a[k + 1].changes = Merge(a[k].changes, d)
    <3>1. a[k + 1] = [state |-> Apply(a[k].state, e),
                      changes |-> Merge(a[k].changes, EventChanges(a[k].state, Apply(a[k].state, e), e))]
      BY <1>1, <2>1 DEF Path, Step
    <3> HIDE DEF e
    <3> QED BY <3>1, <2>2, <2>4
  <2>6. d \in ChangeSets /\ Covers(b[k], b[k + 1], d)
    BY <2>2, <2>3, <2>4, EventChangesCover
  <2>7. ChatOK(b[k + 1]) /\ DOMAIN b[k].messages \subseteq DOMAIN b[k + 1].messages
    BY <2>2, <2>3, <2>4, ApplyKeepsChat
  <2> HIDE DEF d, e
  <2>8. Covers(s, b[k + 1], Merge(a[k].changes, d))
    BY <2>2, <2>6, <2>7, CoversMerged
  <2>9. Merge(a[k].changes, d) \in ChangeSets
    BY <2>2, <2>6, MergeFields
  <2> QED BY <2>2, <2>5, <2>7, <2>8, <2>9
<1>7. n \in S
  <2> HIDE DEF S
  <2> QED BY <1>3, <1>5, <1>6, AllNaturals
<1>8. Claim(n)
  BY <1>3, <1>7
<1> QED BY <1>1, <1>2, <1>8

-----------------------------------------------------------------------------
(* The inductive invariant of the relay.                                    *)

Relays == [phase : {"idle", "streaming", "closing", "finished"}, queue : Seq(ChatEvents), scheduled : BOOLEAN,
           named : BOOLEAN, ended : BOOLEAN, failed : BOOLEAN]

Active(t) == relay[t].phase \in {"streaming", "closing"}

RelayTypes == relay \in [Turns -> Relays] /\ failures \in Nat

\* One turn at a time is relayed, and only its queue holds something.
OneTurnInv ==
    /\ \A t \in Turns : \A u \in Turns : u < t /\ relay[t].phase # "idle" => relay[u].phase = "finished"
    /\ \A t \in Turns : ~Active(t) => relay[t].queue = <<>>
    /\ \A t \in Turns : relay[t].phase = "idle" => ~relay[t].named /\ ~relay[t].ended

\* What a queue holds are updates of parts that there are, of the turn's message.
\* All that the chat and the direct state differ in is what these parts hold.
HeldParts == {p \in PartIds : \E t \in Turns : relay[t].queue # <<>> /\ p[1] = Message(t)}

HeldInv ==
    /\ AlikeBut(chat, direct, HeldParts)
    /\ \A t \in Turns : /\ \A k \in 1 .. Len(relay[t].queue) : Batchable(relay[t].queue[k])
                        /\ KnownIn(chat, relay[t].queue)
                        /\ relay[t].queue # <<>> => ApplyAll(chat, relay[t].queue) = direct

\* A turn that has told its end is closed, and has left nothing to wait for.
IdsOf(t) == {IdOf(t, n) : n \in NamesIn[t]}

Over(t, s) ==
    /\ IsClosed(s, Message(t)) /\ s.approval \notin IdsOf(t)
    /\ (\A u \in Turns : u > t => relay[u].phase = "idle") => s.status = "waiting_for_user_input" /\ s.approval = None

EndInv ==
    \A t \in Turns :
        /\ relay[t].named => Started(t)
        /\ relay[t].ended => relay[t].queue = <<>> /\ Over(t, direct) /\ IsClosed(chat, Message(t))
        /\ relay[t].phase \in {"closing", "finished"} /\ ~relay[t].failed => relay[t].ended

RelayInv == RelayTypes /\ OneTurnInv /\ HeldInv /\ EndInv /\ ScreenShowsTheChat

-----------------------------------------------------------------------------
(* What the steps share.                                                    *)

LEMMA TouchesTwice ==
    ASSUME NEW s, NEW n, NEW k, NEW m, Touches(s, n, m), Touches(n, k, m)
    PROVE  Touches(s, k, m)
BY DEF Touches

\* The ids of turns, of their prompts and of their parts are different.
LEMMA TurnIds ==
    ASSUME NEW t \in Turns
    PROVE  /\ Message(t) \in MessageIds /\ Prompt(t) \in MessageIds
           /\ \A u \in Turns : Prompt(u) # Message(t) /\ (u # t => Message(u) # Message(t))
           /\ \A n \in NamesIn[t] : IdOf(t, n) \in PartIds /\ IdOf(t, n)[1] = Message(t) /\ IdOf(t, n)[2] = n
           /\ None \notin IdsOf(t)
           /\ \A u \in Turns : u # t => \A p \in IdsOf(u) : p \notin IdsOf(t)
<1>1. Message(t) \in MessageIds /\ Prompt(t) \in MessageIds
  BY DEF Message, Prompt, MessageIds
<1>2. \A u \in Turns : Prompt(u) # Message(t) /\ (u # t => Message(u) # Message(t))
  BY DEF Message, Prompt
<1>3. NamesIn[t] \subseteq DOMAIN KindOf
  BY TurnsAssumption
<1>4. \A n \in NamesIn[t] : IdOf(t, n) \in PartIds /\ IdOf(t, n)[1] = Message(t) /\ IdOf(t, n)[2] = n
  BY <1>1, <1>3 DEF IdOf, PartIds
<1>5. None \notin IdsOf(t)
  <2>1. \A a, b : <<a, b>> # <<>>
    OBVIOUS
  <2> QED BY <2>1 DEF IdsOf, IdOf, None
<1>6. \A u \in Turns : u # t => \A p \in IdsOf(u) : p \notin IdsOf(t)
  BY <1>2 DEF IdsOf, IdOf
<1> QED BY <1>1, <1>2, <1>4, <1>5, <1>6

\* What is closed stays closed when another message is touched.
LEMMA StaysClosed ==
    ASSUME NEW s, NEW n, NEW x, Touches(s, n, x), NEW m, m # x, IsClosed(s, m)
    PROVE  IsClosed(n, m)
BY DEF Touches, IsClosed

\* All turns but the one that is relayed have an empty queue, and the chat and
\* its queue come to the direct state.
LEMMA OthersAreEmpty ==
    ASSUME RelayInv, NEW t \in Turns, relay[t].phase # "finished",
           \A u \in Turns : u < t => relay[u].phase = "finished"
    PROVE  /\ \A u \in Turns : u # t => relay[u].queue = <<>>
           /\ \A u \in Turns : u > t => relay[u].phase = "idle"
           /\ ApplyAll(chat, relay[t].queue) = direct
           /\ \A p \in DOMAIN chat.parts : p[1] # Message(t) => chat.parts[p] = direct.parts[p]
<1>1. \A u \in Turns : u \in Nat
  BY TurnsAssumption
<1>2. \A u \in Turns : relay[u] \in Relays
  BY DEF RelayInv, RelayTypes
<1>3. \A u \in Turns : u > t => relay[u].phase = "idle"
  BY <1>1 DEF RelayInv, OneTurnInv
<1>4. ASSUME NEW u \in Turns, u # t PROVE relay[u].queue = <<>>
  <2>1. u > t \/ u < t
    BY <1>1, <1>4
  <2> QED BY <2>1, <1>3 DEF RelayInv, OneTurnInv, Active
<1>5. \A p \in HeldParts : p[1] = Message(t)
  BY <1>4 DEF HeldParts
<1>6. \A p \in DOMAIN chat.parts : p[1] # Message(t) => chat.parts[p] = direct.parts[p]
  BY <1>5 DEF RelayInv, HeldInv, AlikeBut
<1>7. ApplyAll(chat, relay[t].queue) = direct
  <2>1. CASE relay[t].queue = <<>>
    <3>1. HeldParts = {}
      BY <2>1, <1>4 DEF HeldParts
    <3>2. chat = direct
      BY <3>1, AlikeIsSame DEF RelayInv, HeldInv
    <3> QED BY <3>2, <2>1, ApplyNothing
  <2>2. CASE relay[t].queue # <<>>
    BY <2>2 DEF RelayInv, HeldInv
  <2> QED BY <2>1, <2>2
<1> QED BY <1>3, <1>4, <1>6, <1>7

\* The turn that is relayed is the first that is not finished.
LEMMA ActiveIsCurrent ==
    ASSUME RelayInv, NEW t \in Turns, Active(t)
    PROVE  relay[t].phase # "finished" /\ \A u \in Turns : u < t => relay[u].phase = "finished"
BY DEF RelayInv, OneTurnInv, Active

\* A delivery of the queue q, and what becomes of the screen.
Delivered(d) ==
    /\ chat' = d /\ failures' \in Nat
    /\ failures' = 0 => failures = 0 /\ screen' = ScreenOf(d)

\* It comes to the chat with all that was queued applied.
LEMMA Delivery ==
    ASSUME ChatOK(chat), failures \in Nat, ScreenShowsTheChat,
           NEW r, r.queue \in Seq(ChatEvents), KnownIn(chat, r.queue), DeliverTo(r) \/ DeliveryThrows(r)
    PROVE  Delivered(ApplyAll(chat, r.queue))
<1> DEFINE q == Compacted(r.queue)
           a == Application(chat, q)
           u == UpdatesController(chat, a.state, a.changes)
<1>1. q \in Seq(ChatEvents)
  <2>1. PICK b : Path("compacted", <<>>, r.queue, b, Len(r.queue)) /\ q = b[Len(r.queue)]
    BY CompactedPath
  <2>2. Len(r.queue) \in 0 .. Len(r.queue)
    OBVIOUS
  <2> QED BY <2>1, <2>2, CompactedIsSeq
<1>2. ApplyAll(chat, q) = ApplyAll(chat, r.queue)
  BY CompactedIsEnough
<1>3. CASE DeliveryThrows(r)
  <2>1. chat' = ApplyAll(chat, q) /\ failures' = failures + 1
    BY <1>3 DEF DeliveryThrows
  <2> HIDE DEF q
  <2> QED BY <2>1, <1>2 DEF Delivered
<1>4. CASE DeliverTo(r)
  <2>1. /\ chat' = a.state /\ failures' = failures
        /\ screen' = Drawn(screen, chat, a.state, a.changes, u)
    BY <1>4 DEF DeliverTo
  <2> HIDE DEF q
  <2>2. a.state = ApplyAll(chat, q) /\ ChatOK(a.state) /\ Covers(chat, a.state, a.changes)
    BY <1>1, ApplicationCovers
  <2>3. u \/ chat.order = a.state.order
    BY <2>2 DEF Covers, UpdatesController
  <2> HIDE DEF a, u
  <2>4. Drawn(ScreenOf(chat), chat, a.state, a.changes, u) = ScreenOf(a.state)
    BY <2>2, <2>3, DrawnIsScreen
  <2> QED BY <2>1, <2>2, <2>4, <1>2 DEF Delivered, ScreenShowsTheChat
<1> QED BY <1>3, <1>4

\* So does a replacement of the state, on the screen.
LEMMA Replacement ==
    ASSUME ChatOK(chat), failures \in Nat, ScreenShowsTheChat, UNCHANGED failures,
           NEW s, ChatOK(s), Replace(s)
    PROVE  Delivered(s)
<1> DEFINE c == StateChanges(chat, s)
<1>1. chat' = s /\ screen' = Drawn(screen, chat, s, c, TRUE)
  BY DEF Replace
<1>2. Covers(chat, s, c)
  BY StateChangesCover
<1> HIDE DEF c
<1>3. Drawn(ScreenOf(chat), chat, s, c, TRUE) = ScreenOf(s)
  BY <1>2, DrawnIsScreen
<1> QED BY <1>1, <1>3 DEF Delivered, ScreenShowsTheChat

\* Nothing reaches the message of a turn that is finished.
FinishedStay ==
    \A t \in Turns :
        relay[t].phase = "finished" /\ Message(t) \in DOMAIN chat.messages =>
            Row(chat', Message(t)) = Row(chat, Message(t))

\* A step that empties the queue of the turn t, with all its events applied.
LEMMA FlushStep ==
    ASSUME RelayInv, NEW t \in Turns, Active(t),
           NEW r \in Relays, relay' = [relay EXCEPT ![t] = r], r.queue = <<>>, r.phase # "idle",
           Delivered(direct'), Touches(direct, direct', Message(t)),
           direct'.approval \in {direct.approval, None} \union IdsOf(t),
           r.named => Message(t) \in DOMAIN direct'.messages,
           r.ended => /\ IsClosed(direct', Message(t)) /\ direct'.approval \notin IdsOf(t)
                      /\ (\A u \in Turns : u > t => relay[u].phase = "idle") =>
                            direct'.status = "waiting_for_user_input" /\ direct'.approval = None,
           r.phase \in {"closing", "finished"} /\ ~r.failed => r.ended
    PROVE  RelayInv' /\ FinishedStay
<1>1. /\ relay \in [Turns -> Relays] /\ failures \in Nat /\ relay[t] \in Relays
      /\ ChatOK(chat) /\ ChatOK(direct) /\ ChatOK(direct')
  BY DEF RelayInv, RelayTypes, HeldInv, AlikeBut, Touches
<1>2. /\ \A u \in Turns : u < t => relay[u].phase = "finished"
      /\ \A u \in Turns : u # t => relay[u].queue = <<>>
      /\ \A u \in Turns : u > t => relay[u].phase = "idle"
      /\ \A p \in DOMAIN chat.parts : p[1] # Message(t) => chat.parts[p] = direct.parts[p]
  BY ActiveIsCurrent, OthersAreEmpty
<1>3. relay'[t] = r /\ \A u \in Turns : u # t => relay'[u] = relay[u]
  BY <1>1
<1>4. \A u \in Turns : relay'[u].queue = <<>>
  BY <1>2, <1>3
<1>5. \A u \in Turns : u \in Nat
  BY TurnsAssumption
<1>6. RelayTypes'
  <2>1. relay' \in [Turns -> Relays]
    BY <1>1
  <2> QED BY <2>1 DEF RelayTypes, Delivered
<1>7. OneTurnInv'
  <2>1. \A v \in Turns : \A u \in Turns : u < v /\ relay'[v].phase # "idle" => relay'[u].phase = "finished"
    BY <1>2, <1>3, <1>5
  <2>2. \A u \in Turns : relay'[u].phase = "idle" => ~relay'[u].named /\ ~relay'[u].ended
    BY <1>3 DEF RelayInv, OneTurnInv
  <2> QED BY <1>4, <2>1, <2>2 DEF OneTurnInv
<1>8. HeldInv'
  <2>1. AlikeBut(chat', direct', HeldParts')
    BY <1>1, AlikeItself DEF Delivered
  <2>2. \A u \in Turns : \A k \in 1 .. Len(relay'[u].queue) : FALSE
    BY <1>4
  <2> QED BY <1>4, <2>1, <2>2 DEF HeldInv, KnownIn
<1>9. EndInv'
  <2> SUFFICES ASSUME NEW u \in Turns
               PROVE  /\ relay'[u].named => Message(u) \in DOMAIN direct'.messages
                      /\ relay'[u].ended => relay'[u].queue = <<>> /\ Over(u, direct)' /\ IsClosed(direct', Message(u))
                      /\ relay'[u].phase \in {"closing", "finished"} /\ ~relay'[u].failed => relay'[u].ended
    BY DEF EndInv, Started, Delivered
  <2>1. CASE u = t
    <3>1. (\A v \in Turns : v > t => relay'[v].phase = "idle") <=> (\A v \in Turns : v > t => relay[v].phase = "idle")
      BY <1>3, <1>5
    <3> QED BY <2>1, <1>3, <1>4, <3>1 DEF Over
  <2>2. CASE u # t
    <3>1. /\ relay[u].named => Message(u) \in DOMAIN direct.messages
          /\ relay[u].ended => Over(u, direct)
          /\ relay[u].phase \in {"closing", "finished"} /\ ~relay[u].failed => relay[u].ended
      BY DEF RelayInv, EndInv, Started
    <3>2. Message(u) # Message(t) /\ None \notin IdsOf(u) /\ \A p \in IdsOf(t) : p \notin IdsOf(u)
      BY <2>2, TurnIds
    <3>3. relay[u].named => Message(u) \in DOMAIN direct'.messages
      BY <3>1 DEF Touches
    <3>4. relay[u].ended => IsClosed(direct', Message(u)) /\ direct'.approval \notin IdsOf(u)
      BY <3>1, <3>2, StaysClosed DEF Over
    <3>5. relay[u].ended => t > u /\ relay'[t].phase # "idle"
      <4>1. relay[u].phase = "idle" => ~relay[u].ended
        BY DEF RelayInv, OneTurnInv
      <4> QED BY <4>1, <1>2, <1>3, <1>5, <2>2
    <3>6. relay[u].ended => Over(u, direct)'
      BY <3>4, <3>5 DEF Over
    <3> QED BY <2>2, <1>3, <1>4, <3>1, <3>3, <3>4, <3>6
  <2> QED BY <2>1, <2>2
<1>10. ScreenShowsTheChat'
  BY DEF Delivered, ScreenShowsTheChat
<1>11. FinishedStay
  <2> SUFFICES ASSUME NEW u \in Turns, relay[u].phase = "finished", Message(u) \in DOMAIN chat.messages
               PROVE  Row(direct', Message(u)) = Row(chat, Message(u))
    BY DEF FinishedStay, Delivered
  <2>1. u # t
    BY DEF Active
  <2>2. Message(u) # Message(t)
    BY <2>1, TurnIds
  <2>3. Message(u) \in DOMAIN direct.messages /\ direct.messages = chat.messages
    BY DEF RelayInv, HeldInv, AlikeBut
  <2>4. Row(direct', Message(u)) = Row(direct, Message(u))
    BY <1>1, <2>2, <2>3, RowStays
  <2>5. \A i \in DOMAIN chat.messages[Message(u)].parts :
          LET p == chat.messages[Message(u)].parts[i] IN chat.parts[p] = direct.parts[p]
    <3>1. \A i \in DOMAIN chat.messages[Message(u)].parts :
            LET p == chat.messages[Message(u)].parts[i] IN p \in DOMAIN chat.parts /\ p[1] = Message(u)
      BY <1>1 DEF ChatOK, ContentOK
    <3> QED BY <3>1, <1>2, <2>2
  <2>6. Row(direct, Message(u)) = Row(chat, Message(u))
    BY <2>3, <2>5 DEF Row
  <2> QED BY <2>4, <2>6
<1> QED BY <1>6, <1>7, <1>8, <1>9, <1>10, <1>11 DEF RelayInv

\* A step that holds an update back.
LEMMA HoldStep ==
    ASSUME RelayInv, NEW t \in Turns, Active(t), ~relay[t].ended,
           NEW e \in ChatEvents, Batchable(e), About(e, Message(t)), e.id \in DOMAIN direct.parts,
           NEW r \in Relays, relay' = [relay EXCEPT ![t] = r],
           r.queue = Append(relay[t].queue, e), r.phase = relay[t].phase,
           r.named => Started(t), ~r.ended, r.failed = relay[t].failed,
           direct' = Apply(direct, e), UNCHANGED <<chat, screen, failures>>
    PROVE  RelayInv' /\ FinishedStay
<1>1. /\ relay \in [Turns -> Relays] /\ failures \in Nat /\ relay[t] \in Relays
      /\ ChatOK(chat) /\ ChatOK(direct) /\ AlikeBut(chat, direct, HeldParts)
  BY DEF RelayInv, RelayTypes, HeldInv, AlikeBut
<1>2. /\ \A u \in Turns : u < t => relay[u].phase = "finished"
      /\ \A u \in Turns : u # t => relay[u].queue = <<>>
      /\ ApplyAll(chat, relay[t].queue) = direct
  BY ActiveIsCurrent, OthersAreEmpty
<1>3. relay'[t] = r /\ \A u \in Turns : u # t => relay'[u] = relay[u]
  BY <1>1
<1>4. e \in PartEvents /\ e.id[1] = Message(t) /\ e.id \in PartIds
  BY StreamedIsPart DEF About, PartEvents
<1>5. relay[t].queue \in Seq(ChatEvents) /\ r.queue # <<>>
  BY <1>1 DEF Relays
<1>6. AlikeBut(direct', direct, {e.id}) /\ Touches(direct, direct', Message(t))
  <2>1. AlikeBut(direct', direct, {e.id})
    BY <1>1, <1>4, Update
  <2> QED BY <2>1, <1>1, ApplyTouches
<1>7. RelayTypes'
  <2>1. relay' \in [Turns -> Relays]
    BY <1>1
  <2> QED BY <1>1, <2>1 DEF RelayTypes
<1>8. OneTurnInv'
  <2>1. \A v \in Turns : relay'[v].phase = relay[v].phase
    BY <1>3
  <2>2. \A v \in Turns : ~(relay[v].phase \in {"streaming", "closing"}) => relay'[v].queue = <<>>
    BY <1>3 DEF RelayInv, OneTurnInv, Active
  <2>3. \A v \in Turns : relay[v].phase = "idle" => ~relay'[v].named /\ ~relay'[v].ended
    BY <1>3 DEF RelayInv, OneTurnInv, Active
  <2>4. \A v \in Turns : \A u \in Turns : u < v /\ relay[v].phase # "idle" => relay[u].phase = "finished"
    BY DEF RelayInv, OneTurnInv
  <2> QED BY <2>1, <2>2, <2>3, <2>4 DEF OneTurnInv, Active
<1>9. HeldInv'
  <2>1. AlikeBut(chat, direct', HeldParts')
    <3>1. HeldParts \subseteq HeldParts' /\ e.id \in HeldParts'
      BY <1>2, <1>3, <1>4, <1>5 DEF HeldParts
    <3> QED BY <3>1, <1>1, <1>6 DEF AlikeBut
  <2>2. \A u \in Turns : u # t =>
          /\ \A k \in 1 .. Len(relay'[u].queue) : FALSE
          /\ relay'[u].queue = <<>>
    BY <1>2, <1>3
  <2>3. /\ \A k \in 1 .. Len(r.queue) : Batchable(r.queue[k])
        /\ KnownIn(chat, r.queue)
    <3>1. \A k \in 1 .. Len(r.queue) : (k \in 1 .. Len(relay[t].queue) /\ r.queue[k] = relay[t].queue[k]) \/ r.queue[k] = e
      BY <1>5
    <3>2. e.id \in DOMAIN chat.parts
      BY <1>1 DEF AlikeBut
    <3> QED BY <3>1, <3>2 DEF RelayInv, HeldInv, KnownIn
  <2>4. ApplyAll(chat, r.queue) = direct'
    <3>1. ApplyAll(chat, Append(relay[t].queue, e)) = Apply(ApplyAll(chat, relay[t].queue), e)
      BY <1>5, ApplyAppend
    <3> QED BY <3>1, <1>2
  <2> QED BY <1>3, <2>1, <2>2, <2>3, <2>4 DEF HeldInv, KnownIn
<1>10. EndInv'
  <2> SUFFICES ASSUME NEW u \in Turns
               PROVE  /\ relay'[u].named => Message(u) \in DOMAIN direct'.messages
                      /\ relay'[u].ended => relay'[u].queue = <<>> /\ Over(u, direct)' /\ IsClosed(chat, Message(u))
                      /\ relay'[u].phase \in {"closing", "finished"} /\ ~relay'[u].failed => relay'[u].ended
    BY DEF EndInv, Started
  <2>1. CASE u = t
    <3>1. relay[t].phase \in {"closing", "finished"} /\ ~relay[t].failed => relay[t].ended
      BY DEF RelayInv, EndInv
    <3> QED BY <2>1, <3>1, <1>3, <1>6 DEF Started, Touches
  <2>2. CASE u # t
    <3>1. /\ relay[u].named => Message(u) \in DOMAIN direct.messages
          /\ relay[u].ended => relay[u].queue = <<>> /\ Over(u, direct) /\ IsClosed(chat, Message(u))
          /\ relay[u].phase \in {"closing", "finished"} /\ ~relay[u].failed => relay[u].ended
      BY DEF RelayInv, EndInv, Started
    <3>2. Message(u) # Message(t)
      BY <2>2, TurnIds
    <3>3. \A v \in Turns : relay'[v].phase = relay[v].phase
      BY <1>3
    <3>4. relay[u].ended => Over(u, direct)'
      <4>1. IsClosed(direct, Message(u)) => IsClosed(direct', Message(u))
        BY <1>6, <3>2, StaysClosed
      <4>2. direct'.approval = direct.approval /\ direct'.status = direct.status
        BY <1>6 DEF AlikeBut
      <4> QED BY <3>1, <3>3, <4>1, <4>2 DEF Over
    <3> QED BY <2>2, <1>3, <1>6, <3>1, <3>4 DEF Touches
  <2> QED BY <2>1, <2>2
<1>11. ScreenShowsTheChat'
  BY DEF RelayInv, ScreenShowsTheChat
<1>12. FinishedStay
  BY DEF FinishedStay
<1> QED BY <1>7, <1>8, <1>9, <1>10, <1>11, <1>12 DEF RelayInv

\* A step that changes neither the states nor what the relay of t holds.
LEMMA QuietStep ==
    ASSUME RelayInv, NEW t \in Turns, NEW r \in Relays, relay' = [relay EXCEPT ![t] = r],
           r.queue = relay[t].queue, r.named = relay[t].named, r.ended = relay[t].ended,
           \/ r.phase = relay[t].phase /\ r.failed = relay[t].failed
           \/ relay[t].phase = "streaming" /\ r.phase = "closing" /\ (r.failed \/ r.ended),
           UNCHANGED direct, Delivered(chat)
    PROVE  RelayInv' /\ FinishedStay
<1>1. relay \in [Turns -> Relays] /\ relay[t] \in Relays /\ chat' = chat
  BY DEF RelayInv, RelayTypes, Delivered
<1>2. relay'[t] = r /\ \A u \in Turns : u # t => relay'[u] = relay[u]
  BY <1>1
<1>3. \A u \in Turns : /\ relay'[u].queue = relay[u].queue
                       /\ relay'[u].named = relay[u].named /\ relay'[u].ended = relay[u].ended
                       /\ relay'[u].phase = "idle" <=> relay[u].phase = "idle"
                       /\ relay'[u].phase = "finished" <=> relay[u].phase = "finished"
                       /\ relay'[u].phase \in {"streaming", "closing"} <=> relay[u].phase \in {"streaming", "closing"}
  BY <1>2
<1>4. RelayTypes'
  <2>1. relay' \in [Turns -> Relays]
    BY <1>1
  <2> QED BY <2>1 DEF RelayTypes, Delivered
<1>5. OneTurnInv'
  BY <1>3 DEF RelayInv, OneTurnInv, Active
<1>6. HeldInv'
  <2>1. HeldParts' = HeldParts
    BY <1>3 DEF HeldParts
  <2> QED BY <1>1, <1>3, <2>1 DEF RelayInv, HeldInv
<1>7. EndInv'
  <2> SUFFICES ASSUME NEW u \in Turns
               PROVE  /\ relay'[u].named => Message(u) \in DOMAIN direct.messages
                      /\ relay'[u].ended => relay'[u].queue = <<>> /\ Over(u, direct)' /\ IsClosed(chat, Message(u))
                      /\ relay'[u].phase \in {"closing", "finished"} /\ ~relay'[u].failed => relay'[u].ended
    BY <1>1 DEF EndInv, Started
  <2>1. /\ relay[u].named => Message(u) \in DOMAIN direct.messages
        /\ relay[u].ended => relay[u].queue = <<>> /\ Over(u, direct) /\ IsClosed(chat, Message(u))
        /\ relay[u].phase \in {"closing", "finished"} /\ ~relay[u].failed => relay[u].ended
    BY DEF RelayInv, EndInv, Started
  <2>2. Over(u, direct) => Over(u, direct)'
    BY <1>3 DEF Over
  <2> QED BY <1>2, <1>3, <2>1, <2>2
<1>8. ScreenShowsTheChat'
  BY DEF Delivered, ScreenShowsTheChat
<1>9. FinishedStay
  BY <1>1 DEF FinishedStay
<1> QED BY <1>4, <1>5, <1>6, <1>7, <1>8, <1>9 DEF RelayInv

-----------------------------------------------------------------------------
(* The steps of a turn.                                                     *)

\* An event that the turn t may send now.
MaySend(t, e) ==
    /\ e \in ChatEvents /\ About(e, Message(t))
    /\ e \in StartEvents \union ApprovalEvents \/ Started(t)
    /\ Batchable(e) => e.id \in DOMAIN direct.parts
    /\ e \in ApprovalEvents => e.id \in IdsOf(t)

\* What such an event does to the direct state.
LEMMA SentEvent ==
    ASSUME RelayInv, NEW t \in Turns, NEW e, MaySend(t, e)
    PROVE  LET n == Apply(direct, e) IN
           /\ Touches(direct, n, Message(t)) /\ n.approval \in {direct.approval, None} \union IdsOf(t)
           /\ e.type \notin {"approval_requested", "approval_cleared"} => Message(t) \in DOMAIN n.messages
           /\ e.type = "ended" => /\ IsClosed(n, Message(t)) /\ n.approval = None
                                  /\ n.status = "waiting_for_user_input"
<1> DEFINE n == Apply(direct, e)
<1>1. ChatOK(direct)
  BY DEF RelayInv, HeldInv, AlikeBut
<1>2. Touches(direct, n, Message(t))
  BY <1>1, ApplyTouches DEF MaySend
<1>3. CASE e \in StartEvents
  <2>1. e.message = Message(t) /\ e.type = "turn_started"
    BY <1>3 DEF MaySend, About, StartEvents
  <2>2. n.approval = None /\ Message(t) \in DOMAIN n.messages
    BY <1>1, <1>3, <2>1, ApplyStart
  <2> QED BY <1>2, <2>1, <2>2
<1>4. CASE e \in PartEvents
  <2>1. e.type \in {"part_added", "part_updated"} /\ Message(t) \in DOMAIN direct.messages
    BY <1>4 DEF MaySend, PartEvents, StartEvents, ApprovalEvents, Started
  <2>2. n.approval = direct.approval
    BY <1>1, <1>4, ApplyPart DEF Edits
  <2> QED BY <1>2, <2>1, <2>2 DEF Touches
<1>5. CASE e \in ApprovalEvents
  <2>1. e.type \in {"approval_requested", "approval_cleared"} /\ e.id \in IdsOf(t)
    BY <1>5 DEF MaySend, ApprovalEvents
  <2>2. n.approval \in {direct.approval, None, e.id}
    BY <1>1, <1>5, ApplyApproval
  <2> QED BY <1>2, <2>1, <2>2
<1>6. CASE e \in EndEvents
  <2>1. e.type = "ended" /\ e.message = Message(t) /\ Message(t) \in DOMAIN direct.messages
    BY <1>6 DEF MaySend, About, EndEvents, StartEvents, ApprovalEvents, Started
  <2>2. n.approval = None /\ n.status = "waiting_for_user_input" /\ IsClosed(n, Message(t))
    BY <1>1, <1>6, <2>1, ApplyEnd
  <2> QED BY <1>2, <2>1, <2>2 DEF IsClosed
<1> QED BY <1>3, <1>4, <1>5, <1>6 DEF MaySend, ChatEvents

\* The queue with the event that has just been put into it.
LEMMA QueuedEvent ==
    ASSUME RelayInv, NEW t \in Turns, NEW e, MaySend(t, e), relay[t].phase = "streaming"
    PROVE  LET r == Queued(relay[t], e) IN
           /\ r \in Relays /\ r.queue = Append(relay[t].queue, e) /\ r.queue \in Seq(ChatEvents)
           /\ r.phase = "streaming" /\ r.failed = relay[t].failed /\ r.scheduled = relay[t].scheduled
           /\ r.named = (relay[t].named \/ e.type \notin {"approval_requested", "approval_cleared"})
           /\ r.ended = (relay[t].ended \/ e.type = "ended")
           /\ KnownIn(chat, r.queue) /\ ApplyAll(chat, r.queue) = Apply(direct, e)
<1> DEFINE r == Queued(relay[t], e)
<1>1. relay[t] \in Relays /\ e \in ChatEvents
  BY DEF RelayInv, RelayTypes, MaySend
<1>2. relay[t].queue \in Seq(ChatEvents) /\ Append(relay[t].queue, e) \in Seq(ChatEvents)
  BY <1>1 DEF Relays
<1>3. /\ r.queue = Append(relay[t].queue, e)
      /\ r.phase = "streaming" /\ r.failed = relay[t].failed /\ r.scheduled = relay[t].scheduled
      /\ r.named = (relay[t].named \/ e.type \notin {"approval_requested", "approval_cleared"})
      /\ r.ended = (relay[t].ended \/ e.type = "ended")
      /\ r \in Relays
  BY <1>1, <1>2 DEF Queued, Relays
<1> HIDE DEF r
<1>4. KnownIn(chat, r.queue)
  <2>1. \A k \in 1 .. Len(r.queue) :
          (k \in 1 .. Len(relay[t].queue) /\ r.queue[k] = relay[t].queue[k]) \/ r.queue[k] = e
    BY <1>2, <1>3
  <2>2. Batchable(e) => e.id \in DOMAIN chat.parts
    BY DEF RelayInv, HeldInv, AlikeBut, MaySend
  <2> QED BY <2>1, <2>2 DEF RelayInv, HeldInv, KnownIn
<1>5. ApplyAll(chat, r.queue) = Apply(direct, e)
  <2>1. ApplyAll(chat, relay[t].queue) = direct
    <3>1. Active(t)
      BY DEF Active
    <3> QED BY <3>1, ActiveIsCurrent, OthersAreEmpty
  <2>2. ApplyAll(chat, Append(relay[t].queue, e)) = Apply(ApplyAll(chat, relay[t].queue), e)
    BY <1>1, <1>2, ApplyAppend
  <2> QED BY <2>1, <2>2, <1>3
<1> QED BY <1>2, <1>3, <1>4, <1>5 DEF r

\* What a flush does to the variables of a relay.
LEMMA FlushedFields ==
    ASSUME NEW r \in Relays
    PROVE  /\ Flushed(r) \in Relays /\ Flushed(r).queue = <<>> /\ Flushed(r).phase = r.phase
           /\ Flushed(r).named = r.named /\ Flushed(r).ended = r.ended /\ Flushed(r).failed = r.failed
<1>1. <<>> \in Seq(ChatEvents) /\ FALSE \in BOOLEAN
  OBVIOUS
<1> DEFINE f == [r EXCEPT !.queue = <<>>]
<1>2. /\ f \in Relays /\ f.queue = <<>> /\ f.phase = r.phase
      /\ f.named = r.named /\ f.ended = r.ended /\ f.failed = r.failed
  BY <1>1 DEF Relays
<1>3. Flushed(r) = [f EXCEPT !.scheduled = FALSE]
  BY DEF Flushed
<1> HIDE DEF f
<1> QED BY <1>1, <1>2, <1>3 DEF Relays

\* What a delivery that throws does to them.
LEMMA FailedFields ==
    ASSUME NEW r \in Relays
    PROVE  LET f == [r EXCEPT !.failed = TRUE]
               c == [r EXCEPT !.failed = TRUE, !.phase = "closing"] IN
           /\ f \in Relays /\ f.queue = r.queue /\ f.phase = r.phase /\ f.failed
           /\ f.named = r.named /\ f.ended = r.ended
           /\ c \in Relays /\ c.queue = r.queue /\ c.phase = "closing" /\ c.failed
           /\ c.named = r.named /\ c.ended = r.ended
BY DEF Relays

\* An event of the stream, delivered at once or held back.
LEMMA ReceiveStep ==
    ASSUME RelayInv, NEW t \in Turns, NEW e, MaySend(t, e), ~relay[t].ended, Receive(t, e)
    PROVE  RelayInv' /\ FinishedStay
<1> DEFINE r == Queued(relay[t], e)
           n == Apply(direct, e)
<1>1. relay[t].phase = "streaming" /\ direct' = n /\ Active(t)
  BY DEF Receive, Active
<1>2. /\ r \in Relays /\ r.queue = Append(relay[t].queue, e) /\ r.queue \in Seq(ChatEvents)
      /\ r.phase = "streaming" /\ r.failed = relay[t].failed
      /\ r.named = (relay[t].named \/ e.type \notin {"approval_requested", "approval_cleared"})
      /\ r.ended = (relay[t].ended \/ e.type = "ended")
      /\ KnownIn(chat, r.queue) /\ ApplyAll(chat, r.queue) = n
  BY <1>1, QueuedEvent
<1>3. /\ Touches(direct, n, Message(t)) /\ n.approval \in {direct.approval, None} \union IdsOf(t)
      /\ e.type \notin {"approval_requested", "approval_cleared"} => Message(t) \in DOMAIN n.messages
      /\ e.type = "ended" => /\ IsClosed(n, Message(t)) /\ n.approval = None
                             /\ n.status = "waiting_for_user_input"
  BY SentEvent
<1>4. FlushInStream(t, r) \/ (Batchable(e) /\ Hold(t, r))
  BY DEF Receive
<1> HIDE DEF r, n
<1>5. r.named => Message(t) \in DOMAIN n.messages
  <2>1. relay[t].named => Message(t) \in DOMAIN direct.messages
    BY DEF RelayInv, EndInv, Started
  <2> QED BY <2>1, <1>2, <1>3 DEF Touches
<1>6. r.ended => IsClosed(n, Message(t)) /\ n.approval = None /\ n.status = "waiting_for_user_input"
  BY <1>2, <1>3
<1>7. None \notin IdsOf(t)
  BY TurnIds
<1>8. CASE FlushInStream(t, r)
  <2>1. DeliverTo(r) \/ DeliveryThrows(r)
    BY <1>8 DEF FlushInStream
  <2>2. Delivered(n)
    BY <1>2, <2>1, Delivery DEF RelayInv, RelayTypes, HeldInv, AlikeBut
  <2>3. PICK q \in {Flushed(r), [Flushed(r) EXCEPT !.failed = TRUE, !.phase = "closing"]} :
          relay' = [relay EXCEPT ![t] = q]
    BY <1>8 DEF FlushInStream
  <2>4. /\ q \in Relays /\ q.queue = <<>> /\ q.phase \in {"streaming", "closing"}
        /\ q.named = r.named /\ q.ended = r.ended
        /\ q.phase = "closing" => q.failed
    <3>1. /\ Flushed(r) \in Relays /\ Flushed(r).queue = <<>> /\ Flushed(r).phase = r.phase
          /\ Flushed(r).named = r.named /\ Flushed(r).ended = r.ended
      BY <1>2, FlushedFields
    <3>2. CASE q = Flushed(r)
      BY <3>1, <3>2, <1>2
    <3>3. CASE q = [Flushed(r) EXCEPT !.failed = TRUE, !.phase = "closing"]
      BY <3>1, <3>3, FailedFields
    <3> QED BY <3>2, <3>3
  <2>5. Delivered(direct') /\ Touches(direct, direct', Message(t))
    BY <1>1, <1>3, <2>2
  <2>6. /\ direct'.approval \in {direct.approval, None} \union IdsOf(t)
        /\ q.named => Message(t) \in DOMAIN direct'.messages
    BY <1>1, <1>3, <1>5, <2>4
  <2>7. q.ended => /\ IsClosed(direct', Message(t)) /\ direct'.approval \notin IdsOf(t)
                   /\ direct'.status = "waiting_for_user_input" /\ direct'.approval = None
    BY <1>1, <1>6, <1>7, <2>4
  <2>8. q.phase # "idle" /\ (q.phase \in {"closing", "finished"} /\ ~q.failed => q.ended)
    BY <2>4
  <2> HIDE DEF Delivered
  <2> QED BY <1>1, <2>3, <2>4, <2>5, <2>6, <2>7, <2>8, FlushStep
<1>9. CASE Batchable(e) /\ Hold(t, r)
  <2> DEFINE q == [r EXCEPT !.scheduled = TRUE]
  <2>1. relay' = [relay EXCEPT ![t] = q] /\ UNCHANGED <<chat, screen, failures>>
    BY <1>9 DEF Hold
  <2>2. /\ q \in Relays /\ q.queue = r.queue /\ q.phase = r.phase /\ q.named = r.named
        /\ q.ended = r.ended /\ q.failed = r.failed
    BY <1>2 DEF Relays
  <2> HIDE DEF q
  <2>3. e \in ChatEvents /\ About(e, Message(t)) /\ e.id \in DOMAIN direct.parts /\ e \in PartEvents
    BY <1>9, StreamedIsPart DEF MaySend
  <2>4. Started(t) /\ e.type # "ended"
    BY <2>3 DEF MaySend, PartEvents, StartEvents, ApprovalEvents
  <2> QED BY <1>1, <1>2, <1>9, <2>1, <2>2, <2>3, <2>4, HoldStep DEF n
<1> QED BY <1>4, <1>8, <1>9

\* A part of the turn t with the name n is one that the reducers know.
LEMMA PartIsKnown ==
    ASSUME NEW t \in Turns, NEW n \in NamesIn[t], NEW st \in PartStatuses, NEW l \in Nat,
           KindOf[n] = "tool" => st # "streaming", KindOf[n] = "reasoning" => st \notin Unfinished,
           NEW ty \in {"part_added", "part_updated"}
    PROVE  [type |-> ty, id |-> IdOf(t, n), part |-> Part(n, st, l)] \in PartEvents
<1>1. n \in DOMAIN KindOf /\ n # "notice"
  BY TurnsAssumption
<1>2. KindOf[n] \in {"text", "reasoning", "tool"}
  BY <1>1, KindsAssumption
<1>3. IdOf(t, n) \in PartIds /\ IdOf(t, n)[2] = n
  BY TurnIds
<1>4. Part(n, st, l) \in PartRecords
  BY <1>2 DEF Part, PartRecords
<1>5. PartFits(IdOf(t, n), Part(n, st, l))
  BY <1>2, <1>3 DEF PartFits, Part, NoticeKinds
<1> QED BY <1>3, <1>4, <1>5 DEF PartEvents

\* The start of the turn.
LEMMA TurnStartsStep ==
    ASSUME RelayInv, NEW t \in Turns, TurnStarts(t)
    PROVE  RelayInv' /\ FinishedStay
<1> DEFINE e == [type |-> "turn_started", message |-> Message(t)]
<1>1. Receive(t, e) /\ ~relay[t].ended
  BY DEF TurnStarts
<1>2. e \in StartEvents /\ e.type = "turn_started" /\ e.message = Message(t)
  BY TurnIds DEF StartEvents
<1> HIDE DEF e
<1>3. MaySend(t, e)
  BY <1>2 DEF MaySend, About, Batchable, ChatEvents, ApprovalEvents
<1> QED BY <1>1, <1>3, ReceiveStep

\* A part of its message, new or not.
LEMMA PartEventStep ==
    ASSUME RelayInv, NEW t \in Turns, Runs(t), NEW e \in PartEvents, e.id[1] = Message(t), Receive(t, e),
           e.type = "part_updated" => e.id \in DOMAIN direct.parts
    PROVE  RelayInv' /\ FinishedStay
<1>1. Started(t) /\ ~relay[t].ended
  BY DEF Runs
<1>2. MaySend(t, e)
  BY <1>1 DEF MaySend, About, Batchable, ChatEvents, ApprovalEvents, PartEvents
<1> QED BY <1>1, <1>2, ReceiveStep

\* A new part.
LEMMA PartAddedStep ==
    ASSUME RelayInv, NEW t \in Turns, NEW n \in NamesIn[t], PartAdded(t, n)
    PROVE  RelayInv' /\ FinishedStay
<1>1. PICK st \in (IF KindOf[n] = "tool" THEN Unfinished ELSE {"streaming"}) :
        Receive(t, [type |-> "part_added", id |-> IdOf(t, n), part |-> Part(n, st, 1)])
  BY DEF PartAdded
<1> DEFINE e == [type |-> "part_added", id |-> IdOf(t, n), part |-> Part(n, st, 1)]
<1>2. e \in PartEvents
  <2>1. st \in PartStatuses /\ 1 \in Nat /\ "part_added" \in {"part_added", "part_updated"}
    BY DEF PartStatuses, Unfinished
  <2>2. (KindOf[n] = "tool" => st # "streaming") /\ (KindOf[n] = "reasoning" => st \notin Unfinished)
    BY DEF Unfinished
  <2> QED BY <2>1, <2>2, PartIsKnown
<1>3. e.type = "part_added" /\ e.id = IdOf(t, n) /\ IdOf(t, n)[1] = Message(t)
  BY TurnIds
<1>4. Receive(t, e) /\ Runs(t)
  BY <1>1 DEF PartAdded
<1> HIDE DEF e
<1> QED BY <1>2, <1>3, <1>4, PartEventStep

\* A part that there is.
LEMMA PartUpdatedStep ==
    ASSUME RelayInv, NEW t \in Turns, NEW n \in NamesIn[t], PartUpdated(t, n)
    PROVE  RelayInv' /\ FinishedStay
<1> DEFINE p == IdOf(t, n)
           old == direct.parts[p]
<1>1. p \in DOMAIN direct.parts /\ Runs(t)
  BY DEF PartUpdated
<1>2. PICK part \in Updates(old, n, p \in asked) :
        Receive(t, [type |-> "part_updated", id |-> p, part |-> part])
  BY DEF PartUpdated
<1>3. old \in PartRecords /\ PartFits(p, old)
  BY <1>1 DEF RelayInv, HeldInv, AlikeBut, ChatOK, ContentOK
<1>4. p[1] = Message(t) /\ p[2] = n
  BY TurnIds
<1>5. n # "notice"
  BY TurnsAssumption
<1> HIDE DEF p, old
<1>6. old.kind = KindOf[n] /\ old.length \in Nat
  BY <1>3, <1>4, <1>5 DEF PartFits, PartRecords
<1>7. PICK st \in PartStatuses, l \in Nat :
        /\ part = Part(n, st, l)
        /\ KindOf[n] = "tool" => st # "streaming"
        /\ KindOf[n] = "reasoning" => st \notin Unfinished
  <2>1. CASE old.status = "streaming"
    <3>1. PICK x \in {<<"streaming", old.length + 1>>, <<"completed", old.length>>} : part = Part(n, x[1], x[2])
      BY <1>2, <2>1 DEF Updates
    <3>2. KindOf[n] # "tool"
      BY <1>3, <1>6, <2>1 DEF PartFits
    <3>3. x[1] \in PartStatuses /\ x[1] \notin Unfinished /\ x[2] \in Nat
      BY <1>6 DEF PartStatuses, EndStatuses, Unfinished
    <3> QED BY <3>1, <3>2, <3>3
  <2>2. CASE old.status = "pending_approval"
    <3>1. PICK st \in {"running", "denied"} : part = Part(n, st, 1)
      BY <1>2, <2>2 DEF Updates
    <3>2. KindOf[n] # "reasoning"
      BY <1>3, <1>6, <2>2 DEF PartFits, Unfinished
    <3>3. st \in PartStatuses /\ st # "streaming" /\ 1 \in Nat
      BY DEF PartStatuses, Unfinished
    <3> QED BY <3>1, <3>2, <3>3
  <2>3. CASE old.status = "running"
    <3>1. PICK st \in {"completed", "failed"} : part = Part(n, st, 1)
      BY <1>2, <2>3 DEF Updates
    <3>2. st \in PartStatuses /\ st # "streaming" /\ st \notin Unfinished /\ 1 \in Nat
      BY DEF PartStatuses, EndStatuses, Unfinished
    <3> QED BY <3>1, <3>2
  <2> QED BY <1>2, <2>1, <2>2, <2>3 DEF Updates
<1> DEFINE e == [type |-> "part_updated", id |-> IdOf(t, n), part |-> Part(n, st, l)]
<1>8. e \in PartEvents
  <2>1. "part_updated" \in {"part_added", "part_updated"}
    OBVIOUS
  <2> QED BY <1>7, <2>1, PartIsKnown
<1>9. e.type = "part_updated" /\ e.id = p /\ Receive(t, e)
  BY <1>2, <1>7 DEF p
<1> HIDE DEF e
<1> QED BY <1>1, <1>4, <1>8, <1>9, PartEventStep

\* A question to the user, and its answer.
LEMMA ApprovalStep ==
    ASSUME RelayInv, NEW t \in Turns, NEW n \in NamesIn[t], ApprovalRequested(t, n) \/ ApprovalCleared(t, n)
    PROVE  RelayInv' /\ FinishedStay
<1>1. IdOf(t, n) \in IdsOf(t) /\ IdOf(t, n) \in PartIds
  BY TurnIds DEF IdsOf
<1>2. ~relay[t].ended
  <2>1. CASE ApprovalRequested(t, n)
    BY <2>1 DEF ApprovalRequested, Runs
  <2>2. CASE ApprovalCleared(t, n)
    BY <2>2, <1>1 DEF ApprovalCleared, RelayInv, EndInv, Over
  <2> QED BY <2>1, <2>2
<1>3. PICK ty \in {"approval_requested", "approval_cleared"} : Receive(t, [type |-> ty, id |-> IdOf(t, n)])
  BY DEF ApprovalRequested, ApprovalCleared
<1> DEFINE e == [type |-> ty, id |-> IdOf(t, n)]
<1>4. e \in ApprovalEvents /\ e.id = IdOf(t, n) /\ e.type \in {"approval_requested", "approval_cleared"}
  BY <1>1 DEF ApprovalEvents
<1>5. Receive(t, e)
  BY <1>3
<1> HIDE DEF e
<1>6. MaySend(t, e)
  BY <1>1, <1>4 DEF MaySend, About, Batchable, ChatEvents
<1> QED BY <1>2, <1>5, <1>6, ReceiveStep

\* The end of the turn.
LEMMA EndStreamedStep ==
    ASSUME RelayInv, NEW t \in Turns, NEW st \in {"completed", "incomplete", "failed", "interrupted"},
           EndStreamed(t, st)
    PROVE  RelayInv' /\ FinishedStay
<1> DEFINE e == Ends(t, st)
<1>1. Receive(t, e) /\ Started(t) /\ ~relay[t].ended
  BY DEF EndStreamed, Runs
<1>2. e \in EndEvents /\ e.type = "ended" /\ e.message = Message(t)
  BY TurnIds DEF EndEvents, EndStatuses, Ends
<1> HIDE DEF e
<1>3. MaySend(t, e)
  BY <1>1, <1>2 DEF MaySend, About, Batchable, ChatEvents, ApprovalEvents
<1> QED BY <1>1, <1>3, ReceiveStep

\* A flush of what is queued already.
LEMMA QueueStep ==
    ASSUME RelayInv, NEW t \in Turns, Active(t), UNCHANGED direct,
           NEW q, q.queue = relay[t].queue, DeliverTo(q) \/ DeliveryThrows(q),
           NEW r \in Relays, relay' = [relay EXCEPT ![t] = r], r.queue = <<>>, r.phase # "idle",
           r.named = relay[t].named, r.ended = relay[t].ended,
           r.phase \in {"closing", "finished"} /\ ~r.failed => r.ended
    PROVE  RelayInv' /\ FinishedStay
<1>1. /\ ChatOK(chat) /\ ChatOK(direct) /\ failures \in Nat /\ ScreenShowsTheChat
      /\ relay[t].queue \in Seq(ChatEvents) /\ KnownIn(chat, relay[t].queue)
  BY DEF RelayInv, RelayTypes, HeldInv, AlikeBut, Relays
<1>2. ApplyAll(chat, relay[t].queue) = direct
  BY ActiveIsCurrent, OthersAreEmpty
<1>3. Delivered(direct')
  BY <1>1, <1>2, Delivery
<1>4. Touches(direct, direct', Message(t))
  BY <1>1 DEF Touches
<1>5. /\ relay[t].named => Message(t) \in DOMAIN direct'.messages
      /\ relay[t].ended => Over(t, direct)
  BY DEF RelayInv, EndInv, Started
<1>6. r.ended => /\ IsClosed(direct', Message(t)) /\ direct'.approval \notin IdsOf(t)
                 /\ (\A u \in Turns : u > t => relay[u].phase = "idle") =>
                       direct'.status = "waiting_for_user_input" /\ direct'.approval = None
  BY <1>5 DEF Over
<1>7. direct'.approval \in {direct.approval, None} \union IdsOf(t)
  OBVIOUS
<1> QED BY <1>3, <1>4, <1>5, <1>6, <1>7, FlushStep

\* A timer of a relay that has finished, or of one that has not.
LEMMA TimerFiresStep ==
    ASSUME RelayInv, NEW t \in Turns, TimerFires(t)
    PROVE  RelayInv' /\ FinishedStay
<1>1. UNCHANGED direct /\ (DeliverTo(relay[t]) \/ DeliveryThrows(relay[t])) /\ relay[t] \in Relays
  BY DEF TimerFires, RelayInv, RelayTypes
<1>2. PICK r \in {Flushed(relay[t]), [Flushed(relay[t]) EXCEPT !.failed = TRUE]} :
        /\ relay' = [relay EXCEPT ![t] = r]
        /\ r = Flushed(relay[t]) \/ DeliveryThrows(relay[t])
  <2>1. relay \in [Turns -> Relays]
    BY DEF RelayInv, RelayTypes
  <2> QED BY <2>1 DEF TimerFires
<1>3. /\ Flushed(relay[t]) \in Relays /\ Flushed(relay[t]).queue = <<>> /\ Flushed(relay[t]).phase = relay[t].phase
      /\ Flushed(relay[t]).named = relay[t].named /\ Flushed(relay[t]).ended = relay[t].ended
      /\ Flushed(relay[t]).failed = relay[t].failed
  BY <1>1, FlushedFields
<1>4. /\ r \in Relays /\ r.queue = <<>> /\ r.phase = relay[t].phase
      /\ r.named = relay[t].named /\ r.ended = relay[t].ended
      /\ r.failed \/ r.failed = relay[t].failed
      /\ r = Flushed(relay[t]) => r.failed = relay[t].failed
  <2>1. CASE r = Flushed(relay[t])
    BY <2>1, <1>3
  <2>2. CASE r = [Flushed(relay[t]) EXCEPT !.failed = TRUE]
    BY <2>2, <1>3, FailedFields
  <2> QED BY <2>1, <2>2
<1>5. CASE Active(t)
  <2>1. relay[t].phase \in {"closing", "finished"} /\ ~relay[t].failed => relay[t].ended
    BY DEF RelayInv, EndInv
  <2>2. r.phase # "idle"
    BY <1>4, <1>5 DEF Active
  <2> QED BY <1>1, <1>2, <1>4, <1>5, <2>1, <2>2, QueueStep
<1>6. CASE ~Active(t)
  <2>1. relay[t].queue = <<>>
    BY <1>6 DEF RelayInv, OneTurnInv
  <2>2. ~DeliveryThrows(relay[t])
    BY <2>1 DEF DeliveryThrows
  <2>3. Delivered(chat)
    <3>1. /\ ChatOK(chat) /\ failures \in Nat /\ ScreenShowsTheChat
          /\ relay[t].queue \in Seq(ChatEvents) /\ KnownIn(chat, relay[t].queue)
      BY <1>1 DEF RelayInv, RelayTypes, HeldInv, AlikeBut, Relays
    <3>2. Delivered(ApplyAll(chat, relay[t].queue))
      BY <1>1, <3>1, Delivery
    <3> QED BY <3>2, <2>1, ApplyNothing
  <2>4. r.failed = relay[t].failed
    BY <1>2, <1>4, <2>2
  <2> QED BY <1>1, <1>2, <1>4, <2>1, <2>3, <2>4, QuietStep
<1> QED BY <1>5, <1>6

\* The last flush, or what is left when a delivery has thrown.
LEMMA FinishStep ==
    ASSUME RelayInv, NEW t \in Turns, Finish(t)
    PROVE  RelayInv' /\ FinishedStay
<1> DEFINE r == [relay[t] EXCEPT !.phase = "finished", !.queue = <<>>]
<1>1. relay[t].phase = "closing" /\ Active(t) /\ relay[t] \in Relays
  BY DEF Finish, Active, RelayInv, RelayTypes
<1>2. /\ r \in Relays /\ r.queue = <<>> /\ r.phase = "finished"
      /\ r.named = relay[t].named /\ r.ended = relay[t].ended /\ r.failed = relay[t].failed
  <2>1. <<>> \in Seq(ChatEvents)
    OBVIOUS
  <2> DEFINE q == [relay[t] EXCEPT !.phase = "finished"]
  <2>2. /\ q \in Relays /\ q.phase = "finished"
        /\ q.named = relay[t].named /\ q.ended = relay[t].ended /\ q.failed = relay[t].failed
    BY <1>1 DEF Relays
  <2>3. r = [q EXCEPT !.queue = <<>>]
    OBVIOUS
  <2> HIDE DEF q, r
  <2> QED BY <2>1, <2>2, <2>3 DEF Relays
<1>3. \/ relay[t].failed /\ relay' = [relay EXCEPT ![t] = r] /\ direct' = chat /\ UNCHANGED <<chat, screen, failures>>
      \/ /\ ~relay[t].failed /\ UNCHANGED direct
         /\ \/ DeliverTo(relay[t]) /\ relay' = [relay EXCEPT ![t] = Flushed(r)]
            \/ DeliveryThrows(relay[t]) /\ relay' = [relay EXCEPT ![t] = [Flushed(r) EXCEPT !.failed = TRUE]]
  BY DEF Finish
<1> HIDE DEF r
<1>4. CASE relay[t].failed /\ relay' = [relay EXCEPT ![t] = r] /\ direct' = chat /\ UNCHANGED <<chat, screen, failures>>
  <2>1. /\ ChatOK(chat) /\ AlikeBut(chat, direct, HeldParts) /\ failures \in Nat
    BY DEF RelayInv, RelayTypes, HeldInv, AlikeBut
  <2>2. \A p \in DOMAIN chat.parts : p[1] # Message(t) => chat.parts[p] = direct.parts[p]
    BY <1>1, ActiveIsCurrent, OthersAreEmpty
  <2>3. Touches(direct, chat, Message(t))
    BY <2>1, <2>2 DEF Touches, AlikeBut
  <2>4. Delivered(chat)
    BY <1>4, <2>1 DEF Delivered, RelayInv, ScreenShowsTheChat
  <2>5. /\ relay[t].named => Message(t) \in DOMAIN direct.messages
        /\ relay[t].ended => Over(t, direct) /\ IsClosed(chat, Message(t))
    BY DEF RelayInv, EndInv, Started
  <2>6. direct.messages = chat.messages /\ direct.approval = chat.approval /\ direct.status = chat.status
    BY <2>1 DEF AlikeBut
  <2>7. r.ended => /\ IsClosed(direct', Message(t)) /\ direct'.approval \notin IdsOf(t)
                   /\ (\A u \in Turns : u > t => relay[u].phase = "idle") =>
                         direct'.status = "waiting_for_user_input" /\ direct'.approval = None
    BY <1>2, <1>4, <2>5, <2>6 DEF Over
  <2>8. /\ direct'.approval \in {direct.approval, None} \union IdsOf(t)
        /\ r.named => Message(t) \in DOMAIN direct'.messages
    BY <1>2, <1>4, <2>5, <2>6
  <2> QED BY <1>1, <1>2, <1>4, <2>3, <2>4, <2>7, <2>8, FlushStep
<1>5. CASE /\ ~relay[t].failed /\ UNCHANGED direct
           /\ \/ DeliverTo(relay[t]) /\ relay' = [relay EXCEPT ![t] = Flushed(r)]
              \/ DeliveryThrows(relay[t]) /\ relay' = [relay EXCEPT ![t] = [Flushed(r) EXCEPT !.failed = TRUE]]
  <2>1. relay[t].ended
    BY <1>1, <1>5 DEF RelayInv, EndInv
  <2>2. PICK q \in {Flushed(r), [Flushed(r) EXCEPT !.failed = TRUE]} : relay' = [relay EXCEPT ![t] = q]
    BY <1>5
  <2>3. /\ Flushed(r) \in Relays /\ Flushed(r).queue = <<>> /\ Flushed(r).phase = "finished"
        /\ Flushed(r).named = relay[t].named /\ Flushed(r).ended = relay[t].ended
    BY <1>2, FlushedFields
  <2>4. /\ q \in Relays /\ q.queue = <<>> /\ q.phase # "idle"
        /\ q.named = relay[t].named /\ q.ended = relay[t].ended
    <3>1. CASE q = Flushed(r)
      BY <3>1, <2>3
    <3>2. CASE q = [Flushed(r) EXCEPT !.failed = TRUE]
      BY <3>2, <2>3, FailedFields
    <3> QED BY <3>1, <3>2
  <2>5. DeliverTo(relay[t]) \/ DeliveryThrows(relay[t])
    BY <1>5
  <2> QED BY <1>1, <1>5, <2>1, <2>2, <2>4, <2>5, QueueStep
<1> QED BY <1>3, <1>4, <1>5

\* The beginnings of two events, and what they are appended to.
LEMMA TwoEvents ==
    ASSUME NEW E, NEW b \in E, NEW e \in E, NEW h \in Seq(E)
    PROVE  /\ <<b>> \in Seq(E) /\ <<b, e>> \in Seq(E) /\ <<b, e>> = Append(<<b>>, e)
           /\ SubSeq(<<b>>, 1, 1) = <<b>>
           /\ SubSeq(<<b, e>>, 1, 1) = <<b>> /\ SubSeq(<<b, e>>, 1, 2) = <<b, e>>
           /\ h \o <<b>> = Append(h, b) /\ h \o <<b, e>> = Append(Append(h, b), e)
<1> DEFINE one == <<b>>
           two == <<b, e>>
<1>1. one \in Seq(E) /\ Len(one) = 1 /\ one[1] = b
  OBVIOUS
<1>2. two \in Seq(E) /\ Len(two) = 2 /\ two[1] = b /\ two[2] = e
  OBVIOUS
<1>3. two = Append(one, e)
  OBVIOUS
<1> HIDE DEF one, two
<1>4. SubSeq(one, 1, 1) = one /\ SubSeq(two, 1, 2) = two
  BY <1>1, <1>2, SubSeqFull
<1>5. SubSeq(two, 1, 1) = one
  <2> DEFINE a == SubSeq(two, 1, 1)
  <2>1. a \in Seq(E) /\ Len(a) = 1 /\ a[1] = b
    BY <1>2
  <2> HIDE DEF a
  <2>2. \A i \in 1 .. Len(a) : a[i] = one[i]
    BY <2>1, <1>1
  <2>3. a = one
    BY <2>1, <2>2, <1>1, SeqEqual
  <2> QED BY <2>3 DEF a
<1>6. h \o one = Append(h, b) /\ Append(h, b) \in Seq(E)
  BY AppendIsConcat, AppendProperties DEF one
<1>7. h \o two = Append(Append(h, b), e)
  <2> DEFINE c == Append(h, b)
  <2>1. one \o <<e>> = Append(one, e) /\ <<e>> \in Seq(E)
    BY <1>1, AppendIsConcat
  <2>2. c \o <<e>> = Append(c, e)
    BY <1>6, AppendIsConcat
  <2>3. h \o (one \o <<e>>) = (h \o one) \o <<e>>
    BY <1>1, <2>1, ConcatAssociative
  <2> QED BY <1>3, <1>6, <2>1, <2>2, <2>3
<1> QED BY <1>1, <1>2, <1>3, <1>4, <1>5, <1>6, <1>7 DEF one, two

\* The events that close the turn t, up to the one at which a delivery throws.
LEMMA SyntheticEvents ==
    ASSUME NEW t \in Turns, Synthetic(t) # <<>>, NEW n \in DOMAIN Synthetic(t),
           NEW g, g = SubSeq(Synthetic(t), 1, n)
    PROVE  LET b == [type |-> "turn_started", message |-> Message(t)]
               e == Ends(t, "failed") IN
           /\ ~relay[t].ended
           /\ \/ relay[t].named /\ n = Len(Synthetic(t)) /\ g = <<e>>
              \/ ~relay[t].named /\ n = Len(Synthetic(t)) /\ g = <<b, e>>
              \/ ~relay[t].named /\ n # Len(Synthetic(t)) /\ g = <<b>>
<1> DEFINE b == [type |-> "turn_started", message |-> Message(t)]
           e == Ends(t, "failed")
<1>1. ~relay[t].ended
  BY DEF Synthetic
<1>0. /\ SubSeq(<<e>>, 1, 1) = <<e>> /\ SubSeq(<<b, e>>, 1, 1) = <<b>> /\ SubSeq(<<b, e>>, 1, 2) = <<b, e>>
      /\ <<b>> \o <<e>> = <<b, e>> /\ <<>> \o <<e>> = <<e>>
      /\ DOMAIN <<e>> = {1} /\ DOMAIN <<b, e>> = {1, 2}
  <2> HIDE DEF b, e
  <2>1. b \in {b, e} /\ e \in {b, e} /\ <<b>> \in Seq({b, e}) /\ <<e>> \in Seq({b, e})
    OBVIOUS
  <2>2. <<b, e>> = Append(<<b>>, e)
    BY <2>1, TwoEvents
  <2>5. Append(<<b>>, e) = <<b>> \o <<e>>
    BY <2>1, AppendIsConcat
  <2>3. <<>> \o <<e>> = <<e>>
    BY <2>1, ConcatEmptySeq
  <2>4. DOMAIN <<e>> = {1} /\ DOMAIN <<b, e>> = {1, 2}
    OBVIOUS
  <2>6. /\ SubSeq(<<e>>, 1, 1) = <<e>> /\ SubSeq(<<b, e>>, 1, 1) = <<b>>
        /\ SubSeq(<<b, e>>, 1, 2) = <<b, e>>
    BY <2>1, TwoEvents
  <2> QED BY <2>2, <2>3, <2>4, <2>5, <2>6
<1>01. Synthetic(t) = IF relay[t].named THEN <<>> \o <<e>> ELSE <<b>> \o <<e>>
  BY <1>1 DEF Synthetic
<1> HIDE DEF b, e
<1>2. CASE relay[t].named
  <2>1. Synthetic(t) = <<e>>
    BY <1>0, <1>01, <1>2
  <2>2. n = 1 /\ Len(<<e>>) = 1
    BY <2>1
  <2> QED BY <1>0, <1>1, <1>2, <2>1, <2>2 DEF e
<1>3. CASE ~relay[t].named
  <2>1. Synthetic(t) = <<b, e>>
    BY <1>0, <1>01, <1>3
  <2>2. n \in {1, 2} /\ Len(<<b, e>>) = 2
    BY <2>1, <1>0
  <2> QED BY <1>0, <1>1, <1>3, <2>1, <2>2 DEF b, e
<1> QED BY <1>2, <1>3

\* What they come to.
LEMMA ClosingEvents ==
    ASSUME RelayInv, NEW t \in Turns, Active(t), Synthetic(t) # <<>>, NEW n \in DOMAIN Synthetic(t),
           NEW g, g = SubSeq(Synthetic(t), 1, n)
    PROVE  LET d == ApplyAll(direct, g)
               q == relay[t].queue \o g IN
           /\ q \in Seq(ChatEvents) /\ KnownIn(chat, q) /\ ApplyAll(chat, q) = d
           /\ Touches(direct, d, Message(t)) /\ d.approval = None /\ Message(t) \in DOMAIN d.messages
           /\ n = Len(Synthetic(t)) => IsClosed(d, Message(t)) /\ d.status = "waiting_for_user_input"
<1> DEFINE b == [type |-> "turn_started", message |-> Message(t)]
           e == Ends(t, "failed")
           d == ApplyAll(direct, g)
           h == relay[t].queue
           q == h \o g
<1>1. \/ relay[t].named /\ n = Len(Synthetic(t)) /\ g = <<e>>
      \/ ~relay[t].named /\ n = Len(Synthetic(t)) /\ g = <<b, e>>
      \/ ~relay[t].named /\ n # Len(Synthetic(t)) /\ g = <<b>>
  BY SyntheticEvents
<1>2. /\ b \in StartEvents /\ b \in ChatEvents /\ b.message = Message(t) /\ ~Batchable(b)
      /\ e \in EndEvents /\ e \in ChatEvents /\ e.message = Message(t) /\ ~Batchable(e)
  BY TurnIds DEF StartEvents, EndEvents, ChatEvents, EndStatuses, Ends, Batchable
<1>3. h \in Seq(ChatEvents) /\ ChatOK(direct) /\ ApplyAll(chat, h) = direct /\ KnownIn(chat, h)
  BY ActiveIsCurrent, OthersAreEmpty DEF RelayInv, RelayTypes, Relays, HeldInv, AlikeBut
<1>4. relay[t].named => Message(t) \in DOMAIN direct.messages
  BY DEF RelayInv, EndInv, Started
<1> HIDE DEF b, e, h
<1>5. g \in Seq(ChatEvents) /\ \A k \in 1 .. Len(g) : ~Batchable(g[k])
  <2> DEFINE E == {x \in ChatEvents : ~Batchable(x)}
  <2>1. b \in E /\ e \in E
    BY <1>2
  <2>2. <<b>> \in Seq(E) /\ <<e>> \in Seq(E) /\ <<b, e>> \in Seq(E)
    <3> HIDE DEF E
    <3> QED BY <2>1
  <2>3. g \in Seq(E)
    BY <1>1, <2>2
  <2>4. \A k \in 1 .. Len(g) : g[k] \in E
    <3> HIDE DEF E
    <3> QED BY <2>3
  <2>5. <<b>> \in Seq(ChatEvents) /\ <<e>> \in Seq(ChatEvents) /\ <<b, e>> \in Seq(ChatEvents)
    BY <1>2, TwoEvents
  <2>6. g \in Seq(ChatEvents)
    BY <1>1, <2>5
  <2> QED BY <2>4, <2>6
<1>6. q \in Seq(ChatEvents) /\ KnownIn(chat, q)
  <2>1. q \in Seq(ChatEvents)
    BY <1>3, <1>5
  <2>2. \A k \in 1 .. Len(q) : (k \in 1 .. Len(h) /\ q[k] = h[k]) \/ (k - Len(h) \in 1 .. Len(g) /\ q[k] = g[k - Len(h)])
    BY <1>3, <1>5
  <2> HIDE DEF q
  <2> QED BY <2>1, <2>2, <1>3, <1>5 DEF KnownIn
<1>7. \A s, x : x \in ChatEvents => ApplyAll(s, <<x>>) = Apply(s, x)
  <2> TAKE s, x
  <2> HAVE x \in ChatEvents
  <2>1. <<>> \in Seq(ChatEvents) /\ <<x>> = Append(<<>>, x)
    OBVIOUS
  <2>2. ApplyAll(s, Append(<<>>, x)) = Apply(ApplyAll(s, <<>>), x)
    BY <2>1, ApplyAppend
  <2> QED BY <2>1, <2>2, ApplyNothing
<1>8. CASE g = <<e>>
  <2>1. relay[t].named
    <3>1. b.type # e.type
      BY DEF b, e, Ends
    <3>2. <<b>> # <<e>> /\ <<b, e>> # <<e>>
      <4>1. <<b>>[1] = b /\ <<e>>[1] = e /\ <<b, e>>[1] = b
        OBVIOUS
      <4> QED BY <4>1, <3>1
    <3> QED BY <1>1, <1>8, <3>2
  <2>2. d = Apply(direct, e)
    BY <1>2, <1>7, <1>8
  <2>3. ApplyAll(chat, q) = Apply(direct, e)
    <3>1. q = Append(h, e)
      BY <1>2, <1>3, <1>8, TwoEvents
    <3>2. ApplyAll(chat, Append(h, e)) = Apply(ApplyAll(chat, h), e)
      BY <1>2, <1>3, ApplyAppend
    <3> QED BY <3>1, <3>2, <1>3
  <2> HIDE DEF d, q
  <2>4. /\ Touches(direct, d, Message(t)) /\ d.approval = None /\ d.status = "waiting_for_user_input"
        /\ IsClosed(d, Message(t))
    BY <2>1, <2>2, <1>2, <1>3, <1>4, ApplyEnd
  <2> QED BY <2>2, <2>3, <2>4, <1>6 DEF IsClosed, d, q, h
<1>9. CASE g = <<b>>
  <2>1. n # Len(Synthetic(t))
    <3>1. b.type # e.type
      BY DEF b, e, Ends
    <3>2. <<b>> # <<e>> /\ <<b, e>> # <<b>>
      <4>1. <<b>>[1] = b /\ <<e>>[1] = e /\ Len(<<b, e>>) = 2 /\ Len(<<b>>) = 1
        OBVIOUS
      <4> QED BY <4>1, <3>1
    <3> QED BY <1>1, <1>9, <3>2
  <2>2. d = Apply(direct, b)
    BY <1>2, <1>7, <1>9
  <2>3. ApplyAll(chat, q) = Apply(direct, b)
    <3>1. q = Append(h, b)
      BY <1>2, <1>3, <1>9, TwoEvents
    <3>2. ApplyAll(chat, Append(h, b)) = Apply(ApplyAll(chat, h), b)
      BY <1>2, <1>3, ApplyAppend
    <3> QED BY <3>1, <3>2, <1>3
  <2> HIDE DEF d, q
  <2>4. Touches(direct, d, Message(t)) /\ d.approval = None /\ Message(t) \in DOMAIN d.messages
    BY <2>2, <1>2, <1>3, ApplyStart
  <2> QED BY <2>1, <2>2, <2>3, <2>4, <1>6 DEF d, q, h
<1>10. CASE g = <<b, e>>
  <2> DEFINE s == Apply(direct, b)
  <2>1. d = Apply(s, e)
    <3>1. <<b>> \in Seq(ChatEvents) /\ <<b, e>> = Append(<<b>>, e)
      BY <1>2
    <3>2. ApplyAll(direct, Append(<<b>>, e)) = Apply(ApplyAll(direct, <<b>>), e)
      BY <3>1, <1>2, ApplyAppend
    <3> QED BY <3>1, <3>2, <1>2, <1>7, <1>10
  <2>2. ApplyAll(chat, q) = Apply(s, e)
    <3>5. h \o <<b, e>> = Append(Append(h, b), e)
      BY <1>2, <1>3, TwoEvents
    <3>1. q = Append(Append(h, b), e)
      BY <3>5, <1>10
    <3>4. Append(h, b) \in Seq(ChatEvents)
      BY <1>2, <1>3, AppendProperties
    <3>2. ApplyAll(chat, Append(h, b)) = Apply(ApplyAll(chat, h), b)
      BY <1>2, <1>3, ApplyAppend
    <3>3. ApplyAll(chat, Append(Append(h, b), e)) = Apply(ApplyAll(chat, Append(h, b)), e)
      BY <1>2, <3>4, ApplyAppend
    <3> QED BY <3>1, <3>2, <3>3, <1>3
  <2>3. Touches(direct, s, Message(t)) /\ Message(t) \in DOMAIN s.messages
    BY <1>2, <1>3, ApplyStart
  <2> HIDE DEF d, q, s
  <2>4. /\ Touches(s, d, Message(t)) /\ d.approval = None /\ d.status = "waiting_for_user_input"
        /\ IsClosed(d, Message(t))
    BY <2>1, <2>3, <1>2, ApplyEnd DEF Touches
  <2>5. Touches(direct, d, Message(t))
    BY <2>3, <2>4, TouchesTwice
  <2> QED BY <2>1, <2>2, <2>4, <2>5, <1>6 DEF IsClosed, d, q, h
<1> QED BY <1>1, <1>8, <1>9, <1>10

\* The stream ends: the turn is closed if it did not say how it ended.
LEMMA StreamEndsStep ==
    ASSUME RelayInv, NEW t \in Turns, StreamEnds(t)
    PROVE  RelayInv' /\ FinishedStay
<1>1. relay[t].phase = "streaming" /\ Active(t) /\ relay[t] \in Relays
  BY DEF StreamEnds, Active, RelayInv, RelayTypes
<1>2. CASE /\ Synthetic(t) = <<>> \/ relay[t].failed
           /\ relay' = [relay EXCEPT ![t].phase = "closing"]
           /\ UNCHANGED <<chat, screen, failures, direct>>
  <2> DEFINE r == [relay[t] EXCEPT !.phase = "closing"]
  <2>1. relay' = [relay EXCEPT ![t] = r]
    BY <1>2 DEF RelayInv, RelayTypes
  <2>2. /\ r \in Relays /\ r.queue = relay[t].queue /\ r.named = relay[t].named /\ r.ended = relay[t].ended
        /\ r.phase = "closing" /\ r.failed = relay[t].failed
    BY <1>1 DEF Relays
  <2>3. relay[t].failed \/ relay[t].ended
    <3>1. \A x, y : <<x>> \o <<y>> # <<>> /\ <<>> \o <<y>> # <<>>
      OBVIOUS
    <3> QED BY <3>1, <1>2 DEF Synthetic
  <2> HIDE DEF r
  <2>4. Delivered(chat)
    BY <1>2 DEF Delivered, RelayInv, RelayTypes, ScreenShowsTheChat
  <2> QED BY <1>1, <1>2, <2>1, <2>2, <2>3, <2>4, QuietStep
<1>3. CASE \E n \in DOMAIN Synthetic(t) :
             LET given == SubSeq(Synthetic(t), 1, n)
                 r == [relay[t] EXCEPT !.queue = @ \o given, !.named = TRUE, !.ended = n = Len(Synthetic(t)),
                                       !.phase = "closing"]
             IN  /\ direct' = ApplyAll(direct, given)
                 /\ \/ n = Len(Synthetic(t)) /\ DeliverTo(r) /\ relay' = [relay EXCEPT ![t] = Flushed(r)]
                    \/ DeliveryThrows(r) /\ relay' = [relay EXCEPT ![t] = [Flushed(r) EXCEPT !.failed = TRUE]]
  <2>1. PICK n \in DOMAIN Synthetic(t) :
             LET given == SubSeq(Synthetic(t), 1, n)
                 r == [relay[t] EXCEPT !.queue = @ \o given, !.named = TRUE, !.ended = n = Len(Synthetic(t)),
                                       !.phase = "closing"]
             IN  /\ direct' = ApplyAll(direct, given)
                 /\ \/ n = Len(Synthetic(t)) /\ DeliverTo(r) /\ relay' = [relay EXCEPT ![t] = Flushed(r)]
                    \/ DeliveryThrows(r) /\ relay' = [relay EXCEPT ![t] = [Flushed(r) EXCEPT !.failed = TRUE]]
    BY <1>3
  <2> DEFINE g == SubSeq(Synthetic(t), 1, n)
             last == (n = Len(Synthetic(t)))
             r == [relay[t] EXCEPT !.queue = @ \o g, !.named = TRUE, !.ended = last, !.phase = "closing"]
             d == ApplyAll(direct, g)
  <2>2. /\ direct' = d
        /\ \/ last /\ DeliverTo(r) /\ relay' = [relay EXCEPT ![t] = Flushed(r)]
           \/ DeliveryThrows(r) /\ relay' = [relay EXCEPT ![t] = [Flushed(r) EXCEPT !.failed = TRUE]]
    BY <2>1
  <2>3. Synthetic(t) # <<>>
    OBVIOUS
  <2>4. /\ relay[t].queue \o g \in Seq(ChatEvents) /\ KnownIn(chat, relay[t].queue \o g)
        /\ ApplyAll(chat, relay[t].queue \o g) = d
        /\ Touches(direct, d, Message(t)) /\ d.approval = None /\ Message(t) \in DOMAIN d.messages
        /\ last => IsClosed(d, Message(t)) /\ d.status = "waiting_for_user_input"
    BY <1>1, <2>3, ClosingEvents
  <2>5. last \in BOOLEAN
    OBVIOUS
  <2> HIDE DEF g, last, d
  <2>6. /\ r \in Relays /\ r.queue = relay[t].queue \o g /\ r.named /\ r.ended = last /\ r.phase = "closing"
        /\ r.failed = relay[t].failed
    <3> DEFINE r1 == [relay[t] EXCEPT !.queue = @ \o g]
               r2 == [r1 EXCEPT !.named = TRUE]
               r3 == [r2 EXCEPT !.ended = last]
    <3>1. r1 \in Relays /\ r1.queue = relay[t].queue \o g /\ r1.failed = relay[t].failed
      BY <1>1, <2>4 DEF Relays
    <3>2. r = [r3 EXCEPT !.phase = "closing"]
      OBVIOUS
    <3> HIDE DEF r, r1
    <3>3. r2 \in Relays /\ r2.queue = relay[t].queue \o g /\ r2.failed = relay[t].failed /\ r2.named
      BY <3>1 DEF Relays
    <3> HIDE DEF r2
    <3>4. /\ r3 \in Relays /\ r3.queue = relay[t].queue \o g /\ r3.failed = relay[t].failed /\ r3.named
          /\ r3.ended = last
      BY <3>3, <2>5 DEF Relays
    <3> HIDE DEF r3
    <3> QED BY <3>2, <3>4 DEF Relays
  <2> HIDE DEF r
  <2>7. Delivered(d)
    <3>1. ChatOK(chat) /\ failures \in Nat /\ ScreenShowsTheChat
      BY DEF RelayInv, RelayTypes, HeldInv, AlikeBut
    <3>2. Delivered(ApplyAll(chat, r.queue))
      BY <2>2, <2>4, <2>6, <3>1, Delivery
    <3> QED BY <3>2, <2>4, <2>6
  <2>8. /\ Flushed(r) \in Relays /\ Flushed(r).queue = <<>> /\ Flushed(r).phase = "closing"
        /\ Flushed(r).named /\ Flushed(r).ended = last
    BY <2>6, FlushedFields
  <2>9. PICK q \in {Flushed(r), [Flushed(r) EXCEPT !.failed = TRUE]} :
          relay' = [relay EXCEPT ![t] = q] /\ (q = Flushed(r) => last \/ q.failed)
    <3>1. [Flushed(r) EXCEPT !.failed = TRUE].failed
      BY <2>8, FailedFields
    <3> QED BY <2>2, <3>1
  <2>10. /\ q \in Relays /\ q.queue = <<>> /\ q.phase = "closing" /\ q.named /\ q.ended = last
         /\ last \/ q.failed
    <3>1. CASE q = Flushed(r)
      BY <3>1, <2>8, <2>9
    <3>2. CASE q = [Flushed(r) EXCEPT !.failed = TRUE]
      BY <3>2, <2>8, FailedFields
    <3> QED BY <3>1, <3>2
  <2>11. None \notin IdsOf(t)
    BY TurnIds
  <2>12. /\ Delivered(direct') /\ Touches(direct, direct', Message(t))
         /\ direct'.approval \in {direct.approval, None} \union IdsOf(t)
         /\ Message(t) \in DOMAIN direct'.messages
    BY <2>2, <2>4, <2>7
  <2>13. q.ended => /\ IsClosed(direct', Message(t)) /\ direct'.approval \notin IdsOf(t)
                    /\ direct'.status = "waiting_for_user_input" /\ direct'.approval = None
    BY <2>2, <2>4, <2>10, <2>11
  <2>14. q.phase # "idle" /\ (q.phase \in {"closing", "finished"} /\ ~q.failed => q.ended)
    BY <2>10
  <2> HIDE DEF Delivered
  <2> QED BY <1>1, <2>9, <2>10, <2>12, <2>13, <2>14, FlushStep
<1> QED BY <1>2, <1>3 DEF StreamEnds

\* A prompt of the user starts the next turn, with nothing queued.
LEMMA AppendSubmittedStep ==
    ASSUME RelayInv, NEW t \in Turns, AppendSubmitted(t)
    PROVE  RelayInv' /\ FinishedStay
<1>1. /\ relay[t].phase = "idle" /\ \A u \in Turns : u < t => relay[u].phase = "finished"
      /\ Replace(AppendPrompt(chat, Prompt(t))) /\ direct' = AppendPrompt(direct, Prompt(t))
      /\ UNCHANGED failures
  BY DEF AppendSubmitted
<1>2. /\ relay \in [Turns -> Relays] /\ failures \in Nat /\ ChatOK(chat) /\ ScreenShowsTheChat
  BY DEF RelayInv, RelayTypes, HeldInv, AlikeBut
<1>3. /\ \A u \in Turns : relay[u].queue = <<>>
      /\ \A u \in Turns : u > t => relay[u].phase = "idle"
      /\ chat = direct
  <2>1. relay[t].queue = <<>>
    BY <1>1 DEF RelayInv, OneTurnInv, Active
  <2> QED BY <2>1, <1>1, OthersAreEmpty, ApplyNothing
<1>4. Touches(direct, direct', Prompt(t)) /\ direct'.approval = None
  <2> DEFINE s == [direct EXCEPT !.status = "streaming_assistant_response", !.approval = None]
             r == [status |-> "completed", parts |-> <<>>]
  <2>1. s = Chat("streaming_assistant_response", None, direct.usage, direct.help,
                 direct.messages, direct.order, direct.parts)
    BY <1>2, <1>3, HeadIs
  <2>2. r \in MessageRecords /\ r.parts = <<>> /\ Prompt(t) \in MessageIds
    BY TurnIds DEF MessageRecords, EndStatuses
  <2>3. direct' = AppendMessageIfMissing(s, Prompt(t), r)
    BY <1>1 DEF AppendPrompt
  <2> HIDE DEF s, r
  <2>4. Touches(direct, s, Prompt(t)) /\ s.approval = None
    BY <1>2, <1>3, <2>1, HeadStep
  <2>5. Edits(s, direct', Prompt(t))
    BY <2>2, <2>3, <2>4, MessageStep DEF Touches
  <2> QED BY <2>4, <2>5, TouchesThenEdits DEF Edits
<1>5. ChatOK(direct') /\ Replace(direct')
  BY <1>1, <1>3, <1>4 DEF Touches
<1>6. Delivered(direct')
  BY <1>1, <1>2, <1>5, Replacement
<1> DEFINE r == [relay[t] EXCEPT !.phase = "streaming"]
<1>7. relay' = [relay EXCEPT ![t] = r]
  BY <1>2 DEF AppendSubmitted
<1>8. /\ r \in Relays /\ r.queue = <<>> /\ r.phase = "streaming"
      /\ ~r.named /\ ~r.ended
  BY <1>1, <1>2, <1>3 DEF RelayInv, OneTurnInv, Relays
<1> HIDE DEF r
<1>9. relay'[t] = r /\ \A u \in Turns : u # t => relay'[u] = relay[u]
  BY <1>2, <1>7
<1>10. \A u \in Turns : relay'[u].queue = <<>>
  BY <1>3, <1>8, <1>9
<1>11. \A u \in Turns : u \in Nat
  BY TurnsAssumption
<1>12. RelayTypes'
  <2>1. relay' \in [Turns -> Relays]
    BY <1>2, <1>7, <1>8
  <2> QED BY <2>1, <1>6 DEF RelayTypes, Delivered
<1>13. OneTurnInv'
  <2>1. \A v \in Turns : \A u \in Turns : u < v /\ relay'[v].phase # "idle" => relay'[u].phase = "finished"
    BY <1>1, <1>3, <1>9, <1>11
  <2>2. \A u \in Turns : relay'[u].phase = "idle" => ~relay'[u].named /\ ~relay'[u].ended
    BY <1>8, <1>9 DEF RelayInv, OneTurnInv
  <2> QED BY <1>10, <2>1, <2>2 DEF OneTurnInv
<1>14. HeldInv'
  <2>1. AlikeBut(chat', direct', HeldParts')
    BY <1>5, <1>6, AlikeItself DEF Delivered
  <2>2. \A u \in Turns : \A k \in 1 .. Len(relay'[u].queue) : FALSE
    BY <1>10
  <2> QED BY <1>10, <2>1, <2>2 DEF HeldInv, KnownIn
<1>15. EndInv'
  <2> SUFFICES ASSUME NEW u \in Turns
               PROVE  /\ relay'[u].named => Message(u) \in DOMAIN direct'.messages
                      /\ relay'[u].ended => relay'[u].queue = <<>> /\ Over(u, direct)' /\ IsClosed(direct', Message(u))
                      /\ relay'[u].phase \in {"closing", "finished"} /\ ~relay'[u].failed => relay'[u].ended
    BY <1>6 DEF EndInv, Started, Delivered
  <2>1. CASE u = t
    BY <2>1, <1>8, <1>9
  <2>2. CASE u # t
    <3>1. /\ relay[u].named => Message(u) \in DOMAIN direct.messages
          /\ relay[u].ended => IsClosed(direct, Message(u))
          /\ relay[u].phase \in {"closing", "finished"} /\ ~relay[u].failed => relay[u].ended
      BY DEF RelayInv, EndInv, Started, Over
    <3>2. Message(u) # Prompt(t) /\ None \notin IdsOf(u)
      BY TurnIds
    <3>3. relay[u].named => Message(u) \in DOMAIN direct'.messages
      BY <1>4, <3>1 DEF Touches
    <3>4. relay[u].ended => IsClosed(direct', Message(u)) /\ direct'.approval \notin IdsOf(u)
      BY <1>4, <3>1, <3>2, StaysClosed
    <3>5. relay[u].ended => t > u /\ relay'[t].phase # "idle"
      <4>1. relay[u].phase = "idle" => ~relay[u].ended
        BY DEF RelayInv, OneTurnInv
      <4> QED BY <4>1, <1>3, <1>8, <1>9, <1>11, <2>2
    <3>6. relay[u].ended => Over(u, direct)'
      BY <3>4, <3>5 DEF Over
    <3> QED BY <2>2, <1>9, <1>10, <3>1, <3>3, <3>4, <3>6
  <2> QED BY <2>1, <2>2
<1>16. ScreenShowsTheChat'
  BY <1>6 DEF Delivered, ScreenShowsTheChat
<1>17. FinishedStay
  <2> SUFFICES ASSUME NEW u \in Turns, relay[u].phase = "finished", Message(u) \in DOMAIN chat.messages
               PROVE  Row(direct', Message(u)) = Row(chat, Message(u))
    BY <1>6 DEF FinishedStay, Delivered
  <2>1. Message(u) # Prompt(t)
    BY TurnIds
  <2> QED BY <1>2, <1>3, <1>4, <2>1, RowStays
<1> QED BY <1>12, <1>13, <1>14, <1>15, <1>16, <1>17 DEF RelayInv

\* The help is opened or closed.
WithHelp(s) == [s EXCEPT !.help = ~@]

\* Nothing but the help changes.
LEMMA HelpFields ==
    ASSUME NEW s, ChatOK(s)
    PROVE  LET n == WithHelp(s) IN
           /\ n = Chat(s.status, s.approval, s.usage, ~s.help, s.messages, s.order, s.parts) /\ ChatOK(n)
           /\ n.status = s.status /\ n.approval = s.approval /\ n.usage = s.usage /\ n.help = ~s.help
           /\ n.messages = s.messages /\ n.order = s.order /\ n.parts = s.parts
<1> DEFINE n == WithHelp(s)
<1>1. n = Chat(s.status, s.approval, s.usage, ~s.help, s.messages, s.order, s.parts)
  BY DEF WithHelp, ChatOK, Chat
<1>2. ContentOK(s.messages, s.order, s.parts)
  BY DEF ChatOK
<1> HIDE DEF n
<1>3. /\ ChatOK(n) /\ n.status = s.status /\ n.approval = s.approval /\ n.usage = s.usage /\ n.help = ~s.help
      /\ n.messages = s.messages /\ n.order = s.order /\ n.parts = s.parts
  BY <1>1, <1>2, ChatFields
<1> QED BY <1>1, <1>3 DEF n

\* An update is the same with the help open or closed.
LEMMA HelpAndUpdate ==
    ASSUME NEW s, ChatOK(s), NEW e \in PartEvents, e.id \in DOMAIN s.parts
    PROVE  Apply(WithHelp(s), e) = WithHelp(Apply(s, e))
<1> DEFINE w == WithHelp(s)
           n == Apply(s, e)
           P == Restated(s.parts, e.id, e.part)
<1>1. e.id \in PartIds /\ e.part \in PartRecords /\ PartFits(e.id, e.part)
  BY DEF PartEvents
<1>2. /\ ChatOK(w) /\ w.status = s.status /\ w.approval = s.approval /\ w.usage = s.usage /\ w.help = ~s.help
      /\ w.messages = s.messages /\ w.order = s.order /\ w.parts = s.parts
  BY HelpFields
<1> HIDE DEF w
<1>3. n = Chat(s.status, s.approval, s.usage, s.help, s.messages, s.order, P) /\ ChatOK(n)
  BY <1>1, ApplyPart, UpsertStep DEF Edits, Touches
<1>4. Apply(w, e) = Chat(s.status, s.approval, s.usage, ~s.help, s.messages, s.order, P)
  BY <1>1, <1>2, ApplyPart, UpsertStep
<1> HIDE DEF n, P
<1>5. /\ n.status = s.status /\ n.approval = s.approval /\ n.usage = s.usage /\ n.help = s.help
      /\ n.messages = s.messages /\ n.order = s.order /\ n.parts = P
  BY <1>3 DEF Chat
<1>6. WithHelp(n) = Chat(s.status, s.approval, s.usage, ~s.help, s.messages, s.order, P)
  BY <1>3, <1>5, HelpFields
<1> QED BY <1>4, <1>6 DEF n, w

\* So are all the updates of a queue.
LEMMA HelpAndUpdates ==
    ASSUME NEW s, ChatOK(s), NEW q \in Seq(ChatEvents), KnownIn(s, q), \A k \in 1 .. Len(q) : Batchable(q[k])
    PROVE  ApplyAll(WithHelp(s), q) = WithHelp(ApplyAll(s, q))
<1> DEFINE n == Len(q)
           w == WithHelp(s)
<1>1. PICK a : Path("state", s, q, a, n) /\ ApplyAll(s, q) = a[n]
  BY StatePath
<1>2. PICK b : Path("state", w, q, b, n) /\ ApplyAll(w, q) = b[n]
  BY StatePath
<1>3. n \in Nat /\ \A k \in 0 .. n - 1 : q[k + 1] \in ChatEvents /\ k + 1 \in 1 .. n
  OBVIOUS
<1>4. \A k \in 1 .. n : q[k] \in PartEvents /\ q[k].id \in DOMAIN s.parts
  BY <1>3, StreamedIsPart DEF KnownIn
<1> HIDE DEF n, w
<1> DEFINE Claim(k) == /\ ChatOK(a[k]) /\ DOMAIN s.parts \subseteq DOMAIN a[k].parts
                       /\ b[k] = WithHelp(a[k])
           S == {k \in Nat : k <= n => Claim(k)}
<1>5. 0 \in S
  <2>1. a[0] = s /\ b[0] = w
    BY <1>1, <1>2 DEF Path
  <2> QED BY <2>1 DEF w
<1>6. ASSUME NEW k \in Nat, k \in S PROVE k + 1 \in S
  <2> SUFFICES ASSUME k + 1 <= n PROVE Claim(k + 1)
    OBVIOUS
  <2>1. k \in 0 .. n - 1 /\ k <= n
    BY <1>3
  <2> DEFINE e == q[k + 1]
  <2>2. e \in ChatEvents /\ e \in PartEvents /\ e.id \in DOMAIN s.parts
    BY <2>1, <1>3, <1>4
  <2>3. a[k + 1] = Apply(a[k], e) /\ b[k + 1] = Apply(b[k], e)
    BY <1>1, <1>2, <2>1 DEF Path, Step
  <2>4. Claim(k)
    BY <2>1, <1>6
  <2> HIDE DEF e
  <2>5. Apply(WithHelp(a[k]), e) = WithHelp(Apply(a[k], e))
    BY <2>2, <2>4, HelpAndUpdate
  <2>6. ChatOK(Apply(a[k], e)) /\ DOMAIN a[k].parts \subseteq DOMAIN Apply(a[k], e).parts
    BY <2>2, <2>4, ApplyKeepsChat
  <2> QED BY <2>3, <2>4, <2>5, <2>6
<1>7. n \in S
  <2> HIDE DEF S
  <2> QED BY <1>3, <1>5, <1>6, AllNaturals
<1>8. b[n] = WithHelp(a[n])
  BY <1>3, <1>7
<1> QED BY <1>1, <1>2, <1>8 DEF w

\* The user opens or closes the help, with updates held back or not.
LEMMA ToggleHelpStep ==
    ASSUME RelayInv, ToggleHelp
    PROVE  RelayInv' /\ FinishedStay
<1>1. /\ ChatOK(chat) /\ ChatOK(direct) /\ AlikeBut(chat, direct, HeldParts)
      /\ failures \in Nat /\ ScreenShowsTheChat /\ relay \in [Turns -> Relays]
  BY DEF RelayInv, RelayTypes, HeldInv, AlikeBut
<1>2. Replace(WithHelp(chat)) /\ direct' = WithHelp(direct) /\ relay' = relay /\ failures' = failures
  BY DEF ToggleHelp, WithHelp
<1>3. LET n == WithHelp(chat) IN
      /\ ChatOK(n) /\ n.status = chat.status /\ n.approval = chat.approval /\ n.usage = chat.usage /\ n.help = ~chat.help
      /\ n.messages = chat.messages /\ n.order = chat.order /\ n.parts = chat.parts
  BY <1>1, HelpFields
<1>4. LET n == WithHelp(direct) IN
      /\ ChatOK(n) /\ n.status = direct.status /\ n.approval = direct.approval /\ n.usage = direct.usage
      /\ n.help = ~direct.help
      /\ n.messages = direct.messages /\ n.order = direct.order /\ n.parts = direct.parts
  BY <1>1, HelpFields
<1>5. Delivered(WithHelp(chat))
  BY <1>1, <1>2, <1>3, Replacement
<1>6. chat' = WithHelp(chat)
  BY <1>5 DEF Delivered
<1>7. RelayTypes'
  BY <1>1, <1>2 DEF RelayTypes
<1>8. OneTurnInv'
  BY <1>2 DEF RelayInv, OneTurnInv, Active
<1>9. HeldInv'
  <2>1. HeldParts' = HeldParts
    BY <1>2 DEF HeldParts
  <2>2. AlikeBut(chat', direct', HeldParts)
    BY <1>1, <1>2, <1>3, <1>4, <1>6 DEF AlikeBut
  <2>3. ASSUME NEW t \in Turns
        PROVE  /\ \A k \in 1 .. Len(relay[t].queue) : Batchable(relay[t].queue[k])
               /\ KnownIn(chat', relay[t].queue)
               /\ relay[t].queue # <<>> => ApplyAll(chat', relay[t].queue) = direct'
    <3> DEFINE q == relay[t].queue
    <3>1. /\ \A k \in 1 .. Len(q) : Batchable(q[k])
          /\ KnownIn(chat, q)
          /\ q # <<>> => ApplyAll(chat, q) = direct
      BY DEF RelayInv, HeldInv
    <3>2. q \in Seq(ChatEvents)
      BY <1>1 DEF Relays
    <3> HIDE DEF q
    <3>3. ApplyAll(WithHelp(chat), q) = WithHelp(ApplyAll(chat, q))
      BY <1>1, <3>1, <3>2, HelpAndUpdates
    <3>4. KnownIn(chat', q)
      BY <1>3, <1>6, <3>1 DEF KnownIn
    <3> QED BY <1>2, <1>6, <3>1, <3>3, <3>4 DEF q
  <2> QED BY <1>2, <2>1, <2>2, <2>3 DEF HeldInv
<1>10. EndInv'
  <2>1. \A t \in Turns : /\ Started(t)' = Started(t) /\ Over(t, direct)' = Over(t, direct)
                         /\ IsClosed(chat', Message(t)) = IsClosed(chat, Message(t))
    BY <1>2, <1>3, <1>4, <1>6 DEF Started, Over, IsClosed
  <2> QED BY <1>2, <2>1 DEF RelayInv, EndInv
<1>11. ScreenShowsTheChat'
  BY <1>5 DEF Delivered, ScreenShowsTheChat
<1>12. FinishedStay
  BY <1>3, <1>6 DEF FinishedStay, Row
<1> QED BY <1>7, <1>8, <1>9, <1>10, <1>11, <1>12 DEF RelayInv

\* The relay starts in order.
LEMMA RelayInvInit == RelayInit => RelayInv
<1> SUFFICES ASSUME RelayInit PROVE RelayInv
  OBVIOUS
<1>1. /\ chat = EmptyChat /\ direct = EmptyChat /\ screen = ScreenOf(EmptyChat)
      /\ relay = [t \in Turns |-> NewRelay] /\ failures = 0
  BY DEF RelayInit
<1>2. NewRelay \in Relays /\ NewRelay.phase = "idle" /\ NewRelay.queue = <<>> /\ ~NewRelay.named /\ ~NewRelay.ended
  <2>1. <<>> \in Seq(ChatEvents)
    OBVIOUS
  <2> QED BY <2>1 DEF NewRelay, Relays
<1>3. \A t \in Turns : relay[t] = NewRelay
  BY <1>1
<1>4. ChatOK(EmptyChat)
  <2> DEFINE M == [m \in {} |-> None]
  <2>1. EmptyChat = Chat("waiting_for_user_input", None, 0, FALSE, M, <<>>, M)
    BY DEF EmptyChat, Chat
  <2>2. ContentOK(M, <<>>, M)
    <3>1. <<>> \in Seq(MessageIds) /\ ToSet(<<>>) = {} /\ DOMAIN M = {}
      BY DEF ToSet
    <3>2. M \in [DOMAIN M -> MessageRecords] /\ M \in [DOMAIN M -> PartRecords]
      OBVIOUS
    <3> QED BY <3>1, <3>2 DEF ContentOK
  <2> HIDE DEF M
  <2> QED BY <2>1, <2>2, ChatFields
<1>5. RelayTypes
  BY <1>1, <1>2 DEF RelayTypes
<1>6. OneTurnInv
  BY <1>2, <1>3 DEF OneTurnInv
<1>7. HeldInv
  <2>1. AlikeBut(chat, direct, HeldParts)
    BY <1>1, <1>4, AlikeItself
  <2>2. \A u \in Turns : relay[u].queue = <<>>
    BY <1>2, <1>3
  <2>3. \A u \in Turns : \A k \in 1 .. Len(relay[u].queue) : FALSE
    BY <2>2
  <2> QED BY <2>1, <2>2, <2>3 DEF HeldInv, KnownIn
<1>8. EndInv
  BY <1>2, <1>3 DEF EndInv
<1>9. ScreenShowsTheChat
  BY <1>1 DEF ScreenShowsTheChat
<1> QED BY <1>5, <1>6, <1>7, <1>8, <1>9 DEF RelayInv

\* Every step keeps it in order, and what is finished as it is.
LEMMA RelayInvStep == RelayInv /\ [RelayNext]_relayVars => RelayInv' /\ FinishedStay
<1> SUFFICES ASSUME RelayInv, [RelayNext]_relayVars PROVE RelayInv' /\ FinishedStay
  OBVIOUS
<1>1. ASSUME NEW t \in Turns, AppendSubmitted(t) PROVE RelayInv' /\ FinishedStay
  BY <1>1, AppendSubmittedStep
<1>2. ASSUME NEW t \in Turns, TurnStarts(t) PROVE RelayInv' /\ FinishedStay
  BY <1>2, TurnStartsStep
<1>3. ASSUME NEW t \in Turns, NEW n \in NamesIn[t], PartAdded(t, n) PROVE RelayInv' /\ FinishedStay
  BY <1>3, PartAddedStep
<1>4. ASSUME NEW t \in Turns, NEW n \in NamesIn[t], PartUpdated(t, n) PROVE RelayInv' /\ FinishedStay
  BY <1>4, PartUpdatedStep
<1>5. ASSUME NEW t \in Turns, NEW n \in NamesIn[t], ApprovalRequested(t, n) \/ ApprovalCleared(t, n)
      PROVE  RelayInv' /\ FinishedStay
  BY <1>5, ApprovalStep
<1>6. ASSUME NEW t \in Turns, NEW st \in {"completed", "incomplete", "failed", "interrupted"},
             EndStreamed(t, st)
      PROVE  RelayInv' /\ FinishedStay
  BY <1>6, EndStreamedStep
<1>7. ASSUME NEW t \in Turns, TimerFires(t) PROVE RelayInv' /\ FinishedStay
  BY <1>7, TimerFiresStep
<1>8. ASSUME NEW t \in Turns, StreamEnds(t) PROVE RelayInv' /\ FinishedStay
  BY <1>8, StreamEndsStep
<1>9. ASSUME NEW t \in Turns, Finish(t) PROVE RelayInv' /\ FinishedStay
  BY <1>9, FinishStep
<1>10. CASE ToggleHelp
  BY <1>10, ToggleHelpStep
<1>11. CASE UNCHANGED relayVars
  <2>1. /\ chat' = chat /\ screen' = screen /\ relay' = relay /\ failures' = failures /\ direct' = direct
    BY <1>11 DEF relayVars
  <2>2. FinishedStay
    BY <2>1 DEF FinishedStay
  <2>3. RelayTypes' /\ OneTurnInv' /\ ScreenShowsTheChat'
    BY <2>1 DEF RelayInv, RelayTypes, OneTurnInv, Active, ScreenShowsTheChat
  <2>4. HeldInv'
    BY <2>1 DEF RelayInv, HeldInv, HeldParts
  <2>5. EndInv'
    BY <2>1 DEF RelayInv, EndInv, Started, Over
  <2> QED BY <2>2, <2>3, <2>4, <2>5 DEF RelayInv
<1> QED
  BY <1>1, <1>2, <1>3, <1>4, <1>5, <1>6, <1>7, <1>8, <1>9, <1>10, <1>11 DEF RelayNext, TurnEvent

-----------------------------------------------------------------------------
(* What the relay promises.                                                 *)

\* In every state of the relay, one turn at a time is relayed, what its queue
\* holds are updates that come to the state in which every event is applied as
\* it comes, a turn that told its end is closed, and the screen shows the chat.
THEOREM RelayIsInOrder == RelaySpec => []RelayInv
<1>1. RelayInv /\ [RelayNext]_relayVars => RelayInv'
  BY RelayInvStep
<1> QED BY <1>1, RelayInvInit, PTL DEF RelaySpec

\* Leaving out the updates that later ones supersede changes nothing
\* (compactQueuedAssistantResponseEvents): once the queues are flushed, the
\* chat's state is what it would be if each event had been applied when it came.
THEOREM NothingIsLostByCoalescing == RelaySpec => []CoalescingIsInvisible
<1>1. ASSUME RelayInv PROVE CoalescingIsInvisible
  <2> DEFINE waiting == {t \in Turns : relay[t].queue # <<>>}
  <2>1. waiting = {} => chat = direct
    <3> SUFFICES ASSUME waiting = {} PROVE chat = direct
      OBVIOUS
    <3>1. HeldParts = {}
      BY DEF HeldParts
    <3> QED BY <1>1, <3>1, AlikeIsSame DEF RelayInv, HeldInv
  <2>2. ASSUME NEW t \in waiting PROVE ApplyAll(chat, Compacted(relay[t].queue)) = direct
    <3>1. /\ ChatOK(chat) /\ relay[t].queue \in Seq(ChatEvents)
          /\ KnownIn(chat, relay[t].queue) /\ ApplyAll(chat, relay[t].queue) = direct
      BY <1>1 DEF RelayInv, RelayTypes, HeldInv, AlikeBut, Relays
    <3> QED BY <3>1, CompactedIsEnough
  <2> QED BY <2>1, <2>2 DEF CoalescingIsInvisible
<1>2. RelayInv => CoalescingIsInvisible
  BY <1>1
<1> QED BY <1>2, RelayIsInOrder, PTL

\* As long as no delivery has thrown, no part of the screen is stale: what the
\* change sets of the events and of the setter leave out has not changed
\* (applyAssistantTurnEventWithChanges, notifySubscribers).
THEOREM TheScreenIsNeverStale == RelaySpec => []ScreenShowsTheChat
<1>1. RelayInv => ScreenShowsTheChat
  BY DEF RelayInv
<1> QED BY <1>1, RelayIsInOrder, PTL

\* A turn whose deliveries worked is closed when its relay is done: its message
\* has an end, nothing in it still runs, and the user can go on
\* (queueSyntheticFailedAssistantTurn).
THEOREM TurnsAreClosed == RelaySpec => []FinishedTurnsAreClosed
<1>1. ASSUME RelayInv PROVE FinishedTurnsAreClosed
  <2>1. ASSUME NEW t \in Turns, relay[t].phase = "finished", ~relay[t].failed
        PROVE  /\ Message(t) \in DOMAIN chat.messages
               /\ chat.messages[Message(t)].status # "streaming"
               /\ \A p \in PartsOf(chat, Message(t)) : chat.parts[p].status \notin Unfinished \union {"streaming"}
               /\ (\A u \in Turns : u > t => relay[u].phase = "idle") =>
                     chat.status = "waiting_for_user_input" /\ chat.approval = None
    <3>1. relay[t].ended
      BY <1>1, <2>1 DEF RelayInv, EndInv
    <3>2. IsClosed(chat, Message(t)) /\ Over(t, direct)
      BY <1>1, <3>1 DEF RelayInv, EndInv
    <3>3. ChatOK(chat) /\ chat.status = direct.status /\ chat.approval = direct.approval
      BY <1>1 DEF RelayInv, HeldInv, AlikeBut
    <3>4. PartsOf(chat, Message(t)) = {p \in DOMAIN chat.parts : p[1] = Message(t)}
      BY <3>2, <3>3, PartsAreNamed DEF IsClosed
    <3> QED BY <3>2, <3>3, <3>4 DEF IsClosed, Over
  <2> QED BY <2>1 DEF FinishedTurnsAreClosed
<1>2. RelayInv => FinishedTurnsAreClosed
  BY <1>1
<1> QED BY <1>2, RelayIsInOrder, PTL

\* Nothing reaches the message of a turn whose relay is done: not what a failing
\* delivery left behind, and not through a timer without a handle.
THEOREM TurnsStayAsTheyEnded == RelaySpec => FinishedTurnsStay
<1>1. RelayInv /\ [RelayNext]_relayVars => [FinishedStay]_relayVars
  BY RelayInvStep
<1>2. RelayInv /\ [RelayNext]_relayVars =>
        [\A t \in Turns :
            relay[t].phase = "finished" /\ Message(t) \in DOMAIN chat.messages =>
                Row(chat', Message(t)) = Row(chat, Message(t))]_relayVars
  BY <1>1 DEF FinishedStay
<1> QED BY <1>2, RelayIsInOrder, PTL DEF RelaySpec, FinishedTurnsStay

-----------------------------------------------------------------------------
(* The loop of the application.                                             *)

USE ChatAppAssumption

Loops == [at : {"idle", "turn", "closing", "compacting"},
          source : Sources, depth : 0 .. MaxDepth + 1, automatic : 0 .. MaxDepth + 1,
          overflowed : BOOLEAN, interrupted : BOOLEAN, ending : Endings]

Types ==
    /\ mounted \in BOOLEAN /\ inFlight \in BOOLEAN /\ activeTurn \in BOOLEAN
    /\ armed \in BOOLEAN /\ requested \in BOOLEAN /\ picker \in BOOLEAN
    /\ status \in {"waiting", "streaming"}
    /\ compacting \in {"no", "manual", "auto"}
    /\ compactionStatus \in {"none", "manual", "auto"}
    /\ shownStatus \in {"none", "manual", "auto"}
    /\ typed \in 0 .. MaxPrompts /\ queue \in Seq(1 .. MaxPrompts) /\ started \in Seq(1 .. MaxPrompts)
    /\ pressed \in BOOLEAN
    /\ session \in Sessions /\ usage \in BOOLEAN
    /\ mishaps \subseteq {"barged", "stale"}

\* Without an overflow the turns nobody typed are as many as the depth says.
LoopInv ==
    /\ loop.source \in {"user", "retry"} => loop.depth = 0
    /\ loop.depth <= MaxDepth
    /\ loop.overflowed \/ loop.automatic = loop.depth
    /\ loop.source = "retry" \/ loop.ending = "overflow" => loop.overflowed

\* The loop compacts exactly when the engine compacts for it, a manual compaction
\* runs without a loop, and a first press of Escape counts for the turn it was in.
ExclusionInv ==
    /\ compacting = "auto" <=> loop.at = "compacting"
    /\ compacting = "manual" => loop.at = "idle"
    /\ armed => pressed /\ TurnRuns

\* Somebody will take the queued prompts.
TakerInv == mounted /\ queue # <<>> /\ mishaps = {} => loop.at # "idle"

Inv == TypeOK /\ LoopInv /\ ExclusionInv /\ FlagsTellTheTruth

-----------------------------------------------------------------------------
(* What the helpers do to the loop.                                        *)

LEMMA IdleLoop == Idle \in Loops /\ Idle.at = "idle" /\ ~Idle.interrupted
BY DEF Idle, Loops, Sources, Endings

LEMMA LoopType == TypeOK => loop \in Loops
BY DEF TypeOK, Loops

LEMMA TypeParts == (TypeOK <=> Types /\ loop \in Loops) /\ (TypeOK' <=> Types' /\ loop' \in Loops)
BY DEF TypeOK, Types, Loops

\* Whoever disarms the confirmation, or changes nothing, keeps the types.
LEMMA TypesStay ==
    ASSUME Types, armed' \in {FALSE, armed},
           UNCHANGED <<mounted, status, inFlight, compacting, compactionStatus, shownStatus, queue,
                       activeTurn, started, requested, pressed, picker, session, usage, typed, mishaps>>
    PROVE  Types'
<1>1. armed' \in BOOLEAN
  BY DEF Types
<1>2. queue' \in Seq(1 .. MaxPrompts) /\ started' \in Seq(1 .. MaxPrompts) /\ typed' \in 0 .. MaxPrompts
  BY DEF Types
<1>3. /\ mounted' \in BOOLEAN /\ inFlight' \in BOOLEAN /\ activeTurn' \in BOOLEAN
      /\ requested' \in BOOLEAN /\ picker' \in BOOLEAN
      /\ pressed' \in BOOLEAN /\ session' \in Sessions /\ usage' \in BOOLEAN
  BY Zenon DEF Types
<1>4. /\ status' \in {"waiting", "streaming"} /\ compacting' \in {"no", "manual", "auto"}
      /\ compactionStatus' \in {"none", "manual", "auto"}
      /\ shownStatus' \in {"none", "manual", "auto"}
      /\ mishaps' \subseteq {"barged", "stale"}
  BY DEF Types
<1> QED BY <1>1, <1>2, <1>3, <1>4 DEF Types

\* A turn for a prompt of the user.
LEMMA StartedTurn ==
    ASSUME NEW p, StartTurn(p)
    PROVE  /\ loop' \in Loops /\ LoopInv' /\ loop'.at = "turn" /\ ~loop'.interrupted
           /\ status' = "streaming" /\ activeTurn' = TRUE
           /\ requested' = FALSE /\ pressed' = FALSE
           /\ started' = started \o Typed(p)
<1>1. loop' = [at |-> "turn", source |-> "user", depth |-> 0, automatic |-> 0,
               overflowed |-> FALSE, interrupted |-> FALSE, ending |-> "none"]
  BY DEF StartTurn, Idle
<1>2. /\ loop'.at = "turn" /\ loop'.source = "user" /\ loop'.depth = 0 /\ loop'.automatic = 0
      /\ loop'.overflowed = FALSE /\ loop'.interrupted = FALSE /\ loop'.ending = "none"
  BY <1>1
<1>3. loop' \in Loops
  BY <1>1 DEF Loops, Sources, Endings
<1>4. LoopInv'
  BY <1>2 DEF LoopInv
<1>5. ~loop'.interrupted
  BY <1>2
<1> QED BY <1>2, <1>3, <1>4, <1>5 DEF StartTurn

\* The loop is over.
LEMMA EndedLoop ==
    ASSUME EndLoop
    PROVE  /\ loop' \in Loops /\ LoopInv' /\ loop'.at = "idle" /\ ~loop'.interrupted
           /\ inFlight' = FALSE
BY DEF EndLoop, Idle, Loops, Sources, Endings, LoopInv

\* A turn nobody typed.
LEMMA FollowedUp ==
    ASSUME TypeOK, LoopInv, FollowUp
    PROVE  /\ loop' \in Loops /\ LoopInv' /\ loop'.at = "turn" /\ ~loop'.interrupted
           /\ status' = "streaming" /\ activeTurn' = TRUE
           /\ requested' = FALSE /\ pressed' = FALSE
           /\ UNCHANGED <<queue, started, inFlight>>
<1>1. loop \in Loops
  BY LoopType
<1>2. ASSUME NEW source \in {"retry", "continue"}, NEW depth \in 0 .. MaxDepth,
             StartAutomaticTurn(source, depth)
      PROVE  /\ loop' \in Loops
             /\ loop'.at = "turn" /\ loop'.source = source /\ loop'.depth = depth
             /\ loop'.overflowed = loop.overflowed /\ loop'.interrupted = FALSE /\ loop'.ending = "none"
             /\ loop.automatic <= MaxDepth => loop'.automatic = loop.automatic + 1
             /\ status' = "streaming" /\ activeTurn' = TRUE
             /\ requested' = FALSE /\ pressed' = FALSE
             /\ UNCHANGED <<queue, started, inFlight>>
  <2> DEFINE n == IF loop.automatic > MaxDepth THEN loop.automatic ELSE loop.automatic + 1
  <2>1. loop' = [loop EXCEPT !.at = "turn", !.source = source, !.depth = depth,
                             !.interrupted = FALSE, !.ending = "none", !.automatic = n]
    BY <1>2 DEF StartAutomaticTurn
  <2>2. n \in 0 .. MaxDepth + 1 /\ (loop.automatic <= MaxDepth => n = loop.automatic + 1)
    BY <1>1 DEF Loops
  <2> HIDE DEF n
  <2>3. /\ loop'.at = "turn" /\ loop'.source = source /\ loop'.depth = depth /\ loop'.automatic = n
        /\ loop'.overflowed = loop.overflowed /\ loop'.interrupted = FALSE /\ loop'.ending = "none"
    BY <1>1, <2>1 DEF Loops
  <2>4. loop' \in Loops
    <3>1. loop' = [at |-> "turn", source |-> source, depth |-> depth, automatic |-> n,
                   overflowed |-> loop.overflowed, interrupted |-> FALSE, ending |-> "none"]
      BY <1>1, <2>1 DEF Loops
    <3>2. source \in Sources /\ depth \in 0 .. MaxDepth + 1 /\ "none" \in Endings /\ loop.overflowed \in BOOLEAN
      BY <1>1 DEF Loops, Sources, Endings
    <3> QED BY <2>2, <3>1, <3>2 DEF Loops
  <2> QED BY <1>2, <2>2, <2>3, <2>4 DEF StartAutomaticTurn
<1>3. CASE Retries /\ StartAutomaticTurn("retry", 0)
  <2>1. loop.overflowed
    BY <1>3 DEF Retries, LoopInv
  <2>2. 0 \in 0 .. MaxDepth
    OBVIOUS
  <2>3. /\ loop'.source = "retry" /\ loop'.depth = 0
        /\ loop'.overflowed = loop.overflowed /\ loop'.interrupted = FALSE
    BY <1>2, <1>3, <2>2
  <2>4. LoopInv' /\ ~loop'.interrupted
    BY <2>1, <2>3 DEF LoopInv
  <2> QED BY <1>2, <1>3, <2>2, <2>4
<1>4. CASE Continues /\ StartAutomaticTurn("continue", loop.depth + 1)
  <2>1. loop.depth \in 0 .. MaxDepth /\ loop.automatic \in 0 .. MaxDepth + 1 /\ loop.source \in Sources
    BY <1>1 DEF Loops, LoopInv
  <2>2. loop.depth + 1 \in 0 .. MaxDepth
    BY <1>4, <2>1 DEF Continues, LoopInv, Sources
  <2>3. loop.overflowed \/ loop'.automatic = loop.depth + 1
    BY <1>2, <1>4, <2>1, <2>2 DEF LoopInv
  <2>4. /\ loop'.source = "continue" /\ loop'.depth = loop.depth + 1 /\ loop'.ending = "none"
        /\ loop'.overflowed = loop.overflowed /\ loop'.interrupted = FALSE
    BY <1>2, <1>4, <2>2
  <2>5. LoopInv' /\ ~loop'.interrupted
    BY <2>1, <2>2, <2>3, <2>4 DEF LoopInv
  <2> QED BY <1>2, <1>4, <2>2, <2>5
<1> QED BY <1>3, <1>4 DEF FollowUp

LEMMA LoopStays == ASSUME UNCHANGED loop, LoopInv PROVE LoopInv'
BY DEF LoopInv

-----------------------------------------------------------------------------
(* Types.                                                                  *)

LEMMA QueueTypes ==
    ASSUME TypeOK
    PROVE  /\ queue # <<>> => /\ Head(queue) \in 1 .. MaxPrompts
                              /\ Tail(queue) \in Seq(1 .. MaxPrompts)
           /\ \A p \in 0 .. MaxPrompts : Typed(p) \in Seq(1 .. MaxPrompts)
           /\ \A p \in 0 .. MaxPrompts :
                /\ started \o Typed(p) \in Seq(1 .. MaxPrompts)
                /\ started \o Typed(p) \o queue \in Seq(1 .. MaxPrompts)
<1> DEFINE S == 1 .. MaxPrompts
<1>1. queue \in Seq(S) /\ started \in Seq(S)
  BY DEF TypeOK
<1>2. queue # <<>> => Head(queue) \in S /\ Tail(queue) \in Seq(S)
  BY <1>1
<1>3. ASSUME NEW p \in 0 .. MaxPrompts
      PROVE  /\ Typed(p) \in Seq(S) /\ started \o Typed(p) \in Seq(S)
             /\ started \o Typed(p) \o queue \in Seq(S)
  <2>1. Typed(p) \in Seq(S)
    <3>1. <<>> \in Seq(S) /\ (p # 0 => <<p>> \in Seq(S))
      BY EmptySeq
    <3> QED BY <3>1 DEF Typed, Skill
  <2>2. started \o Typed(p) \in Seq(S)
    BY <1>1, <2>1, ConcatProperties
  <2>3. started \o Typed(p) \o queue \in Seq(S)
    BY <1>1, <2>2, ConcatProperties
  <2> QED BY <2>1, <2>2, <2>3
<1> QED BY <1>2, <1>3

-----------------------------------------------------------------------------
(* What the parts of a step do.                                            *)

\* The loop goes on with a turn, or it is over; LoopInv holds of the new loop.
TurnBegins ==
    /\ loop'.at = "turn" /\ status' = "streaming" /\ activeTurn' = TRUE
    /\ requested' = FALSE /\ pressed' = FALSE
LoopIsOver ==
    /\ loop'.at = "idle" /\ inFlight' = FALSE
    /\ UNCHANGED <<queue, started, status, pressed>>
NewLoop == loop' \in Loops /\ LoopInv' /\ ~loop'.interrupted

\* The first of the queued prompts goes to the engine.
PromptTaken ==
    /\ queue # <<>> /\ mounted /\ TurnBegins /\ inFlight' = inFlight
    /\ started' = started \o <<Head(queue)>> /\ queue' = Tail(queue)

LEMMA NextPromptEffect ==
    ASSUME TypeOK, NextPrompt
    PROVE  /\ NewLoop
           /\ \/ PromptTaken
              \/ LoopIsOver /\ UNCHANGED <<activeTurn, requested>> /\ (mounted => queue = <<>>)
<1>1. CASE mounted /\ queue # <<>>
  <2>1. StartTurn(Head(queue)) /\ queue' = Tail(queue) /\ inFlight' = inFlight
    BY <1>1 DEF NextPrompt, TakeNextPrompt
  <2>2. Typed(Head(queue)) = <<Head(queue)>>
    BY <1>1, QueueTypes DEF Typed, Skill
  <2> QED BY <1>1, <2>1, <2>2, StartedTurn DEF NewLoop, PromptTaken, TurnBegins
<1>2. CASE ~(mounted /\ queue # <<>>)
  <2>1. EndLoop /\ UNCHANGED <<queue, started, status, activeTurn, requested, pressed>>
    BY <1>2 DEF NextPrompt, TakeNextPrompt, LeaveLoop
  <2> QED BY <1>2, <2>1, EndedLoop DEF NewLoop, LoopIsOver
<1> QED BY <1>1, <1>2

\* A prompt is given to the engine; accepted it begins a loop, refused it takes the
\* queue along.
LEMMA BeginLoopEffect ==
    ASSUME TypeOK, LoopInv, NEW p \in 0 .. MaxPrompts, BeginLoop(p)
    PROVE  /\ loop' \in Loops /\ LoopInv'
           /\ \/ /\ ~EngineIsBusy /\ TurnBegins /\ inFlight' = TRUE
                 /\ started' = started \o Typed(p) /\ ~loop'.interrupted
                 /\ UNCHANGED <<queue, armed, compactionStatus>>
              \/ /\ EngineIsBusy /\ UNCHANGED <<loop, pressed>>
                 /\ started' = started \o Typed(p) \o queue /\ queue' = <<>>
                 /\ status' = "waiting" /\ inFlight' = FALSE
                 /\ activeTurn' = FALSE /\ armed' = FALSE /\ requested' = FALSE
                 /\ compactionStatus' \in {"none", compactionStatus}
<1>1. CASE ~EngineIsBusy /\ StartTurn(p) /\ inFlight' = TRUE /\ UNCHANGED <<queue, armed, compactionStatus>>
  BY <1>1, StartedTurn DEF TurnBegins
<1>2. CASE EngineIsBusy /\ RefuseTurn(p)
  <2>1. UNCHANGED loop
    BY <1>2 DEF RefuseTurn
  <2>2. loop' \in Loops /\ LoopInv'
    BY <2>1, LoopType, LoopStays
  <2> QED BY <1>2, <2>1, <2>2 DEF RefuseTurn, FinishTurn, Disarm
<1> QED BY <1>1, <1>2 DEF BeginLoop

\* The turn has settled and the loop does not compact.
LEMMA TurnEndsEffect ==
    ASSUME TypeOK, TurnEnds
    PROVE  /\ loop.at = "closing" /\ armed' = FALSE /\ NewLoop
           /\ \/ PromptTaken
              \/ LoopIsOver /\ activeTurn' = FALSE /\ requested' = FALSE /\ (mounted => queue = <<>>)
           /\ compactionStatus' \in {"none", compactionStatus}
           /\ picker' \in BOOLEAN
           /\ UNCHANGED <<mounted, compacting, shownStatus, session, usage, typed, mishaps>>
<1>1. CASE mounted /\ queue # <<>>
  <2>1. NextPrompt
    BY <1>1 DEF TurnEnds, NextPrompt
  <2>2. NewLoop /\ PromptTaken
    BY <1>1, <2>1, NextPromptEffect
  <2> QED BY <2>2 DEF TurnEnds, Disarm
<1>2. CASE ~(mounted /\ queue # <<>>)
  <2>1. EndLoop /\ FinishTurn /\ UNCHANGED <<queue, started, status, pressed>>
    BY <1>2 DEF TurnEnds
  <2>2. NewLoop /\ loop'.at = "idle" /\ inFlight' = FALSE
    BY <2>1, EndedLoop DEF NewLoop
  <2> QED BY <1>2, <2>1, <2>2 DEF TurnEnds, FinishTurn, Disarm, LoopIsOver
<1> QED BY <1>1, <1>2

\* A compaction of the loop has come to its end.
LEMMA CompactedEffect ==
    ASSUME TypeOK, LoopInv, AutoCompactionSucceeds \/ AutoCompactionFails
    PROVE  /\ loop.at = "compacting" /\ NewLoop
           /\ \/ TurnBegins /\ mounted /\ UNCHANGED <<queue, started, inFlight>>
              \/ PromptTaken
              \/ LoopIsOver /\ UNCHANGED <<activeTurn, requested>> /\ (mounted => queue = <<>>)
           /\ compacting' = "no" /\ compactionStatus' = "none" /\ picker' \in BOOLEAN
           /\ UNCHANGED <<mounted, shownStatus, armed, session, usage, typed, mishaps>>
<1>1. CASE AutoCompactionSucceeds /\ FollowsUp
  <2>1. NewLoop /\ TurnBegins /\ mounted /\ UNCHANGED <<queue, started, inFlight>>
    BY <1>1, FollowedUp DEF AutoCompactionSucceeds, FollowsUp, NewLoop, TurnBegins
  <2> QED BY <1>1, <2>1 DEF AutoCompactionSucceeds
<1>2. CASE AutoCompactionSucceeds /\ ~FollowsUp
  <2>1. NextPrompt
    BY <1>2 DEF AutoCompactionSucceeds
  <2> QED BY <1>2, <2>1, NextPromptEffect DEF AutoCompactionSucceeds
<1>3. CASE AutoCompactionFails
  <2>1. NextPrompt /\ picker' \in BOOLEAN
    BY <1>3 DEF AutoCompactionFails
  <2> QED BY <1>3, <2>1, NextPromptEffect DEF AutoCompactionFails
<1> QED BY <1>1, <1>2, <1>3

-----------------------------------------------------------------------------
(* Every step keeps the invariant.                                         *)

\* The queue and the prompts given so far stay sequences of prompts.
LEMMA PromptTypes ==
    ASSUME TypeOK
    PROVE  /\ PromptTaken => queue' \in Seq(1 .. MaxPrompts) /\ started' \in Seq(1 .. MaxPrompts)
           /\ LoopIsOver => queue' \in Seq(1 .. MaxPrompts) /\ started' \in Seq(1 .. MaxPrompts)
<1>1. CASE PromptTaken
  <2>1. Head(queue) \in 0 .. MaxPrompts /\ Typed(Head(queue)) = <<Head(queue)>> /\ Tail(queue) \in Seq(1 .. MaxPrompts)
    BY <1>1, QueueTypes DEF PromptTaken, Typed, Skill
  <2>2. started \o <<Head(queue)>> \in Seq(1 .. MaxPrompts)
    BY <2>1, QueueTypes
  <2> QED BY <1>1, <2>1, <2>2 DEF PromptTaken, LoopIsOver
<1>2. CASE LoopIsOver
  BY <1>2 DEF LoopIsOver, TypeOK, PromptTaken
<1> QED BY <1>1, <1>2

\* A prompt is typed or a skill chosen, and a loop begun or refused.
LEMMA BeginsKeepInv ==
    ASSUME Inv, NEW p \in 0 .. MaxPrompts, BeginLoop(p), shownStatus # "manual",
           status # "streaming",
           typed' \in 0 .. MaxPrompts, mishaps' \in {mishaps, mishaps \union {"barged"}},
           EngineIsBusy => "barged" \in mishaps',
           UNCHANGED <<mounted, compacting, shownStatus, sessions>>
    PROVE  Inv'
<1> USE DEF Inv
<1>1. CASE /\ ~EngineIsBusy /\ TurnBegins /\ inFlight' = TRUE
           /\ started' = started \o Typed(p)
           /\ UNCHANGED <<queue, armed, compactionStatus>>
  <2>1. loop' \in Loops /\ LoopInv'
    BY BeginLoopEffect
  <2>2. started' \in Seq(1 .. MaxPrompts)
    BY <1>1, QueueTypes
  <2>3. TypeOK'
    BY <1>1, <2>1, <2>2, TypeParts DEF Types, TurnBegins, sessions
  <2>4. ~armed /\ compacting = "no"
    BY <1>1 DEF ExclusionInv, EngineIsBusy
  <2>5. ExclusionInv'
    BY <1>1, <2>4 DEF ExclusionInv, TurnBegins
  <2>6. FlagsTellTheTruth'
    BY <1>1 DEF FlagsTellTheTruth, StreamingIsInterruptible, InFlightCoversTheWork, TurnBegins
  <2> QED BY <2>1, <2>3, <2>5, <2>6
<1>2. CASE /\ EngineIsBusy /\ UNCHANGED <<loop, pressed>>
           /\ started' = started \o Typed(p) \o queue /\ queue' = <<>>
           /\ status' = "waiting" /\ inFlight' = FALSE
           /\ activeTurn' = FALSE /\ armed' = FALSE /\ requested' = FALSE
           /\ compactionStatus' \in {"none", compactionStatus}
  <2>1. LoopInv'
    BY <1>2, LoopStays
  <2>2. started' \in Seq(1 .. MaxPrompts) /\ queue' \in Seq(1 .. MaxPrompts)
    BY <1>2, QueueTypes, EmptySeq
  <2>3. TypeOK'
    BY <1>2, <2>2, TypeParts DEF Types, sessions
  <2>4. ExclusionInv'
    BY <1>2 DEF ExclusionInv
  <2>5. FlagsTellTheTruth'
    BY <1>2 DEF FlagsTellTheTruth, StreamingIsInterruptible, InFlightCoversTheWork
  <2> QED BY <2>1, <2>3, <2>4, <2>5
<1> QED BY <1>1, <1>2, BeginLoopEffect

LEMMA TypingKeepsInv ==
    ASSUME Inv, Submit \/ Enqueue \/ RunSkill
    PROVE  Inv'
<1> USE DEF Inv
<1>1. CASE Submit
  <2>1. typed' \in 1 .. MaxPrompts /\ ~MayQueue /\ ~inFlight /\ shownStatus # "manual"
    BY <1>1 DEF Submit, TypePrompt, CanEdit, TypeOK
  <2>2. status # "streaming" /\ (EngineIsBusy => "barged" \in mishaps)
    <3>1. EngineIsBusy => loop.at # "idle" \/ compacting = "manual"
      BY DEF EngineIsBusy, TurnRuns, TypeOK, ExclusionInv
    <3> QED BY <2>1, <3>1 DEF MayQueue, FlagsTellTheTruth, InFlightCoversTheWork
  <2>3. BeginLoop(typed') /\ UNCHANGED <<mounted, compacting, shownStatus, sessions, mishaps>>
    BY <1>1 DEF Submit
  <2>4. typed' \in 0 .. MaxPrompts
    BY <2>1
  <2> QED BY <2>1, <2>2, <2>3, <2>4, BeginsKeepInv
<1>2. CASE Enqueue
  <2>1. typed' \in 1 .. MaxPrompts /\ mishaps' \in {mishaps, mishaps \union {"stale"}}
    BY <1>2 DEF Enqueue, TypePrompt, TypeOK
  <2>2. queue' \in Seq(1 .. MaxPrompts)
    BY <1>2, <2>1 DEF Enqueue, TypeOK
  <2>3. TypeOK'
    BY <1>2, <2>1, <2>2 DEF Enqueue, TypeOK, turns, keys, sessions
  <2>4. LoopInv'
    BY <1>2, LoopStays DEF Enqueue, turns
  <2>5. ExclusionInv'
    BY <1>2 DEF Enqueue, ExclusionInv, TurnRuns, turns, keys
  <2>6. FlagsTellTheTruth'
    BY <1>2, <2>1 DEF Enqueue, FlagsTellTheTruth, StreamingIsInterruptible, InFlightCoversTheWork, turns, keys
  <2> QED BY <2>3, <2>4, <2>5, <2>6
<1>3. CASE RunSkill
  <2>1. /\ BeginLoop(0) /\ shownStatus # "manual" /\ status = "waiting"
        /\ mishaps' = mishaps \union (IF EngineIsBusy THEN {"barged"} ELSE {})
        /\ UNCHANGED <<mounted, compacting, shownStatus, sessions, typed>>
    BY <1>3 DEF RunSkill, CanCommand, CanEdit, Skill
  <2>2. mishaps' \in {mishaps, mishaps \union {"barged"}} /\ (EngineIsBusy => "barged" \in mishaps')
    BY <2>1
  <2>3. typed' \in 0 .. MaxPrompts /\ 0 \in 0 .. MaxPrompts
    BY <2>1 DEF TypeOK
  <2> QED BY <2>1, <2>2, <2>3, BeginsKeepInv
<1> QED BY <1>1, <1>2, <1>3

\* The user interrupts, or the application is closed: only that changes in the loop.
LEMMA InterruptedLoop ==
    ASSUME loop \in Loops, LoopInv, NEW b \in BOOLEAN,
           loop' = [loop EXCEPT !.interrupted = @ \/ b]
    PROVE  loop' \in Loops /\ LoopInv' /\ loop'.at = loop.at /\ (~b => loop' = loop)
<1> DEFINE c == loop.interrupted \/ b
<1>1. c \in BOOLEAN
  OBVIOUS
<1>2. loop' = [loop EXCEPT !.interrupted = c]
  OBVIOUS
<1> HIDE DEF c
<1>3. /\ loop'.at = loop.at /\ loop'.source = loop.source /\ loop'.depth = loop.depth
      /\ loop'.automatic = loop.automatic /\ loop'.overflowed = loop.overflowed
      /\ loop'.ending = loop.ending
  BY <1>2 DEF Loops
<1>4. loop' \in Loops
  BY <1>1, <1>2 DEF Loops
<1>5. LoopInv'
  BY <1>3 DEF LoopInv
<1>6. ~b => loop' = loop
  <2>1. SUFFICES ASSUME ~b PROVE loop' = loop
    OBVIOUS
  <2>2. loop.interrupted \in BOOLEAN
    BY DEF Loops
  <2>3. c = loop.interrupted
    BY <2>1, <2>2 DEF c
  <2> QED BY <1>2, <2>3 DEF Loops
<1> QED BY <1>3, <1>4, <1>5, <1>6

LEMMA EscapeKeepsInv ==
    ASSUME Inv, PressEscape
    PROVE  Inv' /\ (~armed => loop' = loop)
<1> USE DEF Inv
<1>1. loop \in Loops /\ armed \in BOOLEAN
  BY LoopType DEF TypeOK
<1>2. loop' = [loop EXCEPT !.interrupted = @ \/ armed]
  BY DEF PressEscape
<1>3. loop' \in Loops /\ LoopInv' /\ loop'.at = loop.at /\ (~armed => loop' = loop)
  BY <1>1, <1>2, InterruptedLoop
<1>4. TypeOK'
  BY <1>1, <1>3, TypeParts DEF PressEscape, Types, sessions
<1>5. loop.at = "turn"
  BY DEF PressEscape, FlagsTellTheTruth, StreamingIsInterruptible
<1>6. ExclusionInv'
  BY <1>3, <1>5 DEF PressEscape, ExclusionInv, TurnRuns
<1>7. FlagsTellTheTruth'
  BY <1>3, <1>5 DEF PressEscape, FlagsTellTheTruth, StreamingIsInterruptible, InFlightCoversTheWork
<1> QED BY <1>3, <1>4, <1>6, <1>7

LEMMA UnmountKeepsInv ==
    ASSUME Inv, Unmount
    PROVE  Inv'
<1> USE DEF Inv
<1>1. loop \in Loops /\ activeTurn \in BOOLEAN
  BY LoopType DEF TypeOK
<1>2. loop' = [loop EXCEPT !.interrupted = @ \/ activeTurn]
  BY DEF Unmount
<1>3. loop' \in Loops /\ LoopInv' /\ loop'.at = loop.at
  BY <1>1, <1>2, InterruptedLoop
<1>4. queue' \in Seq(1 .. MaxPrompts) /\ requested' \in BOOLEAN
  BY EmptySeq DEF Unmount, TypeOK
<1>5. TypeOK'
  <2>1. Types
    BY TypeParts
  <2> DEFINE Q == Seq(1 .. MaxPrompts)
  <2>2. /\ mounted' = FALSE /\ armed' = FALSE /\ queue' \in Q /\ requested' \in BOOLEAN
        /\ UNCHANGED <<status, inFlight, compacting, compactionStatus, shownStatus, activeTurn,
                       started, pressed, session, usage, picker, typed, mishaps>>
    BY <1>4 DEF Unmount, sessions
  <2>3. typed' \in 0 .. MaxPrompts /\ started' \in Q
    BY ONLY <2>1, <2>2 DEF Types
  <2> HIDE DEF Q
  <2>4. /\ status' \in {"waiting", "streaming"} /\ compacting' \in {"no", "manual", "auto"}
        /\ compactionStatus' \in {"none", "manual", "auto"} /\ shownStatus' \in {"none", "manual", "auto"}
        /\ mishaps' \subseteq {"barged", "stale"}
    BY ONLY <2>1, <2>2 DEF Types
  <2>5. /\ mounted' \in BOOLEAN /\ inFlight' \in BOOLEAN /\ activeTurn' \in BOOLEAN
        /\ armed' \in BOOLEAN /\ requested' \in BOOLEAN /\ picker' \in BOOLEAN
        /\ pressed' \in BOOLEAN /\ session' \in Sessions /\ usage' \in BOOLEAN
    BY ONLY <2>1, <2>2 DEF Types
  <2>6. Types'
    BY ONLY <2>2, <2>3, <2>4, <2>5, Zenon DEF Types, Q
  <2> QED BY <1>3, <2>6, TypeParts
<1>6. ExclusionInv'
  BY <1>3 DEF Unmount, ExclusionInv
<1>7. FlagsTellTheTruth'
  BY <1>3 DEF Unmount, FlagsTellTheTruth, StreamingIsInterruptible, InFlightCoversTheWork
<1> QED BY <1>3, <1>5, <1>6, <1>7

LEMMA AnswerKeepsInv ==
    ASSUME Inv, NEW ending \in Endings \ {"none"}, TurnAnswers(ending)
    PROVE  Inv' /\ loop'.interrupted = loop.interrupted
<1> USE DEF Inv
<1> DEFINE o == loop.overflowed \/ ending = "overflow"
<1>1. loop \in Loops /\ o \in BOOLEAN /\ loop.at = "turn"
  BY LoopType DEF TurnAnswers
<1>2. loop' = [loop EXCEPT !.at = "closing", !.ending = ending, !.overflowed = o]
  BY DEF TurnAnswers
<1>3. o <=> loop.overflowed \/ ending = "overflow"
  OBVIOUS
<1> HIDE DEF o
<1>4. /\ loop'.at = "closing" /\ loop'.source = loop.source /\ loop'.depth = loop.depth
      /\ loop'.automatic = loop.automatic /\ loop'.overflowed = o
      /\ loop'.interrupted = loop.interrupted /\ loop'.ending = ending
  BY <1>1, <1>2 DEF Loops
<1>5. loop' \in Loops
  BY <1>1, <1>2 DEF Loops
<1>6. LoopInv'
  BY <1>3, <1>4 DEF LoopInv
<1>7. usage' \in BOOLEAN /\ status' = "waiting"
  BY DEF TurnAnswers, TypeOK
<1>8. TypeOK'
  BY <1>5, <1>7, TypeParts DEF TurnAnswers, Types, keys
<1>9. ExclusionInv'
  BY <1>1, <1>4 DEF TurnAnswers, ExclusionInv, TurnRuns, keys
<1>10. FlagsTellTheTruth'
  BY <1>1, <1>4, <1>7 DEF TurnAnswers, FlagsTellTheTruth, StreamingIsInterruptible, InFlightCoversTheWork
<1> QED BY <1>4, <1>6, <1>8, <1>9, <1>10

LEMMA CompactionBeginsKeepsInv ==
    ASSUME Inv, TurnEndsForCompaction
    PROVE  Inv' /\ loop'.interrupted = loop.interrupted
<1> USE DEF Inv
<1>1. loop \in Loops /\ loop.at = "closing"
  BY LoopType DEF TurnEndsForCompaction
<1>2. loop' = [loop EXCEPT !.at = "compacting"]
  BY DEF TurnEndsForCompaction
<1>3. /\ loop'.at = "compacting" /\ loop'.source = loop.source /\ loop'.depth = loop.depth
      /\ loop'.automatic = loop.automatic /\ loop'.overflowed = loop.overflowed
      /\ loop'.interrupted = loop.interrupted /\ loop'.ending = loop.ending
  BY <1>1, <1>2 DEF Loops
<1>4. loop' \in Loops
  BY <1>1, <1>2 DEF Loops
<1>5. LoopInv'
  BY <1>3 DEF LoopInv
<1>6. TypeOK'
  BY <1>4, TypeParts DEF TurnEndsForCompaction, FinishTurn, Disarm, Types, sessions
<1>7. ExclusionInv'
  BY <1>1, <1>3 DEF TurnEndsForCompaction, FinishTurn, Disarm, ExclusionInv
<1>8. status # "streaming"
  BY <1>1 DEF FlagsTellTheTruth, StreamingIsInterruptible
<1>9. FlagsTellTheTruth'
  BY <1>1, <1>3, <1>8 DEF TurnEndsForCompaction, FlagsTellTheTruth, StreamingIsInterruptible, InFlightCoversTheWork
<1> QED BY <1>3, <1>5, <1>6, <1>7, <1>9

\* A turn or a compaction of the loop has come to its end.
LEMMA LoopGoesOnKeepsInv ==
    ASSUME Inv, TurnEnds \/ AutoCompactionSucceeds \/ AutoCompactionFails
    PROVE  Inv'
<1> USE DEF Inv
<1>1. CASE TurnEnds
  <2>1. /\ loop.at = "closing" /\ armed' = FALSE /\ NewLoop
        /\ \/ PromptTaken
           \/ LoopIsOver /\ activeTurn' = FALSE /\ requested' = FALSE
        /\ compactionStatus' \in {"none", compactionStatus}
        /\ picker' \in BOOLEAN
        /\ UNCHANGED <<mounted, compacting, shownStatus, session, usage, typed, mishaps>>
    BY <1>1, TurnEndsEffect
  <2>2. compacting = "no" /\ status # "streaming"
    BY <2>1 DEF ExclusionInv, TypeOK, FlagsTellTheTruth, StreamingIsInterruptible
  <2>3. queue' \in Seq(1 .. MaxPrompts) /\ started' \in Seq(1 .. MaxPrompts)
    BY <2>1, PromptTypes
  <2>4. TypeOK'
    BY <2>1, <2>3, TypeParts DEF Types, NewLoop, PromptTaken, TurnBegins, LoopIsOver
  <2>5. ExclusionInv'
    BY <2>1, <2>2 DEF ExclusionInv, PromptTaken, TurnBegins, LoopIsOver
  <2>6. FlagsTellTheTruth'
    BY <2>1, <2>2 DEF FlagsTellTheTruth, StreamingIsInterruptible, InFlightCoversTheWork,
                      PromptTaken, TurnBegins, LoopIsOver
  <2> QED BY <2>1, <2>4, <2>5, <2>6 DEF NewLoop
<1>2. CASE AutoCompactionSucceeds \/ AutoCompactionFails
  <2>1. /\ loop.at = "compacting" /\ NewLoop
        /\ \/ TurnBegins /\ mounted /\ UNCHANGED <<queue, started, inFlight>>
           \/ PromptTaken
           \/ LoopIsOver /\ UNCHANGED <<activeTurn, requested>>
        /\ compacting' = "no" /\ compactionStatus' = "none" /\ picker' \in BOOLEAN
        /\ UNCHANGED <<mounted, shownStatus, armed, session, usage, typed, mishaps>>
    BY <1>2, CompactedEffect
  <2>2. ~armed /\ status # "streaming"
    BY <2>1 DEF ExclusionInv, TurnRuns, TypeOK, FlagsTellTheTruth, StreamingIsInterruptible
  <2>3. queue' \in Seq(1 .. MaxPrompts) /\ started' \in Seq(1 .. MaxPrompts)
    BY <2>1, PromptTypes DEF TypeOK
  <2>4. TypeOK'
    BY <2>1, <2>3, TypeParts DEF Types, NewLoop, PromptTaken, TurnBegins, LoopIsOver
  <2>5. ExclusionInv'
    BY <2>1, <2>2 DEF ExclusionInv, PromptTaken, TurnBegins, LoopIsOver
  <2>6. FlagsTellTheTruth'
    BY <2>1, <2>2 DEF FlagsTellTheTruth, StreamingIsInterruptible, InFlightCoversTheWork,
                      PromptTaken, TurnBegins, LoopIsOver
  <2> QED BY <2>1, <2>4, <2>5, <2>6 DEF NewLoop
<1> QED BY <1>1, <1>2

\* Keys and renderings that leave the loop alone.
LEMMA OthersKeepInv ==
    ASSUME Inv,
           \/ ConfirmationExpires \/ CompactManually \/ ManualCompactionGoesOn
           \/ OpenPicker \/ ClosePicker \/ Render
           \/ \E s \in Sessions : Clear(s) \/ Switch(s) \/ Delete(s)
    PROVE  Inv' /\ loop' = loop
<1> USE DEF Inv, turns, keys, sessions
<1>0. Types
  BY TypeParts
<1>1. loop' = loop
  BY DEF ConfirmationExpires, CompactManually, ManualCompactionGoesOn, ManualCompactionEnds,
         OpenPicker, ClosePicker, Render, Clear, Switch, Delete
<1>2. LoopInv' /\ loop' \in Loops
  BY <1>1, LoopStays, LoopType
<1>3. CASE ConfirmationExpires
  <2>1. TypeOK'
    <3>1. /\ armed' = FALSE
          /\ UNCHANGED <<mounted, status, inFlight, compacting, compactionStatus, shownStatus, queue,
                         activeTurn, started, requested, pressed, picker, session, usage, typed, mishaps>>
      BY <1>3 DEF ConfirmationExpires, Disarm
    <3>2. Types'
      BY <1>0, <3>1, TypesStay
    <3> QED BY <1>2, <3>2, TypeParts
  <2>2. ExclusionInv'
    BY <1>1, <1>3 DEF ConfirmationExpires, Disarm, ExclusionInv
  <2>3. FlagsTellTheTruth'
    BY <1>1, <1>3 DEF ConfirmationExpires, FlagsTellTheTruth, StreamingIsInterruptible, InFlightCoversTheWork
  <2> QED BY <1>1, <1>2, <2>1, <2>2, <2>3
<1>4. CASE CompactManually
  <2>1. CASE ~MutationIsBlocked /\ ~TurnRuns /\ compactionStatus' = "manual" /\ compacting' = "manual" /\ inFlight' = TRUE
    <3>1. compacting = "no" /\ loop.at = "idle" /\ ~armed
      BY <2>1, LoopType DEF MutationIsBlocked, TurnRuns, ExclusionInv, Loops
    <3>2. TypeOK'
      BY <1>2, <1>4, <2>1, TypeParts DEF CompactManually, Types
    <3>3. ExclusionInv'
      BY <1>1, <1>4, <2>1, <3>1 DEF CompactManually, ExclusionInv
    <3>4. FlagsTellTheTruth'
      BY <1>1, <1>4, <2>1, <3>1 DEF CompactManually, FlagsTellTheTruth, StreamingIsInterruptible, InFlightCoversTheWork
    <3> QED BY <1>1, <1>2, <3>2, <3>3, <3>4
  <2>2. CASE compactionStatus' = "none" /\ UNCHANGED <<compacting, inFlight>>
    <3>2. TypeOK'
      BY <1>2, <1>4, <2>2, TypeParts DEF CompactManually, Types
    <3>3. ExclusionInv'
      BY <1>1, <1>4, <2>2 DEF CompactManually, ExclusionInv, TurnRuns
    <3>4. FlagsTellTheTruth'
      BY <1>1, <1>4, <2>2 DEF CompactManually, FlagsTellTheTruth, StreamingIsInterruptible, InFlightCoversTheWork
    <3> QED BY <1>1, <1>2, <3>2, <3>3, <3>4
  <2> QED BY <1>4, <2>1, <2>2 DEF CompactManually
<1>5. CASE ManualCompactionGoesOn
  <2>1. PICK succeeds \in BOOLEAN : ManualCompactionEnds(succeeds)
    BY <1>5 DEF ManualCompactionGoesOn
  <2>2. loop.at = "idle" /\ picker' \in BOOLEAN
    BY <2>1 DEF ManualCompactionEnds, ExclusionInv
  <2>3. TypeOK'
    BY <1>2, <2>1, <2>2, TypeParts DEF ManualCompactionEnds, Types
  <2>4. ExclusionInv'
    BY <1>1, <2>1, <2>2 DEF ManualCompactionEnds, ExclusionInv, TurnRuns
  <2>5. FlagsTellTheTruth'
    BY <1>1, <2>1, <2>2 DEF ManualCompactionEnds, FlagsTellTheTruth, StreamingIsInterruptible, InFlightCoversTheWork
  <2> QED BY <1>1, <1>2, <2>3, <2>4, <2>5
<1>6. CASE OpenPicker \/ ClosePicker \/ Render
  <2>1. TypeOK'
    <3>1. /\ picker' \in BOOLEAN /\ shownStatus' \in {shownStatus, compactionStatus}
          /\ UNCHANGED <<mounted, status, inFlight, compacting, compactionStatus, queue,
                         activeTurn, started, armed, requested, pressed, session, usage, typed, mishaps>>
      BY <1>0, <1>6 DEF OpenPicker, ClosePicker, Render, Types
    <3>2. Types'
      BY <1>0, <3>1 DEF Types
    <3> QED BY <1>2, <3>2, TypeParts
  <2>2. ExclusionInv'
    BY <1>1, <1>6 DEF OpenPicker, ClosePicker, Render, ExclusionInv, TurnRuns
  <2>3. FlagsTellTheTruth'
    BY <1>1, <1>6 DEF OpenPicker, ClosePicker, Render, FlagsTellTheTruth, StreamingIsInterruptible, InFlightCoversTheWork
  <2> QED BY <1>1, <1>2, <2>1, <2>2, <2>3
<1>7. ASSUME NEW s \in Sessions, Clear(s) \/ Switch(s) \/ Delete(s)
      PROVE  Inv'
  <2>1. TypeOK'
    <3>1. /\ session' \in Sessions /\ usage' \in BOOLEAN /\ picker' \in BOOLEAN
          /\ status' \in {"waiting", status} /\ compactionStatus' \in {"none", compactionStatus}
          /\ UNCHANGED <<mounted, inFlight, compacting, shownStatus, queue,
                         activeTurn, started, armed, requested, pressed, typed, mishaps>>
      BY <1>0, <1>7 DEF Clear, Switch, Delete, Types
    <3>2. Types'
      BY <1>0, <3>1 DEF Types
    <3> QED BY <1>2, <3>2, TypeParts
  <2>2. ExclusionInv'
    BY <1>1, <1>7 DEF Clear, Switch, Delete, ExclusionInv, TurnRuns
  <2>3. FlagsTellTheTruth'
    BY <1>1, <1>7 DEF Clear, Switch, Delete, FlagsTellTheTruth, StreamingIsInterruptible, InFlightCoversTheWork
  <2> QED BY <1>2, <2>1, <2>2, <2>3
<1> QED BY <1>1, <1>3, <1>4, <1>5, <1>6, <1>7

LEMMA InitInv == Init => Inv
<1>1. SUFFICES ASSUME Init PROVE Inv
  OBVIOUS
<1>2. /\ loop.at = "idle" /\ loop.source = "user" /\ loop.depth = 0 /\ loop.automatic = 0
      /\ loop.overflowed = FALSE /\ loop.interrupted = FALSE /\ loop.ending = "none"
  BY <1>1 DEF Init, Idle
<1>3. TypeOK
  <2>1. queue \in Seq(1 .. MaxPrompts) /\ started \in Seq(1 .. MaxPrompts) /\ typed \in 0 .. MaxPrompts
    BY <1>1, EmptySeq DEF Init
  <2>2. Types
    BY <1>1, <2>1 DEF Init, Types
  <2>3. loop \in Loops
    BY <1>1, IdleLoop DEF Init
  <2> QED BY <2>2, <2>3, TypeParts
<1>4. LoopInv
  BY <1>2 DEF LoopInv
<1>5. ExclusionInv /\ FlagsTellTheTruth
  BY <1>1, <1>2 DEF Init, ExclusionInv, FlagsTellTheTruth, StreamingIsInterruptible, InFlightCoversTheWork
<1> QED BY <1>3, <1>4, <1>5 DEF Inv

LEMMA StepInv == Inv /\ [Next]_vars => Inv'
<1>1. SUFFICES ASSUME Inv, [Next]_vars PROVE Inv'
  OBVIOUS
<1>2. CASE UNCHANGED vars
  <2>1. TypeOK'
    <3>1. Types /\ loop' \in Loops
      BY <1>1, <1>2, TypeParts DEF Inv, vars, turns
    <3>2. Types'
      BY <1>2, <3>1, TypesStay DEF vars, turns, keys, sessions
    <3> QED BY <3>1, <3>2, TypeParts
  <2>2. LoopInv'
    BY <1>1, <1>2, LoopStays DEF Inv, vars, turns
  <2>3. ExclusionInv' /\ FlagsTellTheTruth'
    BY <1>1, <1>2 DEF vars, turns, keys, Inv, ExclusionInv, TurnRuns,
       FlagsTellTheTruth, StreamingIsInterruptible, InFlightCoversTheWork
  <2> QED BY <2>1, <2>2, <2>3 DEF Inv
<1>3. CASE Submit \/ Enqueue \/ RunSkill
  BY <1>1, <1>3, TypingKeepsInv
<1>4. CASE TurnGoesOn
  BY <1>1, <1>4, AnswerKeepsInv DEF TurnGoesOn
<1>5. CASE LoopGoesOn
  BY <1>1, <1>5, CompactionBeginsKeepsInv, LoopGoesOnKeepsInv DEF LoopGoesOn
<1>6. CASE PressEscape
  BY <1>1, <1>6, EscapeKeepsInv
<1>7. CASE Unmount
  BY <1>1, <1>7, UnmountKeepsInv
<1>8. CASE \/ ConfirmationExpires \/ CompactManually \/ ManualCompactionGoesOn
           \/ OpenPicker \/ ClosePicker \/ Render
           \/ \E s \in Sessions : Clear(s) \/ Switch(s) \/ Delete(s)
  BY <1>1, <1>8, OthersKeepInv
<1> QED BY <1>1, <1>2, <1>3, <1>4, <1>5, <1>6, <1>7, <1>8 DEF Next

\* The state of the controller keeps its types: the loop is idle, in a turn, settling
\* it or compacting, and the depth of its continuations stays within the limit
\* (useChatAppAssistantTurnActions).
THEOREM TypeCorrect == Spec => []TypeOK
<1>1. Inv => TypeOK
  BY DEF Inv
<1> QED BY InitInv, StepInv, <1>1, PTL DEF Spec

\* What the controller's flags say is so: a response that is shown as streaming has a
\* turn that Escape can interrupt, and prompts and session changes are turned away
\* exactly while a loop or a compaction runs (isPromptSubmissionInFlightRef,
\* latestActiveConversationTurnRef); as in ChatApp, no delivery of events throws.
THEOREM FlagsAreTrue == Spec => []FlagsTellTheTruth
<1>1. Inv => FlagsTellTheTruth
  BY DEF Inv
<1> QED BY InitInv, StepInv, <1>1, PTL DEF Spec

\* One prompt leads to at most MaxDepth automatic turns, whatever its turns answer,
\* as long as none of them overflows the context window
\* (resolveAutoCompactionFollowUpPromptAfterAssistantTurn).
THEOREM ContinuationsAreCapped == Spec => []AutomaticTurnsAreCapped
<1>1. Inv => AutomaticTurnsAreCapped
  BY LoopType DEF Inv, LoopInv, AutomaticTurnsAreCapped, Loops
<1> QED BY InitInv, StepInv, <1>1, PTL DEF Spec

-----------------------------------------------------------------------------
(* What a step may never do.                                               *)

\* No switching, deleting or clearing takes the session from under a turn or a
\* compaction that works on it (isActiveConversationSessionMutationBlockedByInFlightWork).
THEOREM SessionStays == Spec => SessionStaysDuringWork
<1>1. ASSUME Inv, [Next]_vars, session' # session
      PROVE  ~EngineIsBusy \/ "barged" \in mishaps
  <2>1. \E s \in Sessions : Clear(s) \/ Switch(s) \/ Delete(s)
    BY <1>1 DEF Next, vars, turns, keys, sessions, Submit, Enqueue, RunSkill, PressEscape,
       ConfirmationExpires, TurnGoesOn, TurnAnswers, LoopGoesOn, TurnEndsForCompaction, TurnEnds,
       AutoCompactionSucceeds, AutoCompactionFails, CompactManually, ManualCompactionGoesOn,
       ManualCompactionEnds, OpenPicker, ClosePicker, Render, Unmount
  <2>2. ~inFlight /\ compacting = "no"
    BY <2>1 DEF Clear, Switch, Delete, MutationIsBlocked
  <2>3. TurnRuns => "barged" \in mishaps
    BY <1>1, <2>2 DEF TurnRuns, Inv, FlagsTellTheTruth, InFlightCoversTheWork
  <2> QED BY <2>2, <2>3 DEF EngineIsBusy
<1>2. Inv /\ [Next]_vars => [session' # session => ~EngineIsBusy \/ "barged" \in mishaps]_vars
  BY <1>1
<1> QED BY InitInv, StepInv, <1>2, PTL DEF Spec, SessionStaysDuringWork

\* A turn is interrupted by the keys only after Escape was pressed before in that very
\* turn: a confirmation never outlives the turn it was asked for
\* (clearActiveTurnInterruptConfirmation at every end of a turn).
THEOREM InterruptionsAreConfirmed == Spec => InterruptionIsConfirmed
<1>1. ASSUME Inv, [Next]_vars, loop'.interrupted, ~loop.interrupted, mounted'
      PROVE  pressed
  <2>1. CASE UNCHANGED vars
    BY <1>1, <2>1 DEF vars, turns
  <2>2. CASE Submit \/ Enqueue \/ RunSkill
    <3>1. CASE Enqueue
      BY <1>1, <3>1 DEF Enqueue, turns
    <3>2. ASSUME NEW p \in 0 .. MaxPrompts, BeginLoop(p)
          PROVE  FALSE
      BY <1>1, <3>2, BeginLoopEffect DEF Inv
    <3>3. typed \in 0 .. MaxPrompts
      BY <1>1 DEF Inv, TypeOK
    <3>4. ~Submit
      BY <3>2, <3>3 DEF Submit, TypePrompt
    <3>5. ~RunSkill
      BY <3>2 DEF RunSkill, Skill
    <3> QED BY <2>2, <3>1, <3>4, <3>5
  <2>3. ~TurnGoesOn
    BY <1>1, AnswerKeepsInv DEF TurnGoesOn
  <2>4. ~LoopGoesOn
    BY <1>1, CompactionBeginsKeepsInv, TurnEndsEffect, CompactedEffect DEF LoopGoesOn, NewLoop, Inv
  <2>5. CASE PressEscape
    BY <1>1, <2>5, EscapeKeepsInv DEF Inv, ExclusionInv
  <2>6. ~Unmount
    BY <1>1 DEF Unmount
  <2>7. ~ \/ ConfirmationExpires \/ CompactManually \/ ManualCompactionGoesOn
          \/ OpenPicker \/ ClosePicker \/ Render
          \/ \E s \in Sessions : Clear(s) \/ Switch(s) \/ Delete(s)
    BY <1>1, OthersKeepInv
  <2> QED BY <1>1, <2>1, <2>2, <2>3, <2>4, <2>5, <2>6, <2>7 DEF Next
<1>2. Inv /\ [Next]_vars => [loop'.interrupted /\ ~loop.interrupted /\ mounted' => pressed]_vars
  BY <1>1
<1> QED BY InitInv, StepInv, <1>2, PTL DEF Spec, InterruptionIsConfirmed

-----------------------------------------------------------------------------
(* The order of the prompts.                                               *)

\* The elements of a sequence that is put together of two.
LEMMA ToSetConcat ==
    ASSUME NEW S, NEW a \in Seq(S), NEW b \in Seq(S)
    PROVE  ToSet(a \o b) = ToSet(a) \union ToSet(b)
<1>1. /\ a \o b \in Seq(S) /\ Len(a \o b) = Len(a) + Len(b)
      /\ \A i \in 1 .. Len(a) + Len(b) :
            (a \o b)[i] = IF i <= Len(a) THEN a[i] ELSE b[i - Len(a)]
  BY ConcatProperties
<1>2. /\ DOMAIN a = 1 .. Len(a) /\ DOMAIN b = 1 .. Len(b)
      /\ DOMAIN (a \o b) = 1 .. Len(a) + Len(b) /\ Len(a) \in Nat /\ Len(b) \in Nat
  BY <1>1, LenProperties
<1>3. ASSUME NEW x \in ToSet(a \o b)
      PROVE  x \in ToSet(a) \union ToSet(b)
  <2>1. PICK i \in 1 .. Len(a) + Len(b) : x = (a \o b)[i]
    BY <1>2, <1>3 DEF ToSet
  <2>2. CASE i <= Len(a)
    BY <1>1, <1>2, <2>1, <2>2 DEF ToSet
  <2>3. CASE i > Len(a)
    <3>1. i - Len(a) \in 1 .. Len(b) /\ x = b[i - Len(a)]
      BY <1>1, <1>2, <2>1, <2>3
    <3> QED BY <1>2, <3>1 DEF ToSet
  <2> QED BY <1>2, <2>1, <2>2, <2>3
<1>4. ASSUME NEW x \in ToSet(a)
      PROVE  x \in ToSet(a \o b)
  <2>1. PICK i \in 1 .. Len(a) : x = a[i]
    BY <1>2, <1>4 DEF ToSet
  <2>2. i \in 1 .. Len(a) + Len(b) /\ x = (a \o b)[i]
    BY <1>1, <1>2, <2>1
  <2> QED BY <1>2, <2>2 DEF ToSet
<1>5. ASSUME NEW x \in ToSet(b)
      PROVE  x \in ToSet(a \o b)
  <2>1. PICK i \in 1 .. Len(b) : x = b[i]
    BY <1>2, <1>5 DEF ToSet
  <2>2. i + Len(a) \in 1 .. Len(a) + Len(b) /\ x = (a \o b)[i + Len(a)]
    BY <1>1, <1>2, <2>1
  <2> QED BY <1>2, <2>2 DEF ToSet
<1> QED BY <1>3, <1>4, <1>5

InOrder(g, n, m) ==
    /\ Len(g) = n /\ ToSet(g) = 1 .. n
    /\ g = [p \in 1 .. n |-> p] \/ m # {}

\* The next prompt is put last, or after a mishap anywhere among the prompts so far.
LEMMA NextPromptAdded ==
    ASSUME NEW S, NEW a \in Seq(S), NEW b \in Seq(S), NEW n \in Nat, n + 1 \in S,
           NEW m, NEW k, InOrder(a \o b, n, m), m \subseteq k, b = <<>> \/ k # {}
    PROVE  InOrder(a \o <<n + 1>> \o b, n + 1, k)
<1> DEFINE e == <<n + 1>>
           c == a \o e
           d == c \o b
<1>0. Len(a \o b) = n /\ ToSet(a \o b) = 1 .. n /\ (a \o b = [p \in 1 .. n |-> p] \/ k # {})
  BY DEF InOrder
<1>1. e \in Seq(S) /\ Len(e) = 1 /\ DOMAIN e = 1 .. 1 /\ e[1] = n + 1
  <2>1. e \in Seq(S)
    OBVIOUS
  <2>2. Len(e) = 1 /\ e[1] = n + 1
    OBVIOUS
  <2> QED BY <2>1, <2>2, LenProperties
<1>2. ToSet(e) = {n + 1}
  BY <1>1 DEF ToSet
<1> HIDE DEF e
<1>3. ToSet(c) = ToSet(a) \union {n + 1}
  BY <1>1, <1>2, ToSetConcat
<1>4. /\ c \in Seq(S) /\ Len(c) = Len(a) + 1
      /\ \A i \in 1 .. Len(a) + 1 : c[i] = IF i <= Len(a) THEN a[i] ELSE e[i - Len(a)]
  <2>1. /\ c \in Seq(S) /\ Len(c) = Len(a) + Len(e)
        /\ \A i \in 1 .. Len(a) + Len(e) : c[i] = IF i <= Len(a) THEN a[i] ELSE e[i - Len(a)]
    BY <1>1, ConcatProperties, Zenon
  <2> QED BY <1>1, <2>1
<1> HIDE DEF c
<1>5. ToSet(d) = ToSet(c) \union ToSet(b)
  BY <1>4, ToSetConcat
<1>6. ToSet(a) \union ToSet(b) = 1 .. n
  BY <1>0, ToSetConcat
<1>7. Len(a \o b) = Len(a) + Len(b) /\ Len(d) = Len(c) + Len(b) /\ Len(a) \in Nat /\ Len(b) \in Nat
  BY <1>4, ConcatProperties, LenProperties
<1>8. Len(d) = n + 1
  BY <1>0, <1>4, <1>7
<1>9. ToSet(d) = 1 .. n + 1
  <2>1. ToSet(d) = (ToSet(a) \union ToSet(b)) \union {n + 1}
    BY <1>3, <1>5
  <2>2. ToSet(d) = 1 .. n \union {n + 1}
    BY <1>6, <2>1
  <2> QED BY <2>2
<1>10. ASSUME b = <<>>, a \o b = [p \in 1 .. n |-> p]
       PROVE  d = [p \in 1 .. n + 1 |-> p]
  <2>1. a \o b = a /\ d = c
    BY <1>4, <1>10, ConcatEmptySeq
  <2>2. Len(a) = n /\ \A p \in 1 .. n : a[p] = p
    BY <1>10, <2>1
  <2>3. Len(c) = n + 1 /\ \A p \in 1 .. n + 1 : c[p] = p
    BY <1>1, <1>4, <2>2
  <2>4. c = [p \in 1 .. Len(c) |-> c[p]]
    BY <1>4, LenProperties
  <2> QED BY <2>1, <2>3, <2>4
<1>11. d = a \o <<n + 1>> \o b
  BY DEF c, e
<1> HIDE DEF d
<1>12. d = [p \in 1 .. n + 1 |-> p] \/ k # {}
  BY <1>0, <1>10
<1> QED BY <1>8, <1>9, <1>11, <1>12 DEF InOrder

PromptInv == PromptsKeepTheirOrder /\ TakerInv

\* PromptsKeepTheirOrder, once more with its types.
LEMMA OrderParts ==
    ASSUME TypeOK, TypeOK'
    PROVE  /\ PromptsKeepTheirOrder <=> (mounted => InOrder(started \o queue, typed, mishaps))
           /\ PromptsKeepTheirOrder' <=> (mounted' => InOrder(started' \o queue', typed', mishaps'))
<1>1. \A m \in SUBSET {"barged", "stale"} : m \cap {"barged", "stale"} = m
  OBVIOUS
<1>2. mishaps \cap {"barged", "stale"} = mishaps /\ mishaps' \cap {"barged", "stale"} = mishaps'
  BY <1>1 DEF TypeOK
<1> QED BY <1>2 DEF PromptsKeepTheirOrder, InOrder

\* The prompts stay where they are, or are taken from the queue in their order.
LEMMA SamePrompts ==
    ASSUME TypeOK, TypeOK', PromptsKeepTheirOrder, mounted' => mounted,
           mounted' => started' \o queue' = started \o queue,
           typed' = typed, mishaps \subseteq mishaps'
    PROVE  PromptsKeepTheirOrder'
BY OrderParts DEF InOrder

\* A prompt is typed: it goes after the others, or a mishap says why not.
LEMMA MorePrompts ==
    ASSUME TypeOK, TypeOK', PromptsKeepTheirOrder, mounted' = mounted, typed' = typed + 1,
           NEW a \in Seq(1 .. MaxPrompts), NEW b \in Seq(1 .. MaxPrompts),
           started \o queue = a \o b, started' \o queue' = a \o <<typed'>> \o b,
           mounted => b = <<>> \/ mishaps' # {}, mishaps \subseteq mishaps'
    PROVE  PromptsKeepTheirOrder'
<1>1. SUFFICES ASSUME mounted PROVE InOrder(started' \o queue', typed', mishaps')
  BY OrderParts
<1>2. InOrder(a \o b, typed, mishaps)
  BY <1>1, OrderParts
<1>3. typed \in Nat /\ typed + 1 \in 1 .. MaxPrompts
  BY DEF TypeOK
<1>4. a \o b \in Seq(1 .. MaxPrompts) /\ (b = <<>> \/ mishaps' # {})
  BY <1>1, ConcatProperties
<1> DEFINE S == 1 .. MaxPrompts
<1>5. a \in Seq(S) /\ b \in Seq(S) /\ typed \in Nat /\ typed + 1 \in S
  BY <1>3
<1> HIDE DEF S
<1>6. InOrder(a \o <<typed + 1>> \o b, typed + 1, mishaps')
  BY <1>2, <1>4, <1>5, NextPromptAdded
<1> QED BY <1>6

\* Neither the prompts nor what the loop does with them changes.
LEMMA PromptsStay ==
    ASSUME TypeOK, TypeOK', PromptInv, UNCHANGED <<mounted, queue, started, typed, mishaps>>,
           loop.at # "idle" => loop'.at # "idle"
    PROVE  PromptInv'
BY SamePrompts DEF PromptInv, TakerInv

\* The first queued prompt is taken out, or there is none when the loop ends.
LEMMA PromptsAreTaken ==
    ASSUME TypeOK, TypeOK', PromptInv, UNCHANGED <<mounted, typed, mishaps>>,
           PromptTaken \/ (LoopIsOver /\ (mounted => queue = <<>>))
    PROVE  PromptInv'
<1>1. CASE PromptTaken
  <2> DEFINE S == 1 .. MaxPrompts
             h == Head(queue)
             r == Tail(queue)
  <2>1. queue \in Seq(S) /\ started \in Seq(S) /\ queue # <<>>
    BY <1>1 DEF TypeOK, PromptTaken
  <2>2. <<h>> \in Seq(S) /\ r \in Seq(S) /\ queue = <<h>> \o r
    BY <2>1
  <2>3. started' = started \o <<h>> /\ queue' = r
    BY <1>1 DEF PromptTaken
  <2> HIDE DEF h, r, S
  <2>4. (started \o <<h>>) \o r = started \o (<<h>> \o r)
    BY <2>1, <2>2, ConcatAssociative
  <2>5. started' \o queue' = started \o queue
    BY <2>2, <2>3, <2>4
  <2>6. PromptsKeepTheirOrder'
    BY <2>5, SamePrompts DEF PromptInv
  <2> QED BY <1>1, <2>6 DEF PromptInv, TakerInv, PromptTaken, TurnBegins
<1>2. CASE LoopIsOver /\ (mounted => queue = <<>>)
  <2>1. PromptsKeepTheirOrder'
    BY <1>2, SamePrompts DEF PromptInv, LoopIsOver
  <2> QED BY <1>2, <2>1 DEF PromptInv, TakerInv, LoopIsOver
<1> QED BY <1>1, <1>2

LEMMA SubmitKeepsPrompts ==
    ASSUME Inv, Inv', PromptInv, Submit
    PROVE  PromptInv'
<1> DEFINE S == 1 .. MaxPrompts
<1>1. /\ TypeOK /\ TypeOK' /\ LoopInv /\ PromptsKeepTheirOrder /\ TakerInv
      /\ queue \in Seq(S) /\ started \in Seq(S)
  BY DEF Inv, PromptInv, TypeOK
<1>2. /\ typed' = typed + 1 /\ typed' \in 0 .. MaxPrompts /\ mounted /\ mounted' = mounted /\ mishaps' = mishaps
      /\ BeginLoop(typed') /\ ~MayQueue /\ ~inFlight
  BY <1>1 DEF Submit, TypePrompt, CanEdit, CanType, TypeOK
<1>3. typed' # 0 /\ Typed(typed') = <<typed'>>
  BY <1>1, <1>2 DEF Typed, Skill, TypeOK
<1>4. CASE /\ ~EngineIsBusy /\ TurnBegins /\ started' = started \o Typed(typed')
           /\ UNCHANGED queue
  <2>1. loop.at = "idle"
    BY <1>1, <1>4 DEF EngineIsBusy, TurnRuns, Inv, ExclusionInv, TypeOK
  <2>2. queue = <<>> \/ mishaps' # {}
    BY <1>1, <1>2, <2>1 DEF TakerInv
  <2>3. started' \o queue' = started \o <<typed'>> \o queue
    BY <1>3, <1>4
  <2>4. PromptsKeepTheirOrder'
    BY <1>1, <1>2, <2>2, <2>3, MorePrompts
  <2> QED BY <1>4, <2>4 DEF PromptInv, TakerInv, TurnBegins
<1>5. CASE EngineIsBusy /\ started' = started \o Typed(typed') \o queue /\ queue' = <<>>
  <2>1. loop.at # "idle" \/ compacting = "manual"
    BY <1>5 DEF EngineIsBusy, TurnRuns, Inv, TypeOK, ExclusionInv
  <2>2. mishaps' # {}
    BY <1>2, <2>1 DEF Inv, FlagsTellTheTruth, InFlightCoversTheWork
  <2>3. started' \in Seq(S)
    BY <1>1 DEF TypeOK
  <2>4. started' \o queue' = started \o <<typed'>> \o queue
    BY <1>3, <1>5, <2>3, ConcatEmptySeq
  <2>5. PromptsKeepTheirOrder'
    BY <1>1, <1>2, <2>2, <2>4, MorePrompts
  <2> QED BY <1>5, <2>5 DEF PromptInv, TakerInv
<1> QED BY <1>1, <1>2, <1>4, <1>5, BeginLoopEffect

LEMMA SkillKeepsPrompts ==
    ASSUME Inv, Inv', PromptInv, RunSkill
    PROVE  PromptInv'
<1> DEFINE S == 1 .. MaxPrompts
<1>1. /\ TypeOK /\ TypeOK' /\ LoopInv /\ PromptsKeepTheirOrder
      /\ queue \in Seq(S) /\ started \in Seq(S) /\ started' \in Seq(S)
  BY DEF Inv, PromptInv, TypeOK
<1>2. /\ BeginLoop(0) /\ mounted' = mounted /\ typed' = typed /\ mishaps \subseteq mishaps'
  BY DEF RunSkill, Skill
<1>3. Typed(0) = <<>> /\ started \o <<>> = started /\ started' \o <<>> = started'
  BY <1>1, ConcatEmptySeq DEF Typed, Skill
<1>4. \/ TurnBegins /\ started' = started \o Typed(0) /\ UNCHANGED queue
      \/ started' = started \o Typed(0) \o queue /\ queue' = <<>>
  <2>1. 0 \in 0 .. MaxPrompts
    OBVIOUS
  <2> QED BY <1>1, <1>2, <2>1, BeginLoopEffect
<1>5. started' \o queue' = started \o queue
  BY <1>3, <1>4
<1>6. PromptsKeepTheirOrder'
  BY <1>1, <1>2, <1>5, SamePrompts
<1> QED BY <1>4, <1>6 DEF PromptInv, TakerInv, TurnBegins

LEMMA EnqueueKeepsPrompts ==
    ASSUME Inv, Inv', PromptInv, Enqueue
    PROVE  PromptInv'
<1> DEFINE S == 1 .. MaxPrompts
           p == typed'
<1>1. /\ TypeOK /\ TypeOK' /\ PromptsKeepTheirOrder
      /\ queue \in Seq(S) /\ started \in Seq(S)
  BY DEF Inv, PromptInv, TypeOK
<1>2. /\ typed' = typed + 1 /\ mounted' = mounted /\ mishaps \subseteq mishaps'
      /\ queue' = Append(queue, p) /\ started' = started /\ loop' = loop
      /\ loop.at = "idle" => mishaps' # {}
  BY DEF Enqueue, TypePrompt, turns
<1>3. p \in S
  BY <1>1, <1>2 DEF TypeOK
<1> HIDE DEF p, S
<1>4. <<p>> \in Seq(S) /\ queue' = queue \o <<p>>
  <2>1. <<p>> \in Seq(S)
    BY <1>3
  <2>2. Append(queue, p) = queue \o <<p>>
    BY <1>1, <1>3, AppendIsConcat
  <2> QED BY <1>2, <2>1, <2>2
<1>5. started \o (queue \o <<p>>) = (started \o queue) \o <<p>>
  BY <1>1, <1>4, ConcatAssociative
<1>6. started \o queue \in Seq(S) /\ <<>> \in Seq(S)
  BY <1>1, ConcatProperties, EmptySeq, Zenon
<1>7. (started \o queue) \o <<p>> \in Seq(S)
  BY <1>4, <1>6, ConcatProperties, Zenon
<1>8. /\ started \o queue = (started \o queue) \o <<>>
      /\ started' \o queue' = (started \o queue) \o <<p>> \o <<>>
  BY <1>2, <1>4, <1>5, <1>6, <1>7, ConcatEmptySeq
<1>9. PromptsKeepTheirOrder'
  BY <1>1, <1>2, <1>6, <1>8, MorePrompts DEF p, S
<1> QED BY <1>2, <1>9 DEF PromptInv, TakerInv

LEMMA StepPrompts == Inv /\ Inv' /\ PromptInv /\ [Next]_vars => PromptInv'
<1>1. SUFFICES ASSUME Inv, Inv', PromptInv, [Next]_vars PROVE PromptInv'
  OBVIOUS
<1>2. TypeOK /\ TypeOK' /\ LoopInv /\ loop \in Loops
  BY <1>1, LoopType DEF Inv
<1>3. CASE UNCHANGED vars
  BY <1>1, <1>2, <1>3, PromptsStay DEF vars, turns
<1>4. CASE Submit \/ Enqueue \/ RunSkill
  BY <1>1, <1>4, SubmitKeepsPrompts, EnqueueKeepsPrompts, SkillKeepsPrompts
<1>5. CASE TurnGoesOn \/ TurnEndsForCompaction
  <2>1. UNCHANGED <<mounted, queue, started, typed, mishaps>>
    BY <1>5 DEF TurnGoesOn, TurnAnswers, TurnEndsForCompaction
  <2>2. loop'.at # "idle"
    BY <1>2, <1>5 DEF TurnGoesOn, TurnAnswers, TurnEndsForCompaction, Loops
  <2> QED BY <1>1, <1>2, <2>1, <2>2, PromptsStay
<1>6. CASE TurnEnds
  BY <1>1, <1>2, <1>6, TurnEndsEffect, PromptsAreTaken
<1>7. CASE AutoCompactionSucceeds \/ AutoCompactionFails
  <2>1. UNCHANGED <<mounted, typed, mishaps>>
    BY <1>2, <1>7, CompactedEffect
  <2>2. CASE TurnBegins /\ UNCHANGED <<queue, started>>
    BY <1>1, <1>2, <2>1, <2>2, PromptsStay DEF TurnBegins
  <2>3. CASE PromptTaken \/ (LoopIsOver /\ (mounted => queue = <<>>))
    BY <1>1, <1>2, <2>1, <2>3, PromptsAreTaken
  <2> QED BY <1>2, <1>7, <2>2, <2>3, CompactedEffect
<1>8. CASE PressEscape
  <2>1. loop'.at = loop.at /\ UNCHANGED <<mounted, queue, started, typed, mishaps>>
    BY <1>2, <1>8 DEF PressEscape, Loops
  <2> QED BY <1>1, <1>2, <2>1, PromptsStay
<1>9. CASE Unmount
  <2>1. ~mounted'
    BY <1>9 DEF Unmount
  <2> QED BY <1>2, <2>1, OrderParts DEF PromptInv, TakerInv
<1>10. CASE \/ ConfirmationExpires \/ CompactManually \/ ManualCompactionGoesOn
            \/ OpenPicker \/ ClosePicker \/ Render
            \/ \E s \in Sessions : Clear(s) \/ Switch(s) \/ Delete(s)
  <2>1. UNCHANGED <<loop, mounted, queue, started, typed, mishaps>>
    BY <1>10 DEF ConfirmationExpires, CompactManually, ManualCompactionGoesOn, ManualCompactionEnds,
       OpenPicker, ClosePicker, Render, Clear, Switch, Delete, turns
  <2> QED BY <1>1, <1>2, <2>1, PromptsStay
<1> QED BY <1>1, <1>3, <1>4, <1>5, <1>6, <1>7, <1>8, <1>9, <1>10 DEF Next, LoopGoesOn

\* Typed prompts reach the engine once each and in the order they were typed: no end
\* of a turn, compaction, follow-up, interruption or session change loses, repeats or
\* moves one (enqueueQueuedSubmittedPrompt, dequeueQueuedSubmittedPrompt).
THEOREM PromptsInOrder == Spec => []PromptsKeepTheirOrder
<1>1. Init => PromptInv
  <2>1. SUFFICES ASSUME Init PROVE PromptInv
    OBVIOUS
  <2>2. started = <<>> /\ queue = <<>> /\ typed = 0
    BY <2>1 DEF Init
  <2>3. started \o queue = <<>> /\ Len(<<>>) = 0 /\ ToSet(<<>>) = {}
    BY <2>2 DEF ToSet
  <2>4. 1 .. 0 = {} /\ [p \in 1 .. 0 |-> p] = <<>>
    OBVIOUS
  <2> QED BY <2>2, <2>3, <2>4 DEF PromptInv, PromptsKeepTheirOrder, TakerInv
<1>2. PromptInv => PromptsKeepTheirOrder
  BY DEF PromptInv
<1> QED BY InitInv, StepInv, StepPrompts, <1>1, <1>2, PTL DEF Spec
=============================================================================
