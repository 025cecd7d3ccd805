------------------------- MODULE SessionStore_proofs -------------------------
(***************************************************************************)
(* Theorems about SessionStore for any number of processes, sessions,      *)
(* turns and faults.                                                       *)
(***************************************************************************)
EXTENDS SessionStore, HistoryProjection_proofs

USE NoSessionAssumption, BoundsAssumption

InTurn == {"prompt", "open", "closing", "recovering"}

\* A process in a turn runs one that was begun, any other process none.
TurnInv ==
    \A p \in Processes :
        IF pc[p] \in InTurn THEN attempt[p].turn \in 1 .. turns ELSE attempt[p] = NoAttempt

\* The entries session s may have: of turns 1 .. n begun in it, or of no turn.
Known(s, n, begun) == {e \in EntriesOfTurns : e.turn <= n /\ (e.turn # 0 => begun[e.turn] = s)}

\* Entries are where they belong, also those a recovery may go back to, and a
\* process appends to the session in which its turn was begun.
HomeInv ==
    /\ \A s \in Sessions : stored[s] \in Seq(Known(s, turns, home))
    /\ \A p \in Processes :
        /\ memory[p] \in Seq(Known(target[p], turns, home))
        /\ attempt[p].snapshot \in Seq(Known(target[p], turns, home))
        /\ pc[p] \in InTurn => home[attempt[p].turn] = target[p]
        /\ pc[p] \in {"down", "loading"} => memory[p] = <<>>

Inv == TypeOK /\ TurnInv /\ HomeInv

-----------------------------------------------------------------------------
(* The rows of the database.                                               *)

\* Taking a row out leaves the others, each once.
LEMMA OtherRowsProperties ==
    ASSUME NEW S, live \in Seq(S), IsInjective(live), NEW s, IsLive(s)
    PROVE  /\ OtherRows(s) \in Seq(S)
           /\ IsInjective(OtherRows(s))
           /\ ToSet(OtherRows(s)) = ToSet(live) \ {s}
<1> DEFINE i == CHOOSE j \in DOMAIN live : live[j] = s
           a == SubSeq(live, 1, i - 1)
           b == SubSeq(live, i + 1, Len(live))
           c == a \o b
<1>1. i \in 1 .. Len(live) /\ live[i] = s
  BY DEF IsLive, ToSet
<1> HIDE DEF i
<1>2. Len(live) \in Nat /\ \A j \in 1 .. Len(live) : live[j] \in S
  OBVIOUS
<1>3. a \in Seq(S) /\ Len(a) = i - 1 /\ \A j \in 1 .. i - 1 : a[j] = live[j]
  BY <1>1, <1>2
<1>4. b \in Seq(S) /\ Len(b) = Len(live) - i /\ \A j \in 1 .. Len(live) - i : b[j] = live[i + j]
  BY <1>1, <1>2
<1> HIDE DEF a, b
<1>5. /\ c \in Seq(S)
      /\ Len(c) = Len(a) + Len(b)
      /\ \A j \in 1 .. Len(a) + Len(b) : c[j] = IF j <= Len(a) THEN a[j] ELSE b[j - Len(a)]
  BY <1>3, <1>4, ConcatProperties
<1>6. Len(c) = Len(live) - 1 /\ \A j \in 1 .. Len(c) : c[j] = IF j < i THEN live[j] ELSE live[j + 1]
  <2>1. Len(c) = Len(live) - 1
    BY <1>1, <1>2, <1>3, <1>4, <1>5
  <2>2. ASSUME NEW j \in 1 .. Len(c) PROVE c[j] = IF j < i THEN live[j] ELSE live[j + 1]
    <3>1. CASE j < i
      BY <3>1, <1>1, <1>2, <1>3, <1>5
    <3>2. CASE ~(j < i)
      <4>1. c[j] = b[j - (i - 1)] /\ j - (i - 1) \in 1 .. Len(live) - i
        BY <3>2, <1>1, <1>2, <1>3, <1>5, <2>1
      <4>2. b[j - (i - 1)] = live[i + (j - (i - 1))] /\ i + (j - (i - 1)) = j + 1
        BY <4>1, <1>1, <1>2, <1>4
      <4> QED BY <4>1, <4>2, <3>2
    <3> QED BY <3>1, <3>2
  <2> QED BY <2>1, <2>2
<1> HIDE DEF c
<1>7. IsInjective(c)
  <2>1. DOMAIN c = 1 .. Len(c)
    BY <1>5
  <2>2. ASSUME NEW j \in 1 .. Len(c), NEW k \in 1 .. Len(c), c[j] = c[k] PROVE j = k
    <3> DEFINE Old(n) == IF n < i THEN n ELSE n + 1
    <3>1. \A n \in 1 .. Len(c) : Old(n) \in 1 .. Len(live) /\ c[n] = live[Old(n)]
      BY <1>1, <1>2, <1>6
    <3>2. Old(j) = Old(k)
      <4> HIDE DEF Old
      <4> QED BY <2>2, <3>1 DEF IsInjective
    <3> QED BY <3>2, <1>1, <1>2, <1>6
  <2> QED BY <2>1, <2>2 DEF IsInjective
<1>8. ToSet(c) = ToSet(live) \ {s}
  <2>1. DOMAIN c = 1 .. Len(c) /\ DOMAIN live = 1 .. Len(live)
    BY <1>5
  <2>2. ASSUME NEW j \in 1 .. Len(c) PROVE c[j] \in ToSet(live) \ {s}
    <3> DEFINE k == IF j < i THEN j ELSE j + 1
    <3>1. k \in 1 .. Len(live) /\ k # i /\ c[j] = live[k]
      BY <1>1, <1>2, <1>6
    <3> HIDE DEF k
    <3>2. live[k] # live[i]
      BY <1>1, <1>2, <2>1, <3>1 DEF IsInjective
    <3> QED BY <1>1, <1>2, <2>1, <3>1, <3>2 DEF ToSet
  <2>3. ASSUME NEW j \in 1 .. Len(live), live[j] # s PROVE live[j] \in ToSet(c)
    <3>1. CASE j < i
      BY <3>1, <1>1, <1>2, <1>6, <2>1 DEF ToSet
    <3>2. CASE ~(j < i)
      <4>1. j - 1 \in 1 .. Len(c) /\ ~(j - 1 < i)
        BY <3>2, <2>3, <1>1, <1>2, <1>6
      <4>2. c[j - 1] = live[j - 1 + 1] /\ j - 1 + 1 = j
        BY <4>1, <1>6
      <4> QED BY <4>1, <4>2, <2>1 DEF ToSet
    <3> QED BY <3>1, <3>2
  <2> QED BY <2>1, <2>2, <2>3 DEF ToSet
<1>9. OtherRows(s) = c
  BY DEF OtherRows, RemoveAt, i, a, b, c
<1> QED BY <1>5, <1>7, <1>8, <1>9

\* Putting a row at the end that is not among the rows.
LEMMA AppendRow ==
    ASSUME NEW S, NEW rows \in Seq(S), IsInjective(rows), NEW s \in S, s \notin ToSet(rows)
    PROVE  /\ Append(rows, s) \in Seq(S)
           /\ IsInjective(Append(rows, s))
           /\ ToSet(Append(rows, s)) = ToSet(rows) \union {s}
           /\ Append(rows, s) # <<>>
<1> DEFINE r == Append(rows, s)
<1>1. r \in Seq(S) /\ Len(r) = Len(rows) + 1 /\ DOMAIN r = 1 .. Len(r) /\ DOMAIN rows = 1 .. Len(rows)
  OBVIOUS
<1>2. r[Len(r)] = s /\ \A j \in 1 .. Len(rows) : r[j] = rows[j]
  OBVIOUS
<1> HIDE DEF r
<1>3. Len(rows) \in Nat
  OBVIOUS
<1>4. \A j \in 1 .. Len(rows) : rows[j] # s
  BY <1>1 DEF ToSet
<1>5. IsInjective(r)
  <2> SUFFICES ASSUME NEW j \in 1 .. Len(r), NEW k \in 1 .. Len(r), r[j] = r[k] PROVE j = k
    BY <1>1 DEF IsInjective
  <2>1. CASE j = Len(r)
    BY <2>1, <1>1, <1>2, <1>3, <1>4
  <2>2. CASE k = Len(r)
    BY <2>2, <1>1, <1>2, <1>3, <1>4
  <2>3. CASE j # Len(r) /\ k # Len(r)
    <3>1. j \in 1 .. Len(rows) /\ k \in 1 .. Len(rows)
      BY <2>3, <1>1, <1>3
    <3> QED BY <3>1, <1>1, <1>2 DEF IsInjective
  <2> QED BY <2>1, <2>2, <2>3
<1>6. ToSet(r) = ToSet(rows) \union {s}
  <2>1. \A j \in 1 .. Len(r) : r[j] \in ToSet(rows) \union {s}
    <3> TAKE j \in 1 .. Len(r)
    <3>1. CASE j = Len(r)
      BY <3>1, <1>2
    <3>2. CASE j # Len(r)
      <4>1. j \in 1 .. Len(rows)
        BY <3>2, <1>1, <1>3
      <4> QED BY <4>1, <1>1, <1>2 DEF ToSet
    <3> QED BY <3>1, <3>2
  <2>2. s \in ToSet(r)
    <3>1. Len(r) \in DOMAIN r
      BY <1>1, <1>3
    <3> QED BY <3>1, <1>2 DEF ToSet
  <2>3. \A j \in 1 .. Len(rows) : rows[j] \in ToSet(r)
    <3> TAKE j \in 1 .. Len(rows)
    <3>1. j \in DOMAIN r
      BY <1>1, <1>3
    <3> QED BY <3>1, <1>2 DEF ToSet
  <2> QED BY <1>1, <2>1, <2>2, <2>3 DEF ToSet
<1>7. r # <<>>
  BY <1>1, <1>3
<1> QED BY <1>1, <1>5, <1>6, <1>7 DEF r

Rows ==
    /\ live \in Seq(born)
    /\ IsInjective(live)
    /\ active \in IF live = <<>> THEN {NoSession} ELSE ToSet(live)
    /\ born \subseteq Sessions

LEMMA StoreKeepsRows ==
    ASSUME Rows, NEW s, IsLive(s), live' = Append(OtherRows(s), s), UNCHANGED <<active, born>>
    PROVE  Rows'
<1> DEFINE rows == OtherRows(s)
<1>1. rows \in Seq(born) /\ IsInjective(rows) /\ ToSet(rows) = ToSet(live) \ {s}
  BY OtherRowsProperties DEF Rows
<1>2. s \in born /\ live # <<>>
  BY DEF Rows, IsLive, ToSet
<1> HIDE DEF rows
<1>3. /\ Append(rows, s) \in Seq(born)
      /\ IsInjective(Append(rows, s))
      /\ ToSet(Append(rows, s)) = ToSet(rows) \union {s}
      /\ Append(rows, s) # <<>>
  BY <1>1, <1>2, AppendRow
<1>4. ToSet(live') = ToSet(live) /\ live' # <<>>
  BY <1>1, <1>3 DEF rows, IsLive
<1>5. live' \in Seq(born) /\ IsInjective(live')
  BY <1>3 DEF rows
<1> QED BY <1>2, <1>4, <1>5 DEF Rows

LEMMA CreateKeepsRows ==
    ASSUME Rows, NEW rows \in Seq(born), IsInjective(rows), NEW s, CreateSession(s, rows)
    PROVE  Rows' /\ active' \in Sessions
<1>1. s \in Sessions \ born /\ born' = born \union {s} /\ live' = Append(rows, s) /\ active' = s
  BY DEF CreateSession
<1>2. rows \in Seq(born') /\ s \in born' /\ s \notin ToSet(rows)
  BY <1>1 DEF ToSet
<1>3. live' \in Seq(born') /\ IsInjective(live') /\ ToSet(live') = ToSet(rows) \union {s} /\ live' # <<>>
  BY <1>1, <1>2, AppendRow
<1> QED BY <1>1, <1>3 DEF Rows

\* The database keeps its shape when a session is deleted, and some session is active.
LEMMA DeleteKeepsRows ==
    ASSUME Rows, NEW p \in Processes, NEW s, DeleteSession(p, s)
    PROVE  Rows' /\ active' \in Sessions
<1> DEFINE rows == OtherRows(s)
<1>1. IsLive(s)
  BY DEF DeleteSession
<1>2. rows \in Seq(born) /\ IsInjective(rows) /\ ToSet(rows) = ToSet(live) \ {s}
  BY <1>1, OtherRowsProperties DEF Rows
<1>3. active \in ToSet(live) /\ live # <<>> /\ ToSet(live) \subseteq Sessions
  BY <1>1 DEF Rows, IsLive, ToSet
<1>4. CASE active # s /\ live' = rows /\ UNCHANGED <<active, born>>
  <2>1. active \in ToSet(rows)
    BY <1>2, <1>3, <1>4
  <2>2. rows # <<>>
    BY <2>1 DEF ToSet
  <2> HIDE DEF rows
  <2> QED BY <1>2, <1>3, <1>4, <2>1, <2>2 DEF Rows
<1>5. CASE rows # <<>> /\ live' = rows /\ active' = Last(rows) /\ UNCHANGED born
  <2> HIDE DEF rows
  <2>1. Len(rows) \in DOMAIN rows
    BY <1>2, <1>5
  <2>2. Last(rows) \in ToSet(rows)
    BY <2>1 DEF Last, ToSet
  <2> QED BY <1>2, <1>3, <1>5, <2>2 DEF Rows
<1>6. CASE \E new \in Sessions : CreateSession(new, rows)
  <2> HIDE DEF rows
  <2> QED BY <1>2, <1>6, CreateKeepsRows
<1> QED BY <1>4, <1>5, <1>6 DEF DeleteSession

-----------------------------------------------------------------------------
(* Entries.                                                                *)

Attempts == [turn : Turns \union {0}, snapshot : Seq(EntriesOfTurns),
             recorded : BOOLEAN, retried : BOOLEAN]

Places == {"down", "loading", "idle"} \union InTurn

\* What belongs to a session still does when further turns have begun.
LEMMA KnownStays ==
    ASSUME turns \in 0 .. MaxTurns, turns' \in Nat, turns <= turns',
           \A t \in 1 .. turns : home'[t] = home[t]
    PROVE  \A s : \A entries \in Seq(Known(s, turns, home)) : entries \in Seq(Known(s, turns', home'))
<1>1. ASSUME NEW s PROVE Known(s, turns, home) \subseteq Known(s, turns', home')
  <2> SUFFICES ASSUME NEW e \in EntriesOfTurns, e.turn <= turns, e.turn # 0 => home[e.turn] = s
               PROVE  e.turn <= turns' /\ (e.turn # 0 => home'[e.turn] = s)
    BY DEF Known, EntriesOfTurns, Turns
  <2>1. e.turn \in Nat
    BY DEF EntriesOfTurns, Turns
  <2> QED BY <2>1
<1>2. TAKE s
<1>3. TAKE entries \in Seq(Known(s, turns, home))
<1>4. Known(s, turns, home) \subseteq Known(s, turns', home')
  BY <1>1
<1> QED BY <1>4, SeqMonotonic

LEMMA KnownTypes ==
    \A s, n, begun : \A entries \in Seq(Known(s, n, begun)) : entries \in Seq(EntriesOfTurns)
<1>1. TAKE s, n, begun
<1>2. TAKE entries \in Seq(Known(s, n, begun))
<1>3. Known(s, n, begun) \subseteq EntriesOfTurns
  BY DEF Known
<1> QED BY <1>3, SeqMonotonic

\* Appending an entry of the process's turn, or of none, and going on.
LEMMA RecordKeepsInv ==
    ASSUME Inv, NEW p \in Processes, pc[p] \in InTurn \union {"idle"},
           NEW e \in Known(target[p], turns', home'), NEW next, NEW a, NEW error, Record(p, e, next, a, error),
           home' = home, turns' \in turns .. MaxTurns,
           next \in InTurn \union {"idle"}, error \in InTurn \union {"idle"},
           next \in InTurn => /\ a \in Attempts /\ a.turn = attempt[p].turn
                              /\ a.snapshot \in Seq(Known(target[p], turns, home))
                              /\ pc[p] \in InTurn,
           error \in InTurn => pc[p] \in InTurn
    PROVE  Inv'
<1> USE DEF Inv
<1>0. turns \in 0 .. MaxTurns /\ turns' \in Nat /\ turns <= turns' /\ MaxTurns \in Nat
  BY DEF TypeOK
<1>1. \A s : \A entries \in Seq(Known(s, turns, home)) : entries \in Seq(Known(s, turns', home'))
  BY <1>0, KnownStays
<1>2. /\ memory' = [memory EXCEPT ![p] = Append(@, e)] /\ target' = target
      /\ \/ Store(p, e) /\ Goto(p, next, a)
         \/ StoreFails(p) /\ Goto(p, error, attempt[p])
  BY DEF Record
<1>3. Append(memory[p], e) \in Seq(Known(target[p], turns', home'))
  BY <1>1, <1>2 DEF HomeInv
<1>4. Rows' /\ faults' \in 0 .. MaxFaults /\ clean' \in [Processes -> BOOLEAN]
  <2>1. Rows
    BY DEF TypeOK, Rows
  <2>2. CASE Store(p, e)
    <3>1. Rows'
      BY <2>1, <2>2, StoreKeepsRows DEF Store, StoreIn
    <3> QED BY <2>2, <3>1 DEF Store, StoreIn, TypeOK
  <2>3. CASE StoreFails(p)
    <3>1. Rows'
      BY <2>1, <2>3 DEF StoreFails, database, Rows
    <3>2. faults' \in 0 .. MaxFaults
      BY <2>3 DEF StoreFails, TypeOK
    <3> QED BY <2>3, <3>1, <3>2 DEF StoreFails, TypeOK
  <2> QED BY <1>2, <2>2, <2>3
<1>5. ASSUME NEW s \in Sessions PROVE stored'[s] \in Seq(Known(s, turns', home'))
  <2>1. stored[s] \in Seq(Known(s, turns', home'))
    BY <1>1 DEF HomeInv
  <2>2. CASE Store(p, e)
    <3>1. stored' = [stored EXCEPT ![target[p]] = Append(@, e)] /\ stored \in [Sessions -> Seq(EntriesOfTurns)]
      BY <2>2 DEF Store, StoreIn, TypeOK
    <3>2. CASE s = target[p]
      <4>1. stored'[s] = Append(stored[s], e) /\ e \in Known(s, turns', home')
        BY <3>1, <3>2, <1>2
      <4> QED BY <2>1, <4>1
    <3>3. CASE s # target[p]
      BY <2>1, <3>1, <3>3
    <3> QED BY <3>2, <3>3
  <2>3. CASE StoreFails(p)
    BY <2>1, <2>3 DEF StoreFails, database
  <2> QED BY <1>2, <2>2, <2>3
<1>6. DOMAIN stored' = Sessions /\ stored' = [s \in Sessions |-> stored'[s]]
  BY <1>2 DEF TypeOK, Store, StoreIn, StoreFails, database
<1>7. stored' \in [Sessions -> Seq(EntriesOfTurns)]
  <2>1. \A s \in Sessions : stored'[s] \in Seq(EntriesOfTurns)
    BY <1>5, KnownTypes
  <2> QED BY <1>6, <2>1
<1>8. ASSUME NEW q \in Processes, q # p
      PROVE  /\ memory'[q] = memory[q] /\ pc'[q] = pc[q] /\ attempt'[q] = attempt[q]
             /\ memory[q] \in Seq(Known(target[q], turns', home'))
             /\ attempt[q].snapshot \in Seq(Known(target[q], turns', home'))
  BY <1>1, <1>2, <1>8 DEF HomeInv, Goto, TypeOK
<1>9. /\ pc' \in [Processes -> Places] /\ attempt' \in [Processes -> Attempts]
      /\ memory' \in [Processes -> Seq(EntriesOfTurns)]
  <2>1. /\ pc \in [Processes -> Places] /\ attempt \in [Processes -> Attempts]
        /\ memory \in [Processes -> Seq(EntriesOfTurns)] /\ NoAttempt \in Attempts
    BY EmptySeq DEF TypeOK, Places, InTurn, Attempts, NoAttempt, Turns
  <2>2. attempt[p] \in Attempts /\ next \in Places /\ error \in Places
    BY <2>1 DEF Places
  <2>3. e \in EntriesOfTurns
    BY DEF Known
  <2>4. memory' \in [Processes -> Seq(EntriesOfTurns)]
    BY <1>2, <2>1, <2>3
  <2>5. pc' \in [Processes -> Places]
    BY <1>2, <2>1, <2>2 DEF Goto
  <2>6. ASSUME NEW l, NEW b, l \in InTurn => b \in Attempts, l \in InTurn \union {"idle"}, Goto(p, l, b)
        PROVE  attempt' \in [Processes -> Attempts]
    BY <2>1, <2>6 DEF Goto, InTurn
  <2>7. attempt' \in [Processes -> Attempts]
    BY <1>2, <2>2, <2>6
  <2> QED BY <2>4, <2>5, <2>7
<1>10. /\ memory'[p] \in Seq(Known(target[p], turns', home'))
       /\ pc'[p] \in InTurn \union {"idle"}
       /\ IF pc'[p] \in InTurn THEN pc[p] \in InTurn /\ attempt'[p].turn = attempt[p].turn
                               ELSE attempt'[p] = NoAttempt
       /\ attempt'[p].snapshot \in Seq(Known(target[p], turns', home'))
  <2>1. memory'[p] \in Seq(Known(target[p], turns', home'))
    BY <1>2, <1>3 DEF TypeOK
  <2>2. ASSUME NEW l, NEW b, Goto(p, l, b), l \in InTurn \union {"idle"},
               l \in InTurn => /\ b.turn = attempt[p].turn /\ pc[p] \in InTurn
                               /\ b.snapshot \in Seq(Known(target[p], turns, home))
        PROVE  /\ pc'[p] \in InTurn \union {"idle"}
               /\ IF pc'[p] \in InTurn THEN pc[p] \in InTurn /\ attempt'[p].turn = attempt[p].turn
                                       ELSE attempt'[p] = NoAttempt
               /\ attempt'[p].snapshot \in Seq(Known(target[p], turns', home'))
    <3>1. pc'[p] = l /\ attempt'[p] = IF l = "idle" THEN NoAttempt ELSE b
      BY <2>2 DEF Goto, TypeOK
    <3>2. NoAttempt.snapshot = <<>> /\ <<>> \in Seq(Known(target[p], turns', home'))
      BY EmptySeq DEF NoAttempt
    <3>3. "idle" \notin InTurn
      BY DEF InTurn
    <3> QED BY <1>1, <2>2, <3>1, <3>2, <3>3
  <2>3. attempt[p].snapshot \in Seq(Known(target[p], turns, home))
    BY DEF HomeInv
  <2> QED BY <1>2, <2>1, <2>2, <2>3
<1>11. TypeOK'
  BY <1>0, <1>2, <1>4, <1>7, <1>9 DEF TypeOK, Rows, Places, InTurn, Attempts
<1>12. TurnInv'
  <2> SUFFICES ASSUME NEW q \in Processes
               PROVE  IF pc'[q] \in InTurn THEN attempt'[q].turn \in 1 .. turns' ELSE attempt'[q] = NoAttempt
    BY DEF TurnInv
  <2>1. IF pc[q] \in InTurn THEN attempt[q].turn \in 1 .. turns ELSE attempt[q] = NoAttempt
    BY DEF TurnInv
  <2> QED BY <1>0, <1>8, <1>10, <2>1
<1>13. HomeInv'
  <2> SUFFICES ASSUME NEW q \in Processes
               PROVE  /\ memory'[q] \in Seq(Known(target'[q], turns', home'))
                      /\ attempt'[q].snapshot \in Seq(Known(target'[q], turns', home'))
                      /\ pc'[q] \in InTurn => home'[attempt'[q].turn] = target'[q]
                      /\ pc'[q] \in {"down", "loading"} => memory'[q] = <<>>
    BY <1>5 DEF HomeInv
  <2>1. /\ pc[q] \in InTurn => home[attempt[q].turn] = target[q]
        /\ pc[q] \in {"down", "loading"} => memory[q] = <<>>
    BY DEF HomeInv
  <2>2. pc'[p] \notin {"down", "loading"}
    BY <1>10 DEF InTurn
  <2> QED BY <1>2, <1>8, <1>10, <2>1, <2>2
<1> QED BY <1>11, <1>12, <1>13

Kinds == {"user_prompt", "tool_call", "tool_result", "completed", "failed", "compaction_summary"}

\* The entries a turn appends are of the session it was begun in; a summary is
\* of any.
LEMMA OwnEntries ==
    ASSUME Inv, NEW p \in Processes, pc[p] \in InTurn, NEW k \in Kinds, NEW c \in {0, Call(p)}
    PROVE  Entry(attempt[p].turn, k, c) \in Known(target[p], turns, home)
<1>1. attempt[p].turn \in 1 .. turns /\ home[attempt[p].turn] = target[p]
  BY DEF Inv, TurnInv, HomeInv
<1>2. turns \in 0 .. MaxTurns /\ attempt[p].turn \in Turns /\ MaxTurns \in Nat
  BY <1>1 DEF Inv, TypeOK, Turns
<1>3. c \in -MaxTurns .. MaxTurns
  BY <1>2 DEF Call, Turns
<1>4. Entry(attempt[p].turn, k, c) \in EntriesOfTurns
  BY <1>2, <1>3 DEF Entry, EntriesOfTurns, Kinds
<1> QED BY <1>1, <1>4 DEF Known, Entry

LEMMA SummaryBelongs == \A s, begun : \A n \in Nat : Summary \in Known(s, n, begun)
<1>1. Summary \in EntriesOfTurns
  BY DEF Summary, Entry, EntriesOfTurns
<1>2. Summary.turn = 0
  BY DEF Summary, Entry
<1> QED BY <1>1, <1>2 DEF Known

-----------------------------------------------------------------------------
(* Actions.                                                                *)

\* A process goes over to a session: one it shows, or one it has just made.
LEMMA EnterKeepsInv ==
    ASSUME Inv, NEW p \in Processes, pc[p] = "idle", NEW s \in Sessions, Enter(p, s), Rows',
           stored' \in [Sessions -> Seq(EntriesOfTurns)],
           \A r \in Sessions : stored'[r] \in Seq(Known(r, turns, home))
    PROVE  Inv'
<1> USE DEF Inv
<1>1. /\ target' = [target EXCEPT ![p] = s] /\ memory' = [memory EXCEPT ![p] = stored'[s]]
      /\ clean' = [clean EXCEPT ![p] = TRUE] /\ UNCHANGED <<attempt, ledger, pc>>
  BY DEF Enter
<1>2. TypeOK'
  BY <1>1 DEF TypeOK, Rows, ledger
<1>3. TurnInv'
  BY <1>1 DEF TurnInv, ledger
<1>4. HomeInv'
  <2> SUFFICES ASSUME NEW q \in Processes
               PROVE  /\ memory'[q] \in Seq(Known(target'[q], turns, home))
                      /\ attempt[q].snapshot \in Seq(Known(target'[q], turns, home))
                      /\ pc[q] \in InTurn => home[attempt[q].turn] = target'[q]
                      /\ pc[q] \in {"down", "loading"} => memory'[q] = <<>>
    BY <1>1 DEF HomeInv, ledger
  <2>1. CASE q = p
    <3>1. attempt[p] = NoAttempt /\ NoAttempt.snapshot = <<>> /\ pc[p] \notin InTurn
      BY DEF TurnInv, NoAttempt, InTurn
    <3>2. memory'[p] = stored'[s] /\ target'[p] = s
      BY <1>1 DEF TypeOK
    <3> QED BY <2>1, <3>1, <3>2, EmptySeq
  <2>2. CASE q # p
    BY <1>1, <2>2 DEF HomeInv, TypeOK
  <2> QED BY <2>1, <2>2
<1> QED BY <1>2, <1>3, <1>4

\* The process stays where it is in its turn, or leaves it.
LEMMA GotoKeepsInv ==
    ASSUME Inv, NEW p \in Processes, pc[p] \in InTurn, NEW l, Goto(p, l, attempt[p]),
           l \in {"closing", "idle"}, UNCHANGED <<database, ledger, target, memory, clean>>
    PROVE  Inv'
<1> USE DEF Inv
<1>1. TypeOK'
  BY EmptySeq DEF TypeOK, Goto, NoAttempt, Turns, database, ledger
<1>2. TurnInv'
  BY DEF TurnInv, Goto, TypeOK, InTurn, ledger
<1>3. HomeInv'
  <2> SUFFICES ASSUME NEW q \in Processes
               PROVE  /\ attempt'[q].snapshot \in Seq(Known(target[q], turns, home))
                      /\ pc'[q] \in InTurn => home[attempt'[q].turn] = target[q]
                      /\ pc'[q] \in {"down", "loading"} => memory[q] = <<>>
    BY DEF HomeInv, database, ledger
  <2>1. NoAttempt.snapshot = <<>> /\ <<>> \in Seq(Known(target[q], turns, home))
    BY EmptySeq DEF NoAttempt
  <2> QED BY <2>1 DEF HomeInv, Goto, TypeOK, InTurn
<1> QED BY <1>1, <1>2, <1>3

LEMMA BeginTurnKeepsInv ==
    ASSUME Inv, NEW p \in Processes, BeginTurn(p)
    PROVE  Inv'
<1> USE DEF Inv
<1> DEFINE a == [NoAttempt EXCEPT !.turn = turns + 1, !.snapshot = memory[p]]
<1>1. /\ pc[p] = "idle" /\ turns < MaxTurns /\ turns' = turns + 1
      /\ home' = [home EXCEPT ![turns + 1] = target[p]]
      /\ pc' = [pc EXCEPT ![p] = "prompt"] /\ attempt' = [attempt EXCEPT ![p] = a]
      /\ UNCHANGED <<database, target, memory, clean, faults>>
  BY DEF BeginTurn, Goto
<1>2. turns + 1 \in Turns /\ turns \in 0 .. MaxTurns /\ MaxTurns \in Nat
  BY <1>1 DEF TypeOK, Turns
<1>3. a.turn = turns + 1 /\ a.snapshot = memory[p] /\ a \in Attempts
  BY <1>2 DEF NoAttempt, Attempts, TypeOK
<1> HIDE DEF a
<1>4. home'[turns + 1] = target[p] /\ \A t \in 1 .. turns : home'[t] = home[t]
  BY <1>1, <1>2 DEF TypeOK, Turns
<1>5. \A s : \A entries \in Seq(Known(s, turns, home)) : entries \in Seq(Known(s, turns', home'))
  <2>1. turns' \in Nat /\ turns <= turns'
    BY <1>1, <1>2
  <2>2. turns \in 0 .. MaxTurns
    BY <1>2
  <2> QED BY <1>4, <2>1, <2>2, KnownStays
<1>6. TypeOK'
  BY <1>1, <1>2, <1>3 DEF TypeOK, database, Attempts
<1>7. TurnInv'
  BY <1>1, <1>2, <1>3 DEF TurnInv, TypeOK, InTurn
<1>8. HomeInv'
  <2>1. \A s \in Sessions : stored'[s] \in Seq(Known(s, turns', home'))
    BY <1>1, <1>5 DEF HomeInv, database
  <2> SUFFICES ASSUME NEW q \in Processes
               PROVE  /\ memory[q] \in Seq(Known(target[q], turns', home'))
                      /\ attempt'[q].snapshot \in Seq(Known(target[q], turns', home'))
                      /\ pc'[q] \in InTurn => home'[attempt'[q].turn] = target[q]
                      /\ pc'[q] \in {"down", "loading"} => memory[q] = <<>>
    BY <1>1, <2>1 DEF HomeInv
  <2>2. memory[q] \in Seq(Known(target[q], turns', home'))
    BY <1>5 DEF HomeInv
  <2>3. CASE q = p
    BY <1>1, <1>3, <1>4, <2>2, <2>3 DEF TypeOK
  <2>4. CASE q # p
    <3>1. pc'[q] = pc[q] /\ attempt'[q] = attempt[q]
      BY <1>1, <2>4 DEF TypeOK
    <3>2. attempt[q].snapshot \in Seq(Known(target[q], turns', home'))
      BY <1>5 DEF HomeInv
    <3>3. pc[q] \in InTurn => home'[attempt[q].turn] = target[q]
      BY <1>4 DEF HomeInv, TurnInv
    <3> QED BY <2>2, <3>1, <3>2, <3>3 DEF HomeInv
  <2> QED BY <2>3, <2>4
<1> QED BY <1>6, <1>7, <1>8

LEMMA OverflowKeepsInv ==
    ASSUME Inv, NEW p \in Processes, Overflow(p)
    PROVE  Inv'
<1> USE DEF Inv
<1> DEFINE a == [attempt[p] EXCEPT !.recorded = FALSE, !.retried = TRUE, !.snapshot = <<>>]
<1>1. /\ pc[p] = "open" /\ memory' = [memory EXCEPT ![p] = attempt[p].snapshot]
      /\ pc' = [pc EXCEPT ![p] = "recovering"] /\ attempt' = [attempt EXCEPT ![p] = a]
      /\ UNCHANGED <<database, ledger, target, clean>>
  BY DEF Overflow, OverflowWith, Goto
<1>2. attempt[p] \in Attempts
  BY DEF TypeOK, Attempts
<1>3. a \in Attempts /\ a.turn = attempt[p].turn /\ a.snapshot = <<>>
  BY <1>2, EmptySeq DEF Attempts
<1> HIDE DEF a
<1>4. TypeOK'
  BY <1>1, <1>3 DEF TypeOK, database, ledger, Attempts
<1>5. TurnInv'
  BY <1>1, <1>3 DEF TurnInv, TypeOK, InTurn, ledger
<1>6. HomeInv'
  <2> SUFFICES ASSUME NEW q \in Processes
               PROVE  /\ memory'[q] \in Seq(Known(target[q], turns, home))
                      /\ attempt'[q].snapshot \in Seq(Known(target[q], turns, home))
                      /\ pc'[q] \in InTurn => home[attempt'[q].turn] = target[q]
                      /\ pc'[q] \in {"down", "loading"} => memory'[q] = <<>>
    BY <1>1 DEF HomeInv, database, ledger
  <2>1. CASE q = p
    <3>1. <<>> \in Seq(Known(target[p], turns, home))
      BY EmptySeq
    <3> QED BY <1>1, <1>3, <2>1, <3>1 DEF HomeInv, TypeOK, InTurn
  <2>2. CASE q # p
    BY <1>1, <2>2 DEF HomeInv, TypeOK
  <2> QED BY <2>1, <2>2
<1> QED BY <1>4, <1>5, <1>6

LEMMA CrashKeepsInv ==
    ASSUME Inv, NEW p \in Processes, Crash(p)
    PROVE  Inv'
<1> USE DEF Inv
<1>1. \A s : <<>> \in Seq(Known(s, turns, home)) /\ NoAttempt.snapshot = <<>>
  BY EmptySeq DEF NoAttempt
<1>2. TypeOK'
  BY EmptySeq DEF TypeOK, Crash, database, NoAttempt, Turns
<1>3. TurnInv'
  BY DEF TurnInv, Crash, TypeOK, InTurn
<1>4. HomeInv'
  <2> SUFFICES ASSUME NEW q \in Processes
               PROVE  /\ memory'[q] \in Seq(Known(target'[q], turns, home))
                      /\ attempt'[q].snapshot \in Seq(Known(target'[q], turns, home))
                      /\ pc'[q] \in InTurn => home[attempt'[q].turn] = target'[q]
                      /\ pc'[q] \in {"down", "loading"} => memory'[q] = <<>>
    BY DEF HomeInv, Crash, database
  <2>1. CASE q = p
    <3>1. memory'[q] = <<>> /\ attempt'[q] = NoAttempt /\ pc'[q] = "down"
      BY <2>1 DEF Crash, TypeOK
    <3> HIDE DEF Inv
    <3> QED BY <1>1, <3>1 DEF InTurn
  <2>2. CASE q # p
    <3>1. memory'[q] = memory[q] /\ attempt'[q] = attempt[q] /\ pc'[q] = pc[q] /\ target'[q] = target[q]
      BY <2>2 DEF Crash, TypeOK
    <3> QED BY <3>1 DEF HomeInv
  <2> QED BY <2>1, <2>2
<1> QED BY <1>2, <1>3, <1>4

LEMMA OpenKeepsInv ==
    ASSUME Inv, NEW p \in Processes, Open(p)
    PROVE  Inv'
<1> USE DEF Inv
<1>1. Rows
  BY DEF TypeOK, Rows
<1>2. Rows' /\ active' \in Sessions /\ stored' = stored
  <2>1. CASE active # NoSession /\ UNCHANGED database
    <3>1. Rows' /\ stored' = stored /\ active' = active
      BY <1>1, <2>1 DEF Rows, database
    <3>2. active \in Sessions
      BY <1>1, <2>1 DEF Rows, ToSet
    <3> QED BY <3>1, <3>2
  <2>2. CASE (\E s \in Sessions : CreateSession(s, live)) /\ UNCHANGED stored
    <3>1. live \in Seq(born) /\ IsInjective(live)
      BY <1>1 DEF Rows
    <3> QED BY <1>1, <2>2, <3>1, CreateKeepsRows
  <2> QED BY <2>1, <2>2 DEF Open
<1>3. /\ pc[p] = "down" /\ \E l \in {"idle", "loading"} : pc' = [pc EXCEPT ![p] = l]
      /\ target' = [target EXCEPT ![p] = active'] /\ clean' = [clean EXCEPT ![p] = TRUE]
      /\ UNCHANGED <<attempt, ledger, memory>>
  BY DEF Open
<1>4. TypeOK'
  BY <1>2, <1>3 DEF TypeOK, Rows, ledger
<1>5. TurnInv'
  BY <1>3 DEF TurnInv, TypeOK, InTurn, ledger
<1>6. HomeInv'
  <2> SUFFICES ASSUME NEW q \in Processes
               PROVE  /\ memory[q] \in Seq(Known(target'[q], turns, home))
                      /\ attempt[q].snapshot \in Seq(Known(target'[q], turns, home))
                      /\ pc'[q] \in InTurn => home[attempt[q].turn] = target'[q]
                      /\ pc'[q] \in {"down", "loading"} => memory[q] = <<>>
    BY <1>2, <1>3 DEF HomeInv, ledger
  <2>1. CASE q = p
    <3>1. attempt[p] = NoAttempt /\ NoAttempt.snapshot = <<>> /\ memory[p] = <<>>
      BY <1>3 DEF TurnInv, HomeInv, NoAttempt, InTurn
    <3>2. pc'[p] \notin InTurn
      BY <1>3 DEF TypeOK, InTurn
    <3> QED BY <2>1, <3>1, <3>2, EmptySeq
  <2>2. CASE q # p
    BY <1>3, <2>2 DEF TypeOK, HomeInv
  <2> QED BY <2>1, <2>2
<1> QED BY <1>4, <1>5, <1>6

LEMMA LoadKeepsInv ==
    ASSUME Inv, NEW p \in Processes, Load(p)
    PROVE  Inv'
<1> USE DEF Inv
<1>1. /\ pc[p] = "loading" /\ clean' = [clean EXCEPT ![p] = TRUE]
      /\ UNCHANGED <<database, attempt, ledger>>
  BY DEF Load
<1>2. attempt[p] = NoAttempt /\ NoAttempt.snapshot = <<>> /\ memory[p] = <<>>
  BY <1>1 DEF TurnInv, HomeInv, NoAttempt, InTurn
<1>3. CASE /\ IsLive(target[p]) /\ pc' = [pc EXCEPT ![p] = "idle"]
           /\ memory' = [memory EXCEPT ![p] = stored[target[p]]]
           /\ UNCHANGED target
  <2>1. target[p] \in Sessions
    BY <1>3 DEF IsLive, ToSet, TypeOK
  <2>2. TypeOK'
    BY <1>1, <1>3, <2>1 DEF TypeOK, database, ledger
  <2>3. TurnInv'
    BY <1>1, <1>2, <1>3 DEF TurnInv, TypeOK, InTurn, ledger
  <2>4. HomeInv'
    BY <1>1, <1>3, <2>1 DEF HomeInv, TypeOK, InTurn, database, ledger
  <2> QED BY <2>2, <2>3, <2>4
<1>4. CASE /\ pc' = [pc EXCEPT ![p] = "down"]
           /\ target' = [target EXCEPT ![p] = NoSession]
           /\ UNCHANGED memory
  <2>1. TypeOK'
    BY <1>1, <1>4 DEF TypeOK, database, ledger
  <2>2. TurnInv'
    BY <1>1, <1>2, <1>4 DEF TurnInv, TypeOK, InTurn, ledger
  <2>3. HomeInv'
    <3> SUFFICES ASSUME NEW q \in Processes
                 PROVE  /\ memory[q] \in Seq(Known(target'[q], turns, home))
                        /\ attempt[q].snapshot \in Seq(Known(target'[q], turns, home))
                        /\ pc'[q] \in InTurn => home[attempt[q].turn] = target'[q]
                        /\ pc'[q] \in {"down", "loading"} => memory[q] = <<>>
      BY <1>1, <1>4 DEF HomeInv, database, ledger
    <3>1. CASE q = p
      BY <1>2, <1>4, <3>1, EmptySeq DEF TypeOK, InTurn
    <3>2. CASE q # p
      BY <1>4, <3>2 DEF TypeOK, HomeInv
    <3> QED BY <3>1, <3>2
  <2> QED BY <2>1, <2>2, <2>3
<1> QED BY <1>3, <1>4 DEF Load

\* Between turns a process may go over to a new, another or the next session.
LEMMA SessionsKeepInv ==
    ASSUME Inv, NEW p \in Processes,
           NewSession(p) \/ \E s \in Sessions : SwitchSession(p, s) \/ DeleteSession(p, s)
    PROVE  Inv'
<1>1. Rows /\ live \in Seq(born) /\ IsInjective(live)
  BY DEF Inv, TypeOK, Rows
<1>2. stored \in [Sessions -> Seq(EntriesOfTurns)] /\ \A r \in Sessions : stored[r] \in Seq(Known(r, turns, home))
  BY DEF Inv, TypeOK, HomeInv
<1>3. CASE NewSession(p)
  <2>1. PICK s \in Sessions : CreateSession(s, live) /\ UNCHANGED stored /\ Enter(p, s)
    BY <1>3 DEF NewSession
  <2>2. Rows'
    BY <1>1, <2>1, CreateKeepsRows
  <2> QED BY <1>2, <1>3, <2>1, <2>2, EnterKeepsInv DEF NewSession
<1>4. ASSUME NEW s \in Sessions, SwitchSession(p, s) PROVE Inv'
  <2>1. Rows'
    BY <1>1, <1>4 DEF SwitchSession, Rows, IsLive, ToSet
  <2> QED BY <1>2, <1>4, <2>1, EnterKeepsInv DEF SwitchSession
<1>5. ASSUME NEW s \in Sessions, DeleteSession(p, s) PROVE Inv'
  <2>1. Rows' /\ active' \in Sessions
    BY <1>1, <1>5, DeleteKeepsRows
  <2>2. pc[p] = "idle" /\ stored' = [stored EXCEPT ![s] = <<>>] /\ Enter(p, active')
    BY <1>5 DEF DeleteSession
  <2>3. stored' \in [Sessions -> Seq(EntriesOfTurns)] /\ \A r \in Sessions : stored'[r] \in Seq(Known(r, turns, home))
    BY <1>2, <2>2, EmptySeq
  <2> QED BY <2>1, <2>2, <2>3, EnterKeepsInv
<1> QED BY <1>3, <1>4, <1>5

\* The steps that append an entry.
LEMMA AppendsKeepInv ==
    ASSUME Inv, NEW p \in Processes,
           \/ RecordPrompt(p) \/ RecordTool(p) \/ RecordAnswer(p) \/ CloseTurn(p)
           \/ RecoverySummary(p) \/ Compact(p)
    PROVE  Inv'
<1>1. turns \in 0 .. MaxTurns /\ turns \in Nat /\ MaxTurns \in Nat
  BY DEF Inv, TypeOK
<1> DEFINE seen == [attempt[p] EXCEPT !.recorded = TRUE]
<1>2. attempt[p] \in Attempts /\ attempt[p].snapshot \in Seq(Known(target[p], turns, home))
  BY DEF Inv, TypeOK, Attempts, HomeInv
<1>3. seen \in Attempts /\ seen.turn = attempt[p].turn /\ seen.snapshot = attempt[p].snapshot
  BY <1>2 DEF Attempts
<1> HIDE DEF seen
<1>4. ASSUME NEW next \in InTurn \union {"idle"}, NEW error \in {"closing", "idle"}, NEW e, NEW a,
             pc[p] \in InTurn, a \in {attempt[p], seen} \/ next = "idle",
             e \in Known(target[p], turns, home), Record(p, e, next, a, error), UNCHANGED <<turns, home>>
      PROVE  Inv'
  <2>1. turns' \in turns .. MaxTurns /\ home' = home /\ e \in Known(target[p], turns', home')
    BY <1>1, <1>4
  <2>2. error \in InTurn \union {"idle"} /\ pc[p] \in InTurn \union {"idle"}
    BY <1>4 DEF InTurn
  <2>3. next \in InTurn => /\ a \in Attempts /\ a.turn = attempt[p].turn
                           /\ a.snapshot \in Seq(Known(target[p], turns, home)) /\ pc[p] \in InTurn
    BY <1>2, <1>3, <1>4 DEF InTurn
  <2> QED BY <1>4, <2>1, <2>2, <2>3, RecordKeepsInv
<1>5. CASE RecordPrompt(p)
  <2>1. pc[p] \in InTurn /\ Record(p, Prompt(p), "open", seen, "closing") /\ UNCHANGED <<turns, home>>
    BY <1>5 DEF RecordPrompt, InTurn, seen
  <2>2. Prompt(p) \in Known(target[p], turns, home)
    BY <2>1, OwnEntries DEF Prompt, Kinds
  <2> QED BY <1>4, <2>1, <2>2 DEF InTurn
<1>6. CASE RecordTool(p)
  <2> DEFINE call == Entry(attempt[p].turn, "tool_call", Call(p))
             result == Entry(attempt[p].turn, "tool_result", Call(p))
             e == IF call \in ToSet(memory[p]) THEN result ELSE call
  <2>1. pc[p] \in InTurn /\ Record(p, e, "open", attempt[p], "closing") /\ UNCHANGED <<turns, home>>
    BY <1>6 DEF RecordTool, InTurn
  <2>2. e \in Known(target[p], turns, home)
    BY <2>1, OwnEntries DEF Kinds
  <2> QED BY <1>4, <2>1, <2>2 DEF InTurn
<1>7. CASE RecordAnswer(p)
  <2> DEFINE e == Entry(attempt[p].turn, "completed", 0)
  <2>1. pc[p] \in InTurn /\ Record(p, e, "idle", NoAttempt, "closing") /\ UNCHANGED <<turns, home>>
    BY <1>7 DEF RecordAnswer, InTurn
  <2>2. e \in Known(target[p], turns, home)
    BY <2>1, OwnEntries DEF Kinds
  <2> QED BY <1>4, <2>1, <2>2
<1>8. CASE CloseTurn(p)
  <2>1. pc[p] \in InTurn /\ UNCHANGED <<turns, home>>
    BY <1>8 DEF CloseTurn, InTurn
  <2>2. CASE Record(p, Prompt(p), "closing", seen, "idle")
    <3>1. Prompt(p) \in Known(target[p], turns, home)
      BY <2>1, OwnEntries DEF Prompt, Kinds
    <3> QED BY <1>4, <2>1, <2>2, <3>1 DEF InTurn
  <2>3. CASE Record(p, Entry(attempt[p].turn, "failed", 0), "idle", NoAttempt, "idle")
    <3>1. Entry(attempt[p].turn, "failed", 0) \in Known(target[p], turns, home)
      BY <2>1, OwnEntries DEF Kinds
    <3> QED BY <1>4, <2>1, <2>3, <3>1
  <2> QED BY <1>8, <2>2, <2>3 DEF CloseTurn, seen
<1>9. CASE RecoverySummary(p)
  <2>1. pc[p] \in InTurn /\ Record(p, Summary, "prompt", attempt[p], "closing") /\ UNCHANGED <<turns, home>>
    BY <1>9 DEF RecoverySummary, InTurn
  <2>2. Summary \in Known(target[p], turns, home)
    BY <1>1, SummaryBelongs
  <2> QED BY <1>4, <2>1, <2>2 DEF InTurn
<1>10. CASE Compact(p)
  <2>1. /\ pc[p] = "idle" /\ turns < MaxTurns /\ turns' = turns + 1 /\ home' = home
        /\ Record(p, Summary, "idle", NoAttempt, "idle")
    BY <1>10 DEF Compact
  <2>2. turns' \in turns .. MaxTurns /\ turns' \in Nat /\ "idle" \notin InTurn
    BY <1>1, <2>1 DEF InTurn
  <2>3. Summary \in Known(target[p], turns', home')
    BY <2>2, SummaryBelongs
  <2> QED BY <2>1, <2>2, <2>3, RecordKeepsInv
<1> QED BY <1>5, <1>6, <1>7, <1>8, <1>9, <1>10

-----------------------------------------------------------------------------
LEMMA InitInv == Init => Inv
<1> SUFFICES ASSUME Init PROVE Inv
  OBVIOUS
<1>1. \A S : <<>> \in Seq(S) /\ IsInjective(<<>>)
  BY EmptySeq DEF IsInjective
<1>2. TypeOK
  <2>1. \A p \in Processes : NoAttempt \in Attempts
    BY <1>1 DEF NoAttempt, Attempts
  <2> QED BY <1>1, <2>1 DEF Init, TypeOK, Attempts
<1>3. TurnInv
  BY DEF Init, TurnInv, InTurn
<1>4. HomeInv
  BY <1>1 DEF Init, HomeInv, InTurn, NoAttempt
<1> QED BY <1>2, <1>3, <1>4 DEF Inv

LEMMA StepInv == Inv /\ [Next]_vars => Inv'
<1> SUFFICES ASSUME Inv, [Next]_vars PROVE Inv'
  OBVIOUS
<1>1. ASSUME NEW p \in Processes, BeginTurn(p) PROVE Inv'
  BY <1>1, BeginTurnKeepsInv
<1>2. ASSUME NEW p \in Processes,
             \/ RecordPrompt(p) \/ RecordTool(p) \/ RecordAnswer(p) \/ CloseTurn(p)
             \/ RecoverySummary(p) \/ Compact(p)
      PROVE  Inv'
  BY <1>2, AppendsKeepInv
<1>3. ASSUME NEW p \in Processes, TurnThrows(p) \/ Abandon(p) PROVE Inv'
  <2>1. pc[p] \in InTurn /\ UNCHANGED <<database, ledger, target, memory, clean>>
    BY <1>3 DEF TurnThrows, Abandon, InTurn
  <2>2. Goto(p, "closing", attempt[p]) \/ Goto(p, "idle", attempt[p])
    BY <1>3 DEF TurnThrows, Abandon, Goto
  <2> QED BY <2>1, <2>2, GotoKeepsInv
<1>4. ASSUME NEW p \in Processes, Overflow(p) PROVE Inv'
  BY <1>4, OverflowKeepsInv
<1>5. ASSUME NEW p \in Processes,
             NewSession(p) \/ \E s \in Sessions : SwitchSession(p, s) \/ DeleteSession(p, s)
      PROVE  Inv'
  BY <1>5, SessionsKeepInv
<1>6. ASSUME NEW p \in Processes, Open(p) \/ Load(p) \/ Crash(p) PROVE Inv'
  BY <1>6, OpenKeepsInv, LoadKeepsInv, CrashKeepsInv
<1>7. CASE UNCHANGED vars
  BY <1>7 DEF Inv, TypeOK, TurnInv, HomeInv, vars, database, process, ledger
<1> QED BY <1>1, <1>2, <1>3, <1>4, <1>5, <1>6, <1>7 DEF Next

\* Type correctness, and with it that some session is active as soon as there is
\* one, and that each has one row (the transactions of SqliteConversationSessionStore).
THEOREM TypeCorrect == Spec => []TypeOK
<1>1. Inv => TypeOK
  BY DEF Inv
<1> QED BY <1>1, InitInv, StepInv, PTL DEF Spec

\* The entries of a turn are found in the session in which it was begun, and in no
\* other, however many processes switch, create and delete sessions, die or fail to
\* append (appendConversationSessionEntryToSession takes the session the process has
\* entered, and a process enters sessions only between turns).
THEOREM EntriesStay == Spec => []EntriesStayInTheirSession
<1>1. Inv => EntriesStayInTheirSession
  <2> SUFFICES ASSUME Inv PROVE EntriesStayInTheirSession
    OBVIOUS
  <2>1. ASSUME NEW s, NEW entries \in Seq(Known(s, turns, home)), NEW e \in ToSet(entries), e.turn # 0
        PROVE  home[e.turn] = s
    <3>1. e \in Known(s, turns, home)
      BY DEF ToSet
    <3> QED BY <2>1, <3>1 DEF Known
  <2>2. ASSUME NEW s \in Sessions, NEW e \in ToSet(stored[s]), e.turn # 0 PROVE home[e.turn] = s
    BY <2>1, <2>2 DEF Inv, HomeInv
  <2>3. ASSUME NEW p \in Processes, NEW e \in ToSet(memory[p]), e.turn # 0 PROVE home[e.turn] = target[p]
    BY <2>1, <2>3 DEF Inv, HomeInv
  <2> QED BY <2>2, <2>3 DEF EntriesStayInTheirSession
<1> QED BY <1>1, InitInv, StepInv, PTL DEF Spec
-----------------------------------------------------------------------------
(* The story the entries tell.                                             *)

\* p has a session at hand, and has made all appends to it since it loaded it.
Knows(p) == pc[p] \notin {"down", "loading"} /\ clean[p] /\ IsLive(target[p])

\* p has taken an attempt back in its copy, and has appended nothing since.
TakenBack(p) == pc[p] = "recovering" \/ (pc[p] = "closing" /\ ~attempt[p].recorded)

SameItems(g, h) == Told(g).items = Told(h).items

\* Database and copy tell the same, but for an attempt that was taken back: its
\* entries are the last in the database, an open turn, which a request does not
\* show; and what a recovery would go back to tells what the turn began with.
StoryOf(p) ==
    /\ pc[p] # "down" => target[p] \in born
    /\ pc[p] = "recovering" => attempt[p].retried /\ ~attempt[p].recorded
    /\ pc[p] = "prompt" /\ ~attempt[p].retried => memory[p] = attempt[p].snapshot
    /\ pc[p] = "open" /\ ~attempt[p].retried => SameItems(memory[p], attempt[p].snapshot)
    /\ Knows(p) => SameItems(stored[target[p]], memory[p])
    /\ Knows(p) /\ ~TakenBack(p) => Told(stored[target[p]]) = Told(memory[p])

StoryInv == \A p \in Processes : StoryOf(p)

\* Of two lists of entries that tell the same the next entry makes two that do; a
\* prompt and a summary also of two that only differ in the turn left open.
LEMMA AppendTellsTheSame ==
    ASSUME NEW g \in Seq(EntriesOfTurns), NEW h \in Seq(EntriesOfTurns), NEW e \in EntriesOfTurns,
           \/ Told(g) = Told(h)
           \/ SameItems(g, h) /\ e.kind \in {"user_prompt", "compaction_summary"}
    PROVE  Told(Append(g, e)) = Told(Append(h, e))
<1>1. CASE IsSummary(e)
  BY <1>1, ToldSummary
<1>2. CASE ~IsSummary(e)
  <2>1. Told(Append(g, e)) = Project(Told(g), e) /\ Told(Append(h, e)) = Project(Told(h), e)
    BY <1>2, ToldAppend
  <2>2. CASE SameItems(g, h) /\ e.kind = "user_prompt"
    <3>1. IsState(Told(g)) /\ IsState(Told(h))
      BY ToldIsState
    <3>2. /\ Project(Told(g), e) = [items |-> Told(g).items, pending |-> <<e>>, after |-> <<>>]
          /\ Project(Told(h), e) = [items |-> Told(h).items, pending |-> <<e>>, after |-> <<>>]
      BY <3>1, <2>2 DEF Project, IsState
    <3> QED BY <2>1, <2>2, <3>2 DEF SameItems
  <2> QED BY <1>2, <2>1, <2>2 DEF IsSummary
<1> QED BY <1>1, <1>2

\* Within a turn nothing is added to what is told of the turns before it.
LEMMA TurnAddsNoItems ==
    ASSUME NEW h \in Seq(EntriesOfTurns), NEW e \in EntriesOfTurns,
           e.kind \in {"user_prompt", "tool_call", "tool_result"}
    PROVE  SameItems(Append(h, e), h)
<1>1. Told(Append(h, e)) = Project(Told(h), e) /\ IsState(Told(h))
  BY ToldAppend, ToldIsState DEF IsSummary
<1>2. Project(Told(h), e).items = Told(h).items
  BY <1>1 DEF Project, IsState, Terminals
<1> QED BY <1>1, <1>2 DEF SameItems

\* What another process does, if it leaves q's session as it is or q knows that it
\* no longer is the only one to write it.
LEMMA OthersKeepStory ==
    ASSUME NEW q \in Processes, StoryOf(q), born \subseteq born',
           pc'[q] = pc[q], target'[q] = target[q], memory'[q] = memory[q], attempt'[q] = attempt[q],
           pc[q] # "down" /\ clean'[q] /\ target[q] \in ToSet(live') =>
               clean[q] /\ target[q] \in ToSet(live) /\ stored'[target[q]] = stored[target[q]]
    PROVE  StoryOf(q)'
<1>1. Knows(q)' => Knows(q) /\ stored'[target[q]] = stored[target[q]]
  BY DEF Knows, IsLive
<1>2. TakenBack(q)' <=> TakenBack(q)
  BY DEF TakenBack
<1>3. target'[q] = target[q] /\ (pc'[q] # "down" => target'[q] \in born')
  BY DEF StoryOf
<1>4. Knows(q)' => SameItems(stored'[target'[q]], memory'[q])
  BY <1>1, <1>3 DEF StoryOf
<1>5. Knows(q)' /\ ~TakenBack(q)' => Told(stored'[target'[q]]) = Told(memory'[q])
  BY <1>1, <1>2, <1>3 DEF StoryOf
<1> QED BY <1>3, <1>4, <1>5 DEF StoryOf

LEMMA StoreKeepsLive ==
    ASSUME Rows, NEW s, IsLive(s), live' = Append(OtherRows(s), s)
    PROVE  ToSet(live') = ToSet(live)
<1> DEFINE rows == OtherRows(s)
<1>1. rows \in Seq(born) /\ IsInjective(rows) /\ ToSet(rows) = ToSet(live) \ {s}
  BY OtherRowsProperties DEF Rows
<1>2. s \in born /\ s \in ToSet(live)
  BY DEF Rows, IsLive, ToSet
<1> HIDE DEF rows
<1>3. ToSet(Append(rows, s)) = ToSet(rows) \union {s}
  BY <1>1, <1>2, AppendRow
<1> QED BY <1>1, <1>2, <1>3 DEF rows

\* An append: p goes on in its turn with the snapshot it has, or gives it up.
LEMMA RecordKeepsStory ==
    ASSUME Inv, StoryInv, NEW p \in Processes, pc[p] \notin {"down", "loading"},
           NEW e \in EntriesOfTurns, NEW next, NEW a, NEW error, Record(p, e, next, a, error),
           next \in {"prompt", "open", "closing", "idle"}, error \in {"closing", "idle"},
           TakenBack(p) => e.kind \in {"user_prompt", "compaction_summary"},
           next = "prompt" => a.retried,
           next = "open" /\ ~a.retried =>
               /\ SameItems(memory[p], a.snapshot)
               /\ e.kind \in {"user_prompt", "tool_call", "tool_result"}
    PROVE  StoryInv'
<1>1. /\ pc \in [Processes -> Places] /\ attempt \in [Processes -> Attempts]
      /\ memory \in [Processes -> Seq(EntriesOfTurns)] /\ stored \in [Sessions -> Seq(EntriesOfTurns)]
      /\ clean \in [Processes -> BOOLEAN] /\ Rows /\ target[p] \in born /\ born \subseteq Sessions
  BY DEF Inv, TypeOK, Rows, Places, InTurn, Attempts, StoryInv, StoryOf
<1>2. /\ memory' = [memory EXCEPT ![p] = Append(@, e)] /\ target' = target
      /\ \/ Store(p, e) /\ Goto(p, next, a)
         \/ StoreFails(p) /\ Goto(p, error, attempt[p])
  BY DEF Record
<1>3. memory'[p] = Append(memory[p], e) /\ \A q \in Processes \ {p} : memory'[q] = memory[q]
  BY <1>1, <1>2
<1>4. \A q \in Processes \ {p} : pc'[q] = pc[q] /\ attempt'[q] = attempt[q]
  BY <1>1, <1>2 DEF Goto
<1>5. CASE Store(p, e) /\ Goto(p, next, a)
  <2>1. /\ IsLive(target[p]) /\ stored' = [stored EXCEPT ![target[p]] = Append(@, e)]
        /\ live' = Append(OtherRows(target[p]), target[p]) /\ born' = born
        /\ clean' = [q \in Processes |-> clean[q] /\ (q = p \/ target[q] # target[p])]
    BY <1>5 DEF Store, StoreIn
  <2>2. ToSet(live') = ToSet(live)
    BY <1>1, <2>1, StoreKeepsLive
  <2>3. ASSUME NEW q \in Processes \ {p} PROVE StoryOf(q)'
    <3>1. clean'[q] => clean[q] /\ target[q] # target[p]
      BY <2>1
    <3>2. target[q] # target[p] => stored'[target[q]] = stored[target[q]]
      BY <1>1, <2>1
    <3>3. StoryOf(q) /\ target'[q] = target[q] /\ born \subseteq born'
      BY <1>2, <2>1 DEF StoryInv
    <3> QED BY <1>3, <1>4, <2>2, <3>1, <3>2, <3>3, OthersKeepStory
  <2>4. pc'[p] = next /\ (next # "idle" => attempt'[p] = a) /\ target'[p] = target[p]
    BY <1>1, <1>2, <1>5 DEF Goto
  <2>5. stored'[target[p]] = Append(stored[target[p]], e)
    BY <1>1, <2>1
  <2>6. clean'[p] => Told(stored'[target'[p]]) = Told(memory'[p])
    <3> SUFFICES ASSUME clean'[p] PROVE Told(stored'[target'[p]]) = Told(memory'[p])
      OBVIOUS
    <3>1. Knows(p)
      BY <2>1 DEF Knows
    <3>2. \/ Told(stored[target[p]]) = Told(memory[p])
          \/ SameItems(stored[target[p]], memory[p]) /\ e.kind \in {"user_prompt", "compaction_summary"}
      BY <3>1 DEF StoryInv, StoryOf
    <3>3. stored[target[p]] \in Seq(EntriesOfTurns) /\ memory[p] \in Seq(EntriesOfTurns)
      BY <1>1
    <3> QED BY <1>3, <2>4, <2>5, <3>2, <3>3, AppendTellsTheSame
  <2>7. next = "open" /\ ~a.retried => SameItems(memory'[p], a.snapshot)
    <3>1. memory[p] \in Seq(EntriesOfTurns)
      BY <1>1
    <3> QED BY <1>3, <3>1, TurnAddsNoItems DEF SameItems
  <2>8. StoryOf(p)'
    BY <1>1, <2>1, <2>4, <2>6, <2>7 DEF StoryOf, Knows, SameItems
  <2> QED BY <2>3, <2>8 DEF StoryInv
<1>6. CASE StoreFails(p) /\ Goto(p, error, attempt[p])
  <2>1. clean' = [clean EXCEPT ![p] = FALSE] /\ UNCHANGED database
    BY <1>6 DEF StoreFails
  <2>2. ASSUME NEW q \in Processes \ {p} PROVE StoryOf(q)'
    <3>1. clean'[q] = clean[q] /\ stored' = stored /\ live' = live /\ born' = born
      BY <1>1, <2>1 DEF database
    <3>2. StoryOf(q) /\ target'[q] = target[q]
      BY <1>2 DEF StoryInv
    <3> QED BY <1>3, <1>4, <3>1, <3>2, OthersKeepStory
  <2>3. pc'[p] = error /\ clean'[p] = FALSE /\ target'[p] = target[p] /\ born' = born
    BY <1>1, <1>2, <1>6, <2>1 DEF Goto, database
  <2>4. StoryOf(p)'
    BY <1>1, <2>3 DEF StoryOf, Knows
  <2> QED BY <2>2, <2>4 DEF StoryInv
<1> QED BY <1>2, <1>5, <1>6

-----------------------------------------------------------------------------
(* The story, step by step.                                                *)

LEMMA BelongingEntries ==
    \A s, n, begun : \A e \in Known(s, n, begun) : e \in EntriesOfTurns
BY DEF Known

LEMMA AppendsKeepStory ==
    ASSUME Inv, StoryInv, NEW p \in Processes,
           \/ RecordPrompt(p) \/ RecordTool(p) \/ RecordAnswer(p) \/ CloseTurn(p)
           \/ RecoverySummary(p) \/ Compact(p)
    PROVE  StoryInv'
<1>1. /\ pc \in [Processes -> Places] /\ attempt[p] \in Attempts /\ attempt[p].retried \in BOOLEAN
      /\ StoryOf(p)
  BY DEF Inv, TypeOK, Places, InTurn, Attempts, StoryInv
<1>2. ASSUME pc[p] \in InTurn, NEW k \in Kinds, NEW c \in {0, Call(p)}
      PROVE  Entry(attempt[p].turn, k, c) \in EntriesOfTurns
  BY <1>2, OwnEntries, BelongingEntries
<1>3. \A t, k, c : Entry(t, k, c).kind = k
  BY DEF Entry
<1>4. CASE RecordPrompt(p)
  <2> DEFINE a == [attempt[p] EXCEPT !.recorded = TRUE]
  <2>1. pc[p] = "prompt" /\ Record(p, Prompt(p), "open", a, "closing")
    BY <1>4 DEF RecordPrompt
  <2>2. Prompt(p) \in EntriesOfTurns /\ Prompt(p).kind = "user_prompt"
    BY <1>2, <1>3, <2>1 DEF Prompt, InTurn, Kinds
  <2>3. a.retried = attempt[p].retried /\ a.snapshot = attempt[p].snapshot
    BY <1>1 DEF Attempts
  <2>4. ~a.retried => SameItems(memory[p], a.snapshot)
    BY <1>1, <2>1, <2>3 DEF StoryOf, SameItems
  <2> HIDE DEF a
  <2> QED BY <2>1, <2>2, <2>4, RecordKeepsStory
<1>5. CASE RecordTool(p)
  <2> DEFINE call   == Entry(attempt[p].turn, "tool_call", Call(p))
             result == Entry(attempt[p].turn, "tool_result", Call(p))
             e == IF call \in ToSet(memory[p]) THEN result ELSE call
  <2>1. pc[p] = "open" /\ Record(p, e, "open", attempt[p], "closing")
    BY <1>5 DEF RecordTool
  <2>2. e \in EntriesOfTurns /\ e.kind \in {"tool_call", "tool_result"}
    BY <1>2, <1>3, <2>1 DEF InTurn, Kinds
  <2>3. ~attempt[p].retried => SameItems(memory[p], attempt[p].snapshot)
    BY <1>1, <2>1 DEF StoryOf
  <2>4. ~TakenBack(p)
    BY <2>1 DEF TakenBack
  <2> HIDE DEF e
  <2> QED BY <2>1, <2>2, <2>3, <2>4, RecordKeepsStory
<1>6. CASE RecordAnswer(p)
  <2> DEFINE e == Entry(attempt[p].turn, "completed", 0)
  <2>1. pc[p] = "open" /\ Record(p, e, "idle", NoAttempt, "closing") /\ ~TakenBack(p)
    BY <1>6 DEF RecordAnswer, TakenBack
  <2>2. e \in EntriesOfTurns
    BY <1>2, <2>1 DEF InTurn, Kinds
  <2> HIDE DEF e
  <2> QED BY <2>1, <2>2, RecordKeepsStory
<1>7. CASE CloseTurn(p)
  <2> DEFINE a == [attempt[p] EXCEPT !.recorded = TRUE]
             e == Entry(attempt[p].turn, "failed", 0)
  <2>1. pc[p] = "closing"
    BY <1>7 DEF CloseTurn
  <2>2. CASE Record(p, Prompt(p), "closing", a, "idle")
    <3>1. Prompt(p) \in EntriesOfTurns /\ Prompt(p).kind = "user_prompt"
      BY <1>2, <1>3, <2>1 DEF Prompt, InTurn, Kinds
    <3> HIDE DEF a
    <3> QED BY <2>1, <2>2, <3>1, RecordKeepsStory
  <2>3. CASE attempt[p].recorded /\ Record(p, e, "idle", NoAttempt, "idle")
    <3>1. e \in EntriesOfTurns /\ ~TakenBack(p)
      BY <1>2, <2>1, <2>3 DEF InTurn, Kinds, TakenBack
    <3> HIDE DEF e
    <3> QED BY <2>1, <2>3, <3>1, RecordKeepsStory
  <2> QED BY <1>7, <2>2, <2>3 DEF CloseTurn
<1>8. Summary \in EntriesOfTurns /\ Summary.kind = "compaction_summary"
  BY DEF Summary, Entry, EntriesOfTurns
<1>9. CASE RecoverySummary(p)
  <2>1. /\ pc[p] = "recovering" /\ Record(p, Summary, "prompt", attempt[p], "closing")
        /\ attempt[p].retried
    BY <1>1, <1>9 DEF RecoverySummary, StoryOf
  <2> QED BY <1>8, <2>1, RecordKeepsStory
<1>10. CASE Compact(p)
  <2>1. pc[p] = "idle" /\ Record(p, Summary, "idle", NoAttempt, "idle")
    BY <1>10 DEF Compact
  <2> QED BY <1>8, <2>1, RecordKeepsStory
<1> QED BY <1>4, <1>5, <1>6, <1>7, <1>9, <1>10

\* The other processes, when the database stays as it is.
LEMMA SameDatabase ==
    ASSUME StoryInv, NEW p \in Processes, UNCHANGED database,
           \A q \in Processes \ {p} :
               /\ pc'[q] = pc[q] /\ target'[q] = target[q] /\ memory'[q] = memory[q]
               /\ attempt'[q] = attempt[q] /\ clean'[q] = clean[q],
           StoryOf(p)'
    PROVE  StoryInv'
<1>1. live' = live /\ stored' = stored /\ born' = born
  BY DEF database
<1>2. ASSUME NEW q \in Processes \ {p} PROVE StoryOf(q)'
  BY <1>1, OthersKeepStory DEF StoryInv
<1> QED BY <1>2 DEF StoryInv

LEMMA TurnStepsKeepStory ==
    ASSUME Inv, StoryInv, NEW p \in Processes,
           BeginTurn(p) \/ TurnThrows(p) \/ Abandon(p) \/ Overflow(p)
    PROVE  StoryInv'
<1>1. /\ pc \in [Processes -> Places] /\ attempt \in [Processes -> Attempts]
      /\ memory \in [Processes -> Seq(EntriesOfTurns)] /\ StoryOf(p) /\ attempt[p] \in Attempts
  BY DEF Inv, TypeOK, Places, InTurn, Attempts, StoryInv
<1>2. UNCHANGED <<database, target, clean>> /\ \A q \in Processes \ {p} :
          memory'[q] = memory[q] /\ pc'[q] = pc[q] /\ attempt'[q] = attempt[q]
  BY <1>1 DEF BeginTurn, TurnThrows, Abandon, Overflow, OverflowWith, Goto
<1>3. live' = live /\ stored' = stored /\ born' = born /\ target' = target /\ clean' = clean
  BY <1>2 DEF database
<1>4. CASE BeginTurn(p)
  <2>1. /\ pc[p] = "idle" /\ pc'[p] = "prompt" /\ memory' = memory
        /\ attempt'[p] = [NoAttempt EXCEPT !.turn = turns + 1, !.snapshot = memory[p]]
    BY <1>1, <1>4 DEF BeginTurn, Goto
  <2>2. attempt'[p].snapshot = memory[p]
    BY <2>1 DEF NoAttempt
  <2>3. StoryOf(p)'
    BY <1>1, <1>3, <2>1, <2>2 DEF StoryOf, Knows, IsLive, TakenBack
  <2> QED BY <1>2, <1>3, <2>3, SameDatabase
<1>5. CASE TurnThrows(p)
  <2>1. /\ pc[p] \in {"prompt", "open", "recovering"} /\ pc'[p] = "closing" /\ memory' = memory
        /\ attempt'[p] = attempt[p]
    BY <1>1, <1>5 DEF TurnThrows, Goto
  <2>2. TakenBack(p) => TakenBack(p)'
    BY <1>1, <2>1 DEF StoryOf, TakenBack
  <2>3. Knows(p)' => Knows(p)
    BY <1>3, <2>1 DEF Knows, IsLive
  <2>4. StoryOf(p)'
    BY <1>1, <1>3, <2>1, <2>2, <2>3 DEF StoryOf
  <2> QED BY <1>2, <1>3, <2>4, SameDatabase
<1>6. CASE Abandon(p)
  <2>1. pc[p] = "open" /\ pc'[p] = "idle" /\ memory' = memory
    BY <1>1, <1>6 DEF Abandon, Goto
  <2>2. StoryOf(p)'
    BY <1>1, <1>3, <2>1 DEF StoryOf, Knows, IsLive, TakenBack
  <2> QED BY <1>2, <1>3, <2>2, SameDatabase
<1>7. CASE Overflow(p)
  <2> DEFINE a == [attempt[p] EXCEPT !.recorded = FALSE, !.retried = TRUE, !.snapshot = <<>>]
  <2>1. /\ pc[p] = "open" /\ ~attempt[p].retried /\ pc'[p] = "recovering"
        /\ memory'[p] = attempt[p].snapshot /\ attempt'[p] = a
    BY <1>1, <1>7 DEF Overflow, OverflowWith, Goto
  <2>2. a.retried = TRUE /\ a.recorded = FALSE
    BY <1>1 DEF Attempts
  <2>3. SameItems(memory[p], memory'[p])
    BY <1>1, <2>1 DEF StoryOf
  <2> HIDE DEF a
  <2>4. StoryOf(p)'
    BY <1>1, <1>3, <2>1, <2>2, <2>3 DEF StoryOf, Knows, IsLive, TakenBack, SameItems
  <2> QED BY <1>2, <1>3, <2>4, SameDatabase
<1> QED BY <1>4, <1>5, <1>6, <1>7

\* A process goes on with a session as the database has it.
LEMMA EnterKeepsStory ==
    ASSUME Inv, StoryInv, NEW p \in Processes, pc[p] = "idle", NEW s, Enter(p, s), s \in born',
           born \subseteq born',
           \A r \in born : r \in ToSet(live') => r \in ToSet(live) /\ stored'[r] = stored[r]
    PROVE  StoryInv'
<1>1. /\ target' = [target EXCEPT ![p] = s] /\ memory' = [memory EXCEPT ![p] = stored'[s]]
      /\ clean' = [clean EXCEPT ![p] = TRUE] /\ pc' = pc /\ attempt' = attempt
  BY DEF Enter
<1>2. /\ target'[p] = s /\ memory'[p] = stored'[s]
      /\ \A q \in Processes \ {p} :
            target'[q] = target[q] /\ memory'[q] = memory[q] /\ clean'[q] = clean[q]
  BY <1>1 DEF Inv, TypeOK
<1>3. StoryOf(p)'
  BY <1>1, <1>2 DEF StoryOf, TakenBack, SameItems
<1>4. ASSUME NEW q \in Processes \ {p} PROVE StoryOf(q)'
  <2>1. StoryOf(q) /\ (pc[q] # "down" => target[q] \in born)
    BY DEF StoryInv, StoryOf
  <2> QED BY <1>1, <1>2, <2>1, OthersKeepStory
<1> QED BY <1>3, <1>4 DEF StoryInv

-----------------------------------------------------------------------------
(* The story, whatever happens.                                            *)

LEMMA SessionsKeepStory ==
    ASSUME Inv, Inv', StoryInv, NEW p \in Processes,
           NewSession(p) \/ \E s \in Sessions : SwitchSession(p, s) \/ DeleteSession(p, s)
    PROVE  StoryInv'
<1>1. Rows /\ live \in Seq(born) /\ IsInjective(live) /\ stored \in [Sessions -> Seq(EntriesOfTurns)]
  BY DEF Inv, TypeOK, Rows
<1>2. ToSet(live) \subseteq born
  BY <1>1 DEF ToSet
<1>3. ASSUME NEW rows \in Seq(born), IsInjective(rows), NEW s, CreateSession(s, rows)
      PROVE  /\ s \in born' /\ born \subseteq born'
             /\ \A r \in born : r \in ToSet(live') => r \in ToSet(rows)
  <2>1. s \in Sessions \ born /\ born' = born \union {s} /\ live' = Append(rows, s)
    BY <1>3 DEF CreateSession
  <2>2. rows \in Seq(born') /\ s \in born' /\ s \notin ToSet(rows)
    BY <1>3, <2>1 DEF ToSet
  <2>3. ToSet(live') = ToSet(rows) \union {s}
    BY <1>3, <2>1, <2>2, AppendRow
  <2> QED BY <2>1, <2>3
<1>4. CASE NewSession(p)
  <2>1. PICK s \in Sessions : CreateSession(s, live) /\ UNCHANGED stored /\ Enter(p, s)
    BY <1>4 DEF NewSession
  <2>2. /\ s \in born' /\ born \subseteq born'
        /\ \A r \in born : r \in ToSet(live') => r \in ToSet(live)
    BY <1>1, <1>3, <2>1
  <2>3. pc[p] = "idle"
    BY <1>4 DEF NewSession
  <2> QED BY <2>1, <2>2, <2>3, EnterKeepsStory
<1>5. ASSUME NEW s \in Sessions, SwitchSession(p, s) PROVE StoryInv'
  <2>1. pc[p] = "idle" /\ s \in born /\ live' = live /\ stored' = stored /\ born' = born /\ Enter(p, s)
    BY <1>2, <1>5 DEF SwitchSession, IsLive
  <2> QED BY <2>1, EnterKeepsStory
<1>6. ASSUME NEW s \in Sessions, DeleteSession(p, s) PROVE StoryInv'
  <2> DEFINE rows == OtherRows(s)
  <2>1. /\ pc[p] = "idle" /\ IsLive(s) /\ stored' = [stored EXCEPT ![s] = <<>>] /\ Enter(p, active')
    BY <1>6 DEF DeleteSession
  <2>2. rows \in Seq(born) /\ IsInjective(rows) /\ ToSet(rows) = ToSet(live) \ {s}
    BY <1>1, <2>1, OtherRowsProperties
  <2>3. \/ live' = rows /\ born' = born
        \/ \E new \in Sessions : CreateSession(new, rows)
    BY <1>6 DEF DeleteSession
  <2> HIDE DEF rows
  <2>4. born \subseteq born' /\ \A r \in born : r \in ToSet(live') => r \in ToSet(rows)
    BY <1>3, <2>2, <2>3
  <2>5. \A r \in born : r \in ToSet(live') => r \in ToSet(live) /\ stored'[r] = stored[r]
    BY <1>1, <2>1, <2>2, <2>4 DEF Rows
  <2>6. active' \in born'
    <3>1. Rows' /\ active' \in Sessions
      BY <1>1, <1>6, DeleteKeepsRows
    <3>2. live' # <<>>
      BY <3>1 DEF Rows
    <3>3. ToSet(live') \subseteq born' /\ active' \in ToSet(live')
      BY <3>1, <3>2 DEF Rows, ToSet
    <3> QED BY <3>3
  <2> QED BY <2>1, <2>4, <2>5, <2>6, EnterKeepsStory
<1> QED BY <1>4, <1>5, <1>6

LEMMA ProcessesKeepStory ==
    ASSUME Inv, Inv', StoryInv, NEW p \in Processes, Open(p) \/ Load(p) \/ Crash(p)
    PROVE  StoryInv'
<1>1. /\ pc \in [Processes -> Places] /\ memory \in [Processes -> Seq(EntriesOfTurns)]
      /\ attempt \in [Processes -> Attempts] /\ clean \in [Processes -> BOOLEAN]
      /\ target \in [Processes -> Sessions \union {NoSession}]
      /\ Rows /\ live \in Seq(born) /\ IsInjective(live) /\ StoryOf(p)
  BY DEF Inv, TypeOK, Rows, Places, InTurn, Attempts, StoryInv
<1>2. \A q \in Processes \ {p} :
          /\ pc'[q] = pc[q] /\ target'[q] = target[q] /\ memory'[q] = memory[q]
          /\ attempt'[q] = attempt[q] /\ clean'[q] = clean[q]
  BY <1>1 DEF Open, Load, Crash
<1>3. CASE Open(p)
  <2>1. Rows' /\ active' \in Sessions /\ stored' = stored
    <3>1. CASE active # NoSession /\ UNCHANGED database
      BY <1>1, <3>1 DEF Rows, database, Inv, TypeOK, ToSet
    <3>2. CASE \E s \in Sessions : CreateSession(s, live) /\ UNCHANGED stored
      BY <1>1, <3>2, CreateKeepsRows
    <3> QED BY <1>3, <3>1, <3>2 DEF Open
  <2>2. active' \in born'
    BY <2>1 DEF Rows, ToSet
  <2>3. /\ born \subseteq born'
        /\ \A r \in born : r \in ToSet(live') => r \in ToSet(live)
    <3>1. CASE UNCHANGED database
      BY <3>1 DEF database
    <3>2. ASSUME NEW s \in Sessions, CreateSession(s, live)
          PROVE  born \subseteq born' /\ \A r \in born : r \in ToSet(live') => r \in ToSet(live)
      <4>1. s \in Sessions \ born /\ born' = born \union {s} /\ live' = Append(live, s)
        BY <3>2 DEF CreateSession
      <4>2. live \in Seq(born') /\ s \in born' /\ s \notin ToSet(live)
        BY <1>1, <4>1 DEF ToSet
      <4>3. ToSet(live') = ToSet(live) \union {s}
        BY <1>1, <4>1, <4>2, AppendRow
      <4> QED BY <4>1, <4>3
    <3> QED BY <1>3, <3>1, <3>2 DEF Open
  <2>4. /\ pc[p] = "down" /\ pc'[p] = IF stored[active'] = <<>> THEN "idle" ELSE "loading"
        /\ target'[p] = active' /\ memory'[p] = <<>>
    <3>1. memory[p] = <<>>
      BY <1>3 DEF Open, Inv, HomeInv
    <3> QED BY <1>1, <1>3, <2>1, <3>1 DEF Open
  <2>5. StoryOf(p)'
    BY <2>1, <2>2, <2>4 DEF StoryOf, Knows, TakenBack, SameItems
  <2>6. ASSUME NEW q \in Processes \ {p} PROVE StoryOf(q)'
    <3>1. StoryOf(q) /\ (pc[q] # "down" => target[q] \in born)
      BY DEF StoryInv, StoryOf
    <3> QED BY <1>2, <2>1, <2>3, <3>1, OthersKeepStory
  <2> QED BY <2>5, <2>6 DEF StoryInv
<1>4. CASE Load(p)
  <2>1. UNCHANGED database /\ live' = live /\ stored' = stored /\ born' = born
    BY <1>4 DEF Load, database
  <2>2. StoryOf(p)'
    <3>1. CASE pc'[p] = "down"
      BY <3>1 DEF StoryOf, Knows
    <3>2. CASE pc'[p] = "idle" /\ memory'[p] = stored[target[p]] /\ target' = target
      BY <1>1, <1>4, <2>1, <3>2 DEF StoryOf, Knows, TakenBack, SameItems, Load
    <3> QED BY <1>1, <1>4, <3>1, <3>2 DEF Load
  <2> QED BY <1>2, <2>1, <2>2, SameDatabase
<1>5. CASE Crash(p)
  <2>1. UNCHANGED database /\ pc'[p] = "down"
    BY <1>1, <1>5 DEF Crash
  <2>2. StoryOf(p)'
    BY <2>1 DEF StoryOf, Knows
  <2> QED BY <1>2, <2>1, <2>2, SameDatabase
<1> QED BY <1>3, <1>4, <1>5

LEMMA StoryInit == Init => StoryInv
BY DEF Init, StoryInv, StoryOf, Knows

LEMMA StoryStep == Inv /\ Inv' /\ StoryInv /\ [Next]_vars => StoryInv'
<1> SUFFICES ASSUME Inv, Inv', StoryInv, [Next]_vars PROVE StoryInv'
  OBVIOUS
<1>1. ASSUME NEW p \in Processes,
             \/ RecordPrompt(p) \/ RecordTool(p) \/ RecordAnswer(p) \/ CloseTurn(p)
             \/ RecoverySummary(p) \/ Compact(p)
      PROVE  StoryInv'
  BY <1>1, AppendsKeepStory
<1>2. ASSUME NEW p \in Processes, BeginTurn(p) \/ TurnThrows(p) \/ Abandon(p) \/ Overflow(p)
      PROVE  StoryInv'
  BY <1>2, TurnStepsKeepStory
<1>3. ASSUME NEW p \in Processes,
             NewSession(p) \/ \E s \in Sessions : SwitchSession(p, s) \/ DeleteSession(p, s)
      PROVE  StoryInv'
  BY <1>3, SessionsKeepStory
<1>4. ASSUME NEW p \in Processes, Open(p) \/ Load(p) \/ Crash(p) PROVE StoryInv'
  BY <1>4, ProcessesKeepStory
<1>5. CASE UNCHANGED vars
  <2>1. UNCHANGED <<pc, target, memory, attempt, clean, live, stored, born>>
    BY <1>5 DEF vars, database, process, ledger
  <2> QED BY <2>1, OthersKeepStory DEF StoryInv
<1> QED BY <1>1, <1>2, <1>3, <1>4, <1>5 DEF Next

\* A restart does not change the conversation the model knows, for any number of
\* turns, calls and processes: as long as a process alone wrote its session and no
\* append failed, the database tells the next request what the copy tells it, also
\* while a recovery has taken entries back in the copy alone
\* (RuntimeConversationTurnSessionRecorder, InMemoryConversationHistory).
THEOREM RestartsTellTheSame == Spec => []RestartTellsTheSameStory
<1>1. Inv /\ StoryInv => RestartTellsTheSameStory
  <2> SUFFICES ASSUME Inv, StoryInv, NEW p \in Processes, pc[p] \notin {"down", "loading"}, clean[p],
                      IsLive(target[p])
               PROVE  NextRequest(stored[target[p]]) = NextRequest(memory[p])
    BY DEF RestartTellsTheSameStory
  <2> DEFINE prompt == Entry(0, "user_prompt", 0)
             g == stored[target[p]]
             h == memory[p]
  <2>1. SameItems(g, h)
    BY DEF StoryInv, StoryOf, Knows
  <2>2. prompt \in EntriesOfTurns /\ prompt.kind = "user_prompt"
    BY DEF Entry, EntriesOfTurns, Inv, TypeOK
  <2>3. g \in Seq(EntriesOfTurns) /\ h \in Seq(EntriesOfTurns)
    BY DEF Inv, TypeOK, StoryInv, StoryOf
  <2>4. NextRequest(g) = ModelContextItems(Append(g, prompt)) /\ NextRequest(h) = ModelContextItems(Append(h, prompt))
    BY DEF NextRequest
  <2> HIDE DEF prompt, g, h
  <2>5. Told(Append(g, prompt)) = Told(Append(h, prompt))
    BY <2>1, <2>2, <2>3, AppendTellsTheSame
  <2>6. ModelContextItems(Append(g, prompt)) = ModelContextItems(Append(h, prompt))
    BY <2>5, RequestIsTold, Zenon
  <2> QED BY <2>4, <2>6 DEF g, h
<1> QED BY <1>1, InitInv, StepInv, StoryInit, StoryStep, PTL DEF Spec
=============================================================================
