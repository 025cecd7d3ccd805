----------------------- MODULE ReadOnlyBatches_proofs -----------------------
(***************************************************************************)
(* Theorems about the batches of a turn, for any steps, calls, keys and     *)
(* findings: the limiter of read-only tool calls they go through, for any   *)
(* number of calls and any limits, the requests their results come back in, *)
(* and the arithmetic of line ranges behind their advisories, for any       *)
(* number of reads.  What the folds of the model come to is found with the  *)
(* lemmas on recursion of HistoryProjection_proofs.                         *)
(***************************************************************************)
EXTENDS ReadOnlyBatches, HistoryProjection_proofs

-----------------------------------------------------------------------------
(* The groups of a step.                                                   *)

\* The groups that the first n calls of a step make.
IsGrouping(G, calls, n) ==
    /\ G \in Seq(Seq(Calls))
    /\ \A g \in 1 .. Len(G) : Len(G[g]) # 0
    /\ \A g \in 1 .. Len(G) : \A i \in 1 .. Len(G[g]) :
          /\ ToolOf[G[g][i]] = "change" => Len(G[g]) = 1
          /\ \E j \in 1 .. n : G[g][i] = calls[j]
    /\ \A j \in 1 .. n : \E g \in 1 .. Len(G) : \E i \in 1 .. Len(G[g]) : G[g][i] = calls[j]
    /\ \A g, h \in 1 .. Len(G) : \A i \in 1 .. Len(G[g]), j \in 1 .. Len(G[h]) :
          G[g][i] = G[h][j] => g = h

PutInGroup(groups, c) ==
    IF groups # <<>> /\ ToolOf[c] # "change" /\ ToolOf[Last(Last(groups))] # "change"
    THEN [groups EXCEPT ![Len(groups)] = Append(@, c)]
    ELSE Append(groups, <<c>>)

GroupFolds(f, calls) ==
    f = [s \in SUBSET (1 .. Len(calls)) |->
            IF s = {} THEN <<>> ELSE PutInGroup(f[s \ {Max(s)}], calls[Max(s)])]

LEMMA GroupsUnfold ==
    ASSUME NEW calls \in Seq(Calls)
    PROVE  Groups(calls) = (CHOOSE f : GroupFolds(f, calls))[1 .. Len(calls)]
<1>1. DOMAIN calls = 1 .. Len(calls)
  OBVIOUS
<1> QED BY <1>1 DEF Groups, FoldLeft, MapThenFoldSet, GroupFolds, PutInGroup

LEMMA PutIsSeq ==
    ASSUME NEW G \in Seq(Seq(Calls)), NEW c \in Calls
    PROVE  PutInGroup(G, c) \in Seq(Seq(Calls))
<1>1. CASE G # <<>>
  <2>1. Len(G) \in 1 .. Len(G) /\ G[Len(G)] \in Seq(Calls)
    BY <1>1
  <2>2. Append(G[Len(G)], c) \in Seq(Calls)
    BY <2>1
  <2>3. [G EXCEPT ![Len(G)] = Append(@, c)] \in Seq(Seq(Calls))
    BY <2>1, <2>2
  <2>4. Append(G, <<c>>) \in Seq(Seq(Calls))
    OBVIOUS
  <2> QED BY <2>3, <2>4 DEF PutInGroup
<1>2. CASE G = <<>>
  <2>1. Append(G, <<c>>) \in Seq(Seq(Calls))
    OBVIOUS
  <2> QED BY <1>2, <2>1 DEF PutInGroup
<1> QED BY <1>1, <1>2

LEMMA GroupFoldExists ==
    ASSUME NEW calls \in Seq(Calls)
    PROVE  \E f : GroupFolds(f, calls)
<1> DEFINE B == Seq(Seq(Calls))
           n == Len(calls)
           put == [x \in B \X (1 .. n) |-> PutInGroup(x[1], calls[x[2]])]
<1>1. n \in Nat /\ <<>> \in B
  OBVIOUS
<1>2. put \in [B \X (1 .. n) -> B]
  <2>1. ASSUME NEW x \in B \X (1 .. n) PROVE PutInGroup(x[1], calls[x[2]]) \in B
    <3>1. x[1] \in Seq(Seq(Calls)) /\ calls[x[2]] \in Calls
      OBVIOUS
    <3> QED BY <3>1, PutIsSeq
  <2> QED BY <2>1
<1>3. \A b \in B, i \in 1 .. n : put[<<b, i>>] = PutInGroup(b, calls[i])
  OBVIOUS
<1> HIDE DEF put, B
<1>4. PICK f : Recursion(f, <<>>, put, n, B)
  <2> HIDE DEF n
  <2> QED BY <1>1, <1>2, RecursionExists
<1>5. ASSUME NEW s \in SUBSET (1 .. n), s # {}
      PROVE  f[s] = PutInGroup(f[s \ {Max(s)}], calls[Max(s)])
  <2>1. Max(s) \in 1 .. n
    BY <1>1, <1>5, GreatestExists
  <2>2. f[s \ {Max(s)}] \in B
    BY <1>4 DEF Recursion
  <2>3. f[s] = put[<<f[s \ {Max(s)}], Max(s)>>]
    BY <1>4, <1>5 DEF Recursion
  <2> QED BY <1>3, <2>1, <2>2, <2>3
<1> DEFINE At(s) == IF s = {} THEN <<>> ELSE PutInGroup(f[s \ {Max(s)}], calls[Max(s)])
<1>6. \A s \in SUBSET (1 .. n) : f[s] = At(s)
  BY <1>4, <1>5 DEF Recursion
<1>7. f = [s \in SUBSET (1 .. n) |-> f[s]]
  BY <1>4 DEF Recursion
<1> HIDE DEF At
<1>8. f = [s \in SUBSET (1 .. n) |-> At(s)]
  BY <1>6, <1>7
<1>9. GroupFolds(f, calls)
  BY <1>8 DEF GroupFolds, At
<1> QED BY <1>9

LEMMA GroupingStarts ==
    ASSUME NEW calls
    PROVE  IsGrouping(<<>>, calls, 0)
BY DEF IsGrouping

\* A call joins the last group,
LEMMA GroupingJoins ==
    ASSUME NEW calls \in Seq(Calls), IsInjective(calls), NEW n \in Nat, n + 1 \in 1 .. Len(calls),
           NEW G, IsGrouping(G, calls, n), G # <<>>,
           ToolOf[calls[n + 1]] # "change", ToolOf[Last(Last(G))] # "change"
    PROVE  IsGrouping([G EXCEPT ![Len(G)] = Append(@, calls[n + 1])], calls, n + 1)
<1> DEFINE c == calls[n + 1]
           m == Len(G)
           H == [G EXCEPT ![m] = Append(@, c)]
<1>1. G \in Seq(Seq(Calls)) /\ m \in Nat /\ m \in 1 .. m /\ c \in Calls /\ \A j \in 1 .. n : j \in 1 .. Len(calls)
  BY DEF IsGrouping
<1>2. \A j \in 1 .. n : calls[j] # c
  <2>1. \A j \in 1 .. n : j # n + 1 /\ j \in DOMAIN calls
    BY <1>1
  <2>2. n + 1 \in DOMAIN calls
    OBVIOUS
  <2> QED BY <2>1, <2>2 DEF IsInjective
<1>3. G[m] \in Seq(Calls) /\ Len(G[m]) \in Nat /\ \A g \in 1 .. m : G[g] \in Seq(Calls)
  BY <1>1
<1> DEFINE k == Len(G[m])
           L == Append(G[m], c)
<1>4. L \in Seq(Calls) /\ Len(L) = k + 1 /\ L[k + 1] = c /\ \A i \in 1 .. k : L[i] = G[m][i]
  BY <1>1, <1>3
<1> HIDE DEF c
<1>5. H \in Seq(Seq(Calls)) /\ Len(H) = m /\ H[m] = L /\ \A g \in 1 .. m : g # m => H[g] = G[g]
  <2> HIDE DEF L
  <2>1. H = [G EXCEPT ![m] = L]
    BY DEF L
  <2> HIDE DEF H
  <2> QED BY <1>1, <1>4, <2>1
<1> HIDE DEF H, L, m, k
<1>6. k # 0 /\ ToolOf[G[m][k]] # "change" /\ k \in 1 .. k
  <2>1. k # 0 /\ k \in Nat
    BY <1>1, <1>3 DEF IsGrouping, k, m
  <2> QED BY <2>1 DEF Last, k, m
<1>7. \A i \in 1 .. k : ToolOf[G[m][i]] # "change"
  <2> SUFFICES ASSUME NEW i \in 1 .. k, ToolOf[G[m][i]] = "change" PROVE FALSE
    OBVIOUS
  <2>1. k = 1
    BY <1>1 DEF IsGrouping, k, m
  <2> QED BY <2>1, <1>6
\* The elements of a group are those it had, or the new call at the end of the last.
<1>8. ASSUME NEW g \in 1 .. m, NEW i \in 1 .. Len(H[g])
      PROVE  (i \in 1 .. Len(G[g]) /\ H[g][i] = G[g][i]) \/ (g = m /\ i = k + 1 /\ H[g][i] = c)
  <2>1. CASE g = m
    <3>1. i \in 1 .. k + 1 /\ k \in Nat
      BY <2>1, <1>3, <1>4, <1>5 DEF k
    <3>2. CASE i = k + 1
      BY <2>1, <3>2, <1>4, <1>5
    <3>3. CASE i # k + 1
      <4>1. i \in 1 .. k
        BY <3>1, <3>3
      <4> QED BY <2>1, <4>1, <1>4, <1>5 DEF k
    <3> QED BY <3>2, <3>3
  <2>2. CASE g # m
    BY <2>2, <1>5
  <2> QED BY <2>1, <2>2
<1>9. ASSUME NEW g \in 1 .. m, NEW i \in 1 .. Len(G[g])
      PROVE  i \in 1 .. Len(H[g]) /\ H[g][i] = G[g][i]
  <2>1. CASE g = m
    <3>1. i \in 1 .. k /\ k \in Nat
      BY <2>1, <1>3 DEF k
    <3> QED BY <2>1, <3>1, <1>4, <1>5
  <2>2. CASE g # m
    BY <2>2, <1>5
  <2> QED BY <2>1, <2>2
<1>10. \A g \in 1 .. m : Len(H[g]) # 0
  <2> TAKE g \in 1 .. m
  <2>1. CASE g = m
    BY <2>1, <1>3, <1>4, <1>5 DEF k
  <2>2. CASE g # m
    BY <2>2, <1>5 DEF IsGrouping, m
  <2> QED BY <2>1, <2>2
<1>11. ASSUME NEW g \in 1 .. m, NEW i \in 1 .. Len(H[g])
       PROVE  /\ ToolOf[H[g][i]] = "change" => Len(H[g]) = 1
              /\ \E j \in 1 .. n + 1 : H[g][i] = calls[j]
  <2>1. CASE g = m /\ i = k + 1 /\ H[g][i] = c
    <3>1. ToolOf[H[g][i]] # "change" /\ n + 1 \in 1 .. n + 1 /\ H[g][i] = calls[n + 1]
      BY <2>1 DEF c
    <3> QED BY <3>1
  <2>2. CASE i \in 1 .. Len(G[g]) /\ H[g][i] = G[g][i]
    <3>1. PICK j \in 1 .. n : G[g][i] = calls[j]
      BY <2>2 DEF IsGrouping, m
    <3>2. j \in 1 .. n + 1
      OBVIOUS
    <3>3. ToolOf[H[g][i]] = "change" => Len(H[g]) = 1
      <4>1. CASE g = m
        BY <4>1, <2>2, <1>7 DEF k
      <4>2. CASE g # m
        <5>1. H[g] = G[g]
          BY <4>2, <1>5
        <5>2. \A l \in 1 .. Len(G[g]) : ToolOf[G[g][l]] = "change" => Len(G[g]) = 1
          BY DEF IsGrouping, m
        <5> QED BY <5>1, <5>2
      <4> QED BY <4>1, <4>2
    <3> QED BY <2>2, <3>1, <3>2, <3>3
  <2> QED BY <1>8, <2>1, <2>2
<1>12. ASSUME NEW j \in 1 .. n + 1
       PROVE  \E g \in 1 .. m : \E i \in 1 .. Len(H[g]) : H[g][i] = calls[j]
  <2>1. CASE j = n + 1
    <3>1. k + 1 \in 1 .. Len(H[m]) /\ H[m][k + 1] = calls[j]
      BY <2>1, <1>3, <1>4, <1>5 DEF c, k
    <3> QED BY <3>1, <1>1 DEF m
  <2>2. CASE j # n + 1
    <3>1. j \in 1 .. n
      BY <2>2
    <3>2. PICK g \in 1 .. m : \E i \in 1 .. Len(G[g]) : G[g][i] = calls[j]
      BY <3>1 DEF IsGrouping, m
    <3> QED BY <3>2, <1>9
  <2> QED BY <2>1, <2>2
<1>13. ASSUME NEW g \in 1 .. m, NEW i \in 1 .. Len(G[g]) PROVE G[g][i] # c
  <2>1. PICK j \in 1 .. n : G[g][i] = calls[j]
    BY DEF IsGrouping, m
  <2> QED BY <2>1, <1>2 DEF c
<1>14. ASSUME NEW g \in 1 .. m, NEW h \in 1 .. m, NEW i \in 1 .. Len(H[g]), NEW j \in 1 .. Len(H[h]),
              H[g][i] = H[h][j]
       PROVE  g = h
  <2>1. (i \in 1 .. Len(G[g]) /\ H[g][i] = G[g][i]) \/ (g = m /\ H[g][i] = c)
    BY <1>8
  <2>2. (j \in 1 .. Len(G[h]) /\ H[h][j] = G[h][j]) \/ (h = m /\ H[h][j] = c)
    BY <1>8
  <2>3. CASE i \in 1 .. Len(G[g]) /\ H[g][i] = G[g][i] /\ j \in 1 .. Len(G[h]) /\ H[h][j] = G[h][j]
    <3>1. G[g][i] = G[h][j]
      BY <2>3, <1>14
    <3>2. \A a, b \in 1 .. m : \A p \in 1 .. Len(G[a]), q \in 1 .. Len(G[b]) : G[a][p] = G[b][q] => a = b
      BY DEF IsGrouping, m
    <3> QED BY <2>3, <3>1, <3>2
  <2> QED BY <2>1, <2>2, <2>3, <1>13, <1>14
<1>15. IsGrouping(H, calls, n + 1)
  BY <1>5, <1>10, <1>11, <1>12, <1>14 DEF IsGrouping
<1> QED BY <1>15 DEF H, m, c

\* or starts one.
LEMMA GroupingGrows ==
    ASSUME NEW calls \in Seq(Calls), IsInjective(calls), NEW n \in Nat, n + 1 \in 1 .. Len(calls),
           NEW G, IsGrouping(G, calls, n)
    PROVE  IsGrouping(Append(G, <<calls[n + 1]>>), calls, n + 1)
<1> DEFINE c == calls[n + 1]
           m == Len(G)
           H == Append(G, <<c>>)
<1>1. G \in Seq(Seq(Calls)) /\ m \in Nat /\ c \in Calls /\ \A j \in 1 .. n : j \in 1 .. Len(calls)
  BY DEF IsGrouping
<1>2. \A j \in 1 .. n : calls[j] # c
  <2>1. \A j \in 1 .. n : j # n + 1 /\ j \in DOMAIN calls
    BY <1>1
  <2>2. n + 1 \in DOMAIN calls
    OBVIOUS
  <2> QED BY <2>1, <2>2 DEF IsInjective
<1>3. <<c>> \in Seq(Calls) /\ Len(<<c>>) = 1 /\ <<c>>[1] = c
  BY <1>1
<1> HIDE DEF c
<1>4. H \in Seq(Seq(Calls)) /\ Len(H) = m + 1 /\ H[m + 1] = <<c>> /\ \A g \in 1 .. m : H[g] = G[g]
  BY <1>1, <1>3
<1> HIDE DEF H, m
<1>5. ASSUME NEW g \in 1 .. m + 1, g # m + 1 PROVE g \in 1 .. m /\ H[g] = G[g]
  BY <1>1, <1>4, <1>5
<1>6. \A i \in 1 .. Len(H[m + 1]) : i = 1 /\ H[m + 1][i] = c
  BY <1>3, <1>4
<1>7. ASSUME NEW g \in 1 .. m + 1 PROVE Len(H[g]) # 0
  <2>1. CASE g = m + 1
    BY <2>1, <1>3, <1>4
  <2>2. CASE g # m + 1
    <3>1. g \in 1 .. m /\ H[g] = G[g]
      BY <2>2, <1>5
    <3> QED BY <3>1 DEF IsGrouping, m
  <2> QED BY <2>1, <2>2
<1>8. ASSUME NEW g \in 1 .. m + 1, NEW i \in 1 .. Len(H[g])
      PROVE  /\ ToolOf[H[g][i]] = "change" => Len(H[g]) = 1
             /\ \E j \in 1 .. n + 1 : H[g][i] = calls[j]
  <2>1. CASE g = m + 1
    <3>1. n + 1 \in 1 .. n + 1
      OBVIOUS
    <3> QED BY <2>1, <3>1, <1>3, <1>4, <1>6 DEF c
  <2>2. CASE g # m + 1
    <3>1. g \in 1 .. m /\ H[g] = G[g]
      BY <2>2, <1>5
    <3>2. (ToolOf[G[g][i]] = "change" => Len(G[g]) = 1) /\ \E j \in 1 .. n : G[g][i] = calls[j]
      BY <3>1 DEF IsGrouping, m
    <3>3. \A j \in 1 .. n : j \in 1 .. n + 1
      OBVIOUS
    <3> QED BY <3>1, <3>2, <3>3
  <2> QED BY <2>1, <2>2
<1>9. ASSUME NEW j \in 1 .. n + 1
      PROVE  \E g \in 1 .. m + 1 : \E i \in 1 .. Len(H[g]) : H[g][i] = calls[j]
  <2>1. CASE j = n + 1
    <3>1. m + 1 \in 1 .. m + 1 /\ 1 \in 1 .. Len(H[m + 1]) /\ H[m + 1][1] = calls[j]
      BY <2>1, <1>1, <1>3, <1>4 DEF c, m
    <3> QED BY <3>1
  <2>2. CASE j # n + 1
    <3>1. j \in 1 .. n
      BY <2>2
    <3>2. PICK g \in 1 .. m : \E i \in 1 .. Len(G[g]) : G[g][i] = calls[j]
      BY <3>1 DEF IsGrouping, m
    <3>3. g \in 1 .. m + 1 /\ H[g] = G[g]
      BY <1>1, <1>4 DEF m
    <3> QED BY <3>2, <3>3
  <2> QED BY <2>1, <2>2
<1>10. ASSUME NEW g \in 1 .. m, NEW i \in 1 .. Len(G[g]) PROVE G[g][i] # c
  <2>1. PICK j \in 1 .. n : G[g][i] = calls[j]
    BY DEF IsGrouping, m
  <2> QED BY <2>1, <1>2 DEF c
<1>11. ASSUME NEW g \in 1 .. m + 1, NEW h \in 1 .. m + 1, NEW i \in 1 .. Len(H[g]), NEW j \in 1 .. Len(H[h]),
              H[g][i] = H[h][j]
       PROVE  g = h
  <2>1. CASE g = m + 1 \/ h = m + 1
    <3>1. (g = m + 1 => H[g][i] = c) /\ (h = m + 1 => H[h][j] = c)
      BY <1>6
    <3> QED BY <2>1, <3>1, <1>5, <1>10, <1>11
  <2>2. CASE g # m + 1 /\ h # m + 1
    <3>1. g \in 1 .. m /\ H[g] = G[g] /\ h \in 1 .. m /\ H[h] = G[h]
      BY <2>2, <1>5
    <3>2. \A a, b \in 1 .. m : \A k \in 1 .. Len(G[a]), l \in 1 .. Len(G[b]) : G[a][k] = G[b][l] => a = b
      BY DEF IsGrouping, m
    <3> QED BY <3>1, <3>2, <1>11
  <2> QED BY <2>1, <2>2
<1>12. IsGrouping(H, calls, n + 1)
  BY <1>4, <1>7, <1>8, <1>9, <1>11 DEF IsGrouping
<1> QED BY <1>12 DEF H, c

LEMMA GroupsAreGrouping ==
    ASSUME NEW calls \in Seq(Calls), IsInjective(calls)
    PROVE  IsGrouping(Groups(calls), calls, Len(calls))
<1> DEFINE n == Len(calls)
           F == CHOOSE f : GroupFolds(f, calls)
           S == {k \in Nat : k <= n => IsGrouping(F[1 .. k], calls, k)}
           At(s) == IF s = {} THEN <<>> ELSE PutInGroup(F[s \ {Max(s)}], calls[Max(s)])
<1>1. n \in Nat
  OBVIOUS
<1>2. GroupFolds(F, calls)
  BY GroupFoldExists
<1>3. Groups(calls) = F[1 .. n]
  BY GroupsUnfold
<1> HIDE DEF F
<1>4. \A s \in SUBSET (1 .. n) : F[s] = At(s)
  BY <1>2 DEF GroupFolds
<1>5. 0 \in S
  <2>1. 1 .. 0 = {} /\ 1 .. 0 \in SUBSET (1 .. n)
    OBVIOUS
  <2> QED BY <1>4, <2>1, GroupingStarts
<1>6. ASSUME NEW k \in Nat, k \in S PROVE k + 1 \in S
  <2> SUFFICES ASSUME k + 1 <= n PROVE IsGrouping(F[1 .. k + 1], calls, k + 1)
    OBVIOUS
  <2>1. IsGrouping(F[1 .. k], calls, k) /\ k + 1 \in 1 .. Len(calls)
    BY <1>1, <1>6
  <2>2. 1 .. k + 1 \in SUBSET (1 .. n)
    BY <1>1
  <2>3. F[1 .. k + 1] = PutInGroup(F[1 .. k], calls[k + 1])
    <3> DEFINE K == 1 .. k + 1
    <3>1. F[K] = At(K)
      BY ONLY <1>4, <2>2, Zenon
    <3>2. k \in Nat
      BY <1>6
    <3>3. Max(K) = k + 1 /\ K \ {k + 1} = 1 .. k /\ K # {}
      BY ONLY <3>2, MaxOfSegment
    <3> HIDE DEF K
    <3>4. F[K] = PutInGroup(F[1 .. k], calls[k + 1])
      BY ONLY <3>1, <3>3
    <3> QED BY ONLY <3>4 DEF K
  <2> HIDE DEF n
  <2> DEFINE G == F[1 .. k]
             c == calls[k + 1]
  <2>4. CASE G # <<>> /\ ToolOf[c] # "change" /\ ToolOf[Last(Last(G))] # "change"
    <3>1. IsGrouping([G EXCEPT ![Len(G)] = Append(@, c)], calls, k + 1)
      <4> HIDE DEF G
      <4> QED BY <2>1, <2>4, GroupingJoins DEF G
    <3> QED BY <2>3, <2>4, <3>1 DEF PutInGroup
  <2>5. CASE ~(G # <<>> /\ ToolOf[c] # "change" /\ ToolOf[Last(Last(G))] # "change")
    <3>1. IsGrouping(Append(G, <<c>>), calls, k + 1)
      <4> HIDE DEF G
      <4> QED BY <2>1, GroupingGrows DEF G
    <3>2. PutInGroup(G, c) = Append(G, <<c>>)
      <4> HIDE DEF G, c
      <4> QED BY <2>5, Zenon DEF PutInGroup
    <3> QED BY <2>3, <3>1, <3>2
  <2> QED BY <2>4, <2>5
<1> HIDE DEF S
<1>7. n \in S
  BY <1>1, <1>5, <1>6, AllNaturals
<1> QED BY <1>1, <1>3, <1>7 DEF S

-----------------------------------------------------------------------------
(* What a request shows.                                                   *)

ShowNext(all, ns, cross, shown, item) ==
    LET i == Len(shown) + 1
        same == {j \in DOMAIN shown : shown[j].as = "exact" /\ all[j].text = item.text}
    IN Append(shown,
         CASE item.long /\ cross /\ IsOldEnough(i, ns) -> [as |-> "cross_step", of |-> item.call]
           [] item.long /\ ~(cross /\ IsOldEnough(i, ns)) /\ same # {} ->
                    [as |-> "duplicate", of |-> all[Min(same)].call]
           [] OTHER -> [as |-> "exact", of |-> item.call])

ShownFolds(f, all, ns, cross) ==
    f = [s \in SUBSET (1 .. Len(all)) |->
            IF s = {} THEN <<>> ELSE ShowNext(all, ns, cross, f[s \ {Max(s)}], all[Max(s)])]

\* The first n results as a request shows them.
ShowsWell(shown, all, ns, n) ==
    /\ Len(shown) = n
    /\ \A i \in 1 .. n :
        /\ shown[i].as \in {"exact", "duplicate", "cross_step"}
        /\ shown[i].as = "cross_step" => IsOldEnough(i, ns)
        /\ shown[i].as = "duplicate" =>
              \E j \in 1 .. i - 1 : /\ shown[j].as = "exact" /\ all[j].text = all[i].text
                                    /\ shown[i].of = all[j].call

Ways(all) == [as : {"exact", "duplicate", "cross_step"}, of : {all[j].call : j \in Nat}]

LEMMA ShownUnfold ==
    ASSUME NEW E, NEW all \in Seq(E), NEW ns, NEW cross
    PROVE  Shown(all, ns, cross) = (CHOOSE f : ShownFolds(f, all, ns, cross))[1 .. Len(all)]
<1>1. DOMAIN all = 1 .. Len(all)
  OBVIOUS
<1> QED BY <1>1 DEF Shown, FoldLeft, MapThenFoldSet, ShownFolds, ShowNext

LEMMA LeastOf ==
    ASSUME NEW S \in SUBSET Nat, S # {}
    PROVE  Min(S) \in S
BY LeastExists DEF Min

\* w is a good way to show the result item after the others.
GoodWay(w, all, ns, shown, item) ==
    /\ w.as = "cross_step" => IsOldEnough(Len(shown) + 1, ns)
    /\ w.as = "duplicate" =>
          \E j \in DOMAIN shown : /\ shown[j].as = "exact" /\ all[j].text = item.text
                                  /\ w.of = all[j].call

LEMMA ShowNextAppends ==
    ASSUME NEW all, NEW ns, NEW cross,
           NEW shown \in Seq(Ways(all)), NEW k \in Nat
    PROVE  \E w \in Ways(all) :
              ShowNext(all, ns, cross, shown, all[k]) = Append(shown, w) /\ GoodWay(w, all, ns, shown, all[k])
<1> DEFINE item == all[k]
           i == Len(shown) + 1
           same == {j \in DOMAIN shown : shown[j].as = "exact" /\ all[j].text = item.text}
           old == cross /\ IsOldEnough(i, ns)
           calls == {all[j].call : j \in Nat}
           w == CASE item.long /\ cross /\ IsOldEnough(i, ns) -> [as |-> "cross_step", of |-> item.call]
                  [] item.long /\ ~(cross /\ IsOldEnough(i, ns)) /\ same # {} ->
                           [as |-> "duplicate", of |-> all[Min(same)].call]
                  [] OTHER -> [as |-> "exact", of |-> item.call]
<1>1. ShowNext(all, ns, cross, shown, item) = Append(shown, w)
  BY DEF ShowNext
<1>2. same \in SUBSET Nat /\ item.call \in calls
  OBVIOUS
<1>3. CASE item.long /\ old
  <2>1. w = [as |-> "cross_step", of |-> item.call]
    BY <1>3
  <2>2. w \in Ways(all) /\ w.as = "cross_step"
    BY <2>1, <1>2 DEF Ways
  <2> HIDE DEF w, item
  <2> QED BY <1>1, <1>3, <2>2 DEF item, GoodWay
<1>4. CASE item.long /\ ~old /\ same # {}
  <2>1. w = [as |-> "duplicate", of |-> all[Min(same)].call]
    BY <1>4
  <2>2. Min(same) \in same
    <3> HIDE DEF same
    <3> QED BY <1>2, <1>4, LeastOf
  <2>3. all[Min(same)].call \in calls
    BY <1>2, <2>2
  <2>4. w \in Ways(all) /\ w.as = "duplicate" /\ w.of = all[Min(same)].call
    <3> HIDE DEF same, w
    <3> QED BY <2>1, <2>3 DEF Ways
  <2>5. \E j \in DOMAIN shown : /\ shown[j].as = "exact" /\ all[j].text = item.text
                                /\ w.of = all[j].call
    <3> HIDE DEF w, item
    <3> QED BY <2>2, <2>4
  <2> HIDE DEF w, item, same
  <2> QED BY <1>1, <2>4, <2>5 DEF item, GoodWay
<1>5. CASE ~(item.long /\ old) /\ ~(item.long /\ ~old /\ same # {})
  <2>1. w = [as |-> "exact", of |-> item.call]
    BY <1>5
  <2>2. w \in Ways(all) /\ w.as = "exact"
    BY <2>1, <1>2 DEF Ways
  <2> HIDE DEF w, item
  <2> QED BY <1>1, <2>2 DEF item, GoodWay
<1> QED BY <1>3, <1>4, <1>5

LEMMA ShowNextIsSeq ==
    ASSUME NEW all, NEW ns, NEW cross, NEW shown \in Seq(Ways(all)), NEW k \in Nat
    PROVE  ShowNext(all, ns, cross, shown, all[k]) \in Seq(Ways(all))
<1>1. PICK w \in Ways(all) :
          ShowNext(all, ns, cross, shown, all[k]) = Append(shown, w) /\ GoodWay(w, all, ns, shown, all[k])
  BY ShowNextAppends
<1> QED BY <1>1

LEMMA ShownFoldExists ==
    ASSUME NEW E, NEW all \in Seq(E), NEW ns, NEW cross
    PROVE  \E f : ShownFolds(f, all, ns, cross) /\ f \in [SUBSET (1 .. Len(all)) -> Seq(Ways(all))]
<1> DEFINE B == Seq(Ways(all))
           n == Len(all)
           show == [x \in B \X (1 .. n) |-> ShowNext(all, ns, cross, x[1], all[x[2]])]
<1>1. n \in Nat /\ <<>> \in B
  OBVIOUS
<1>2. show \in [B \X (1 .. n) -> B]
  <2>1. ASSUME NEW x \in B \X (1 .. n) PROVE ShowNext(all, ns, cross, x[1], all[x[2]]) \in B
    <3>1. x[1] \in Seq(Ways(all)) /\ x[2] \in Nat
      OBVIOUS
    <3> QED BY <3>1, ShowNextIsSeq
  <2> QED BY <2>1
<1>3. \A b \in B, i \in 1 .. n : show[<<b, i>>] = ShowNext(all, ns, cross, b, all[i])
  OBVIOUS
<1> HIDE DEF show, B
<1>4. PICK f : Recursion(f, <<>>, show, n, B)
  <2> HIDE DEF n
  <2> QED BY <1>1, <1>2, RecursionExists
<1>5. ASSUME NEW s \in SUBSET (1 .. n), s # {}
      PROVE  f[s] = ShowNext(all, ns, cross, f[s \ {Max(s)}], all[Max(s)])
  <2>1. Max(s) \in 1 .. n
    BY <1>1, <1>5, GreatestExists
  <2>2. f[s \ {Max(s)}] \in B
    BY <1>4 DEF Recursion
  <2>3. f[s] = show[<<f[s \ {Max(s)}], Max(s)>>]
    BY <1>4, <1>5 DEF Recursion
  <2> QED BY <1>3, <2>1, <2>2, <2>3
<1> DEFINE At(s) == IF s = {} THEN <<>> ELSE ShowNext(all, ns, cross, f[s \ {Max(s)}], all[Max(s)])
<1>6. \A s \in SUBSET (1 .. n) : f[s] = At(s)
  BY <1>4, <1>5 DEF Recursion
<1>7. f = [s \in SUBSET (1 .. n) |-> f[s]]
  BY <1>4 DEF Recursion
<1> HIDE DEF At
<1>8. f = [s \in SUBSET (1 .. n) |-> At(s)]
  BY <1>6, <1>7
<1>9. ShownFolds(f, all, ns, cross)
  BY <1>8 DEF ShownFolds, At
<1> QED BY <1>4, <1>9 DEF Recursion, B

LEMMA ShowsOneMore ==
    ASSUME NEW E, NEW all \in Seq(E), NEW ns, NEW cross, NEW k \in Nat, k + 1 \in 1 .. Len(all),
           NEW shown \in Seq(Ways(all)), ShowsWell(shown, all, ns, k)
    PROVE  ShowsWell(ShowNext(all, ns, cross, shown, all[k + 1]), all, ns, k + 1)
<1>1. PICK w \in Ways(all) :
          /\ ShowNext(all, ns, cross, shown, all[k + 1]) = Append(shown, w)
          /\ GoodWay(w, all, ns, shown, all[k + 1])
  <2>1. k + 1 \in Nat
    OBVIOUS
  <2> QED BY <2>1, ShowNextAppends
<1>2. Len(shown) = k /\ DOMAIN shown = 1 .. k
  BY DEF ShowsWell
<1> DEFINE next == Append(shown, w)
<1>3. Len(next) = k + 1 /\ next[k + 1] = w /\ \A i \in 1 .. k : next[i] = shown[i]
  BY <1>2
<1> HIDE DEF next
<1>4. ASSUME NEW i \in 1 .. k + 1
      PROVE  /\ next[i].as \in {"exact", "duplicate", "cross_step"}
             /\ next[i].as = "cross_step" => IsOldEnough(i, ns)
             /\ next[i].as = "duplicate" =>
                   \E j \in 1 .. i - 1 : /\ next[j].as = "exact" /\ all[j].text = all[i].text
                                         /\ next[i].of = all[j].call
  <2>1. CASE i = k + 1
    <3>1. w.as \in {"exact", "duplicate", "cross_step"}
      BY DEF Ways
    <3>2. i - 1 = k
      BY <2>1
    <3> QED BY <1>1, <1>2, <1>3, <2>1, <3>1, <3>2 DEF GoodWay
  <2>2. CASE i # k + 1
    <3>1. i \in 1 .. k /\ \A j \in 1 .. i - 1 : j \in 1 .. k
      BY <2>2
    <3> QED BY <1>3, <3>1 DEF ShowsWell
  <2> QED BY <2>1, <2>2
<1> QED BY <1>1, <1>3, <1>4 DEF ShowsWell, next

LEMMA ShownShowsWell ==
    ASSUME NEW E, NEW all \in Seq(E), NEW ns, NEW cross
    PROVE  /\ Shown(all, ns, cross) \in Seq(Ways(all))
           /\ ShowsWell(Shown(all, ns, cross), all, ns, Len(all))
<1> DEFINE n == Len(all)
           F == CHOOSE f : ShownFolds(f, all, ns, cross)
           S == {k \in Nat : k <= n => F[1 .. k] \in Seq(Ways(all)) /\ ShowsWell(F[1 .. k], all, ns, k)}
           At(s) == IF s = {} THEN <<>> ELSE ShowNext(all, ns, cross, F[s \ {Max(s)}], all[Max(s)])
<1>1. n \in Nat
  OBVIOUS
<1>2. ShownFolds(F, all, ns, cross)
  BY ShownFoldExists
<1>3. Shown(all, ns, cross) = F[1 .. n]
  BY ShownUnfold
<1> HIDE DEF F
<1>4. \A s \in SUBSET (1 .. n) : F[s] = At(s)
  BY <1>2 DEF ShownFolds
<1>5. 0 \in S
  <2>1. 1 .. 0 = {} /\ 1 .. 0 \in SUBSET (1 .. n)
    OBVIOUS
  <2>2. F[1 .. 0] = <<>>
    BY <1>4, <2>1
  <2>3. <<>> \in Seq(Ways(all)) /\ ShowsWell(<<>>, all, ns, 0)
    BY DEF ShowsWell
  <2> QED BY <2>2, <2>3
<1>6. ASSUME NEW k \in Nat, k \in S PROVE k + 1 \in S
  <2> SUFFICES ASSUME k + 1 <= n PROVE F[1 .. k + 1] \in Seq(Ways(all)) /\ ShowsWell(F[1 .. k + 1], all, ns, k + 1)
    OBVIOUS
  <2>1. F[1 .. k] \in Seq(Ways(all)) /\ ShowsWell(F[1 .. k], all, ns, k) /\ k + 1 \in 1 .. Len(all)
    BY <1>1, <1>6
  <2>2. 1 .. k + 1 \in SUBSET (1 .. n)
    BY <1>1
  <2>3. F[1 .. k + 1] = ShowNext(all, ns, cross, F[1 .. k], all[k + 1])
    <3> DEFINE K == 1 .. k + 1
    <3>1. F[K] = At(K)
      BY ONLY <1>4, <2>2, Zenon
    <3>2. k \in Nat
      BY <1>6
    <3>3. Max(K) = k + 1 /\ K \ {k + 1} = 1 .. k /\ K # {}
      BY ONLY <3>2, MaxOfSegment
    <3> HIDE DEF K
    <3>4. F[K] = ShowNext(all, ns, cross, F[1 .. k], all[k + 1])
      BY ONLY <3>1, <3>3
    <3> QED BY ONLY <3>4 DEF K
  <2>4. ShowNext(all, ns, cross, F[1 .. k], all[k + 1]) \in Seq(Ways(all))
    <3>1. k + 1 \in Nat
      OBVIOUS
    <3> QED BY <2>1, <3>1, ShowNextIsSeq
  <2> QED BY <2>1, <2>3, <2>4, ShowsOneMore
<1> HIDE DEF S
<1>7. n \in S
  BY <1>1, <1>5, <1>6, AllNaturals
<1> QED BY <1>1, <1>3, <1>7 DEF S

\* A result is old enough for a reference only when the request before the last
\* one had it.
LEMMA OldEnoughWasSent ==
    ASSUME NEW ns \in Seq(Nat), \A i, j \in DOMAIN ns : i <= j => ns[i] <= ns[j],
           NEW i \in Nat, IsOldEnough(i, ns)
    PROVE  Len(ns) - 1 \in DOMAIN ns /\ i <= ns[Len(ns) - 1]
<1> DEFINE later == {k \in 1 .. Len(ns) : ns[k] >= i}
           first == SelectInSeq(ns, LAMBDA n : n >= i)
<1>1. first = IF later # {} THEN Min(later) ELSE 0
  BY DEF SelectInSeq
<1>2. first # 0 /\ first <= Len(ns) + 1 - 2
  BY DEF IsOldEnough, SentBefore, MinimumAge
<1> HIDE DEF first
<1>3. first \in later
  <2>1. later \in SUBSET Nat
    OBVIOUS
  <2> HIDE DEF later
  <2> QED BY <1>1, <1>2, <2>1, LeastOf
<1>4. first \in 1 .. Len(ns) /\ ns[first] >= i /\ Len(ns) \in Nat
  BY <1>3
<1>5. first <= Len(ns) - 1 /\ Len(ns) - 1 \in 1 .. Len(ns)
  BY <1>2, <1>4
<1>6. ns[first] <= ns[Len(ns) - 1] /\ ns[first] \in Nat /\ ns[Len(ns) - 1] \in Nat
  <2>1. /\ DOMAIN ns = 1 .. Len(ns)
        /\ \A k \in 1 .. Len(ns) : ns[k] \in Nat
    OBVIOUS
  <2>2. \A j, k \in 1 .. Len(ns) : j <= k => ns[j] <= ns[k]
    BY <2>1, Zenon
  <2> QED BY ONLY <1>4, <1>5, <2>1, <2>2, Zenon
<1>7. Len(ns) - 1 \in DOMAIN ns
  BY <1>5
<1>8. i <= ns[Len(ns) - 1]
  <2>1. i \in Nat
    OBVIOUS
  <2> QED BY ONLY <1>4, <1>6, <2>1
<1> QED BY <1>7, <1>8

-----------------------------------------------------------------------------
(* The invariant of the batches.                                           *)

BatchPhases == {"starting", "looping", "racing", "submitting", "throwing"}

PlaceInv ==
    /\ step \in 1 .. Len(Asked)
    /\ group \in 1 .. Len(StepGroups) + 1
    /\ phase \in Phases
    /\ phase \in BatchPhases => group \in 1 .. Len(StepGroups) /\ ToSet(Current) \subseteq Inspections
    /\ phase = "starting" => toStart # {} /\ toStart \subseteq ToSet(Current)
    /\ phase # "starting" => toStart = {}
    /\ phase = "ended" => step = Len(Asked) /\ group = Len(StepGroups) + 1

\* What an operation comes to.
FoundInv ==
    /\ found = [c \in Calls |-> found[c]]
    /\ \A c \in Inspections :
         \/ found[c] = Nothing \/ found[c].kind \in {"failed", "thrown"}
         \/ found[c].kind = "completed" /\ found[c].content \in Finds[c]

\* The calls of the steps and groups that are behind the turn, and those of the
\* group it is at.
CallsOfSteps(n) == UNION {ToSet(Asked[s]) : s \in 1 .. n}
CallsOfGroups(s, n) == UNION {ToSet(Groups(Asked[s])[g]) : g \in 1 .. n}
Behind == CallsOfSteps(step - 1) \union CallsOfGroups(step, group - 1)
AtHand == IF phase \in BatchPhases \union {"failed"} /\ group <= Len(StepGroups) THEN ToSet(Current) ELSE {}

\* Calls are answered group by group, a call together with its duplicates.
AnswerInv ==
    /\ answer = [c \in Calls |-> answer[c]]
    /\ \A c \in Calls : answer[c] # Nothing => c \in Behind \union AtHand
    /\ \A c \in Behind : answer[c] # Nothing
    /\ phase \in BatchPhases =>
         \A c \in ToSet(Current) : answer[c] # Nothing <=> answer[Canonical(c)] # Nothing
    /\ phase = "submitting" => \A c \in Canonicals : answer[c] # Nothing

\* No call is answered before the operation that answers it, and a duplicate
\* points to a call of its step that has a result.
SourceInv ==
    /\ \A c \in Inspections : answer[c] # Nothing => \E d \in Inspections : KeyOf[d] = KeyOf[c] /\ found[d] # Nothing
    /\ \A c \in Calls : answer[c].kind = "duplicate" =>
         \E s \in 1 .. Len(Asked) :
            /\ c \in ToSet(Asked[s]) /\ answer[c].of \in ToSet(Asked[s])
            /\ answer[answer[c].of].kind \in {"completed", "over_budget"}

Reads == UNION {{ReadBy(c, x.lines) : x \in {y \in Finds[c] : y.lines # NoLines}} : c \in Inspections}
CoverageInv == coverage \in Seq(Reads)

Sent == IF phase = "ended" THEN 1 .. Len(Asked) ELSE 1 .. step - 1

\* The results are those of the steps behind the turn; a result that the request
\* before the last one had has been shown twice, every other one once.
ItemsInv ==
    /\ items \in Seq({items[i] : i \in DOMAIN items})
    /\ \A i \in 1 .. Len(items) : \E s \in Sent : items[i].call \in ToSet(Asked[s])
    /\ \A s \in Sent : \A c \in ToSet(Asked[s]) : \E i \in 1 .. Len(items) : items[i].call = c
    /\ told \in [Calls -> Nat]
    /\ counts \in Seq(Nat) /\ counts # <<>> /\ counts[Len(counts)] = Len(items)
    /\ \A i, j \in DOMAIN counts : i <= j => counts[i] <= counts[j]
    /\ \A i \in 1 .. Len(items) :
         /\ told[items[i].call] >= 1
         /\ Len(counts) > 1 /\ i <= counts[Len(counts) - 1] => told[items[i].call] >= 2

\* The text of result i is in the request, or was in two.
ReachedAt(i) ==
    CASE request[i].as = "exact" -> TRUE
      [] request[i].as = "duplicate" ->
            \E j \in 1 .. i - 1 : /\ items[j].call = request[i].of /\ request[j].as = "exact"
                                 /\ items[j].text = items[i].text
      [] request[i].as = "cross_step" -> told[items[i].call] >= 2
RequestInv ==
    /\ Len(request) = Len(items) /\ DOMAIN request = 1 .. Len(items)
    /\ \A i \in 1 .. Len(items) : request[i].as \in {"exact", "duplicate", "cross_step"} /\ ReachedAt(i)

TurnInv == PlaceInv /\ FoundInv /\ AnswerInv /\ SourceInv /\ CoverageInv /\ ItemsInv /\ RequestInv

-----------------------------------------------------------------------------
(* The groups a step is executed in.                                       *)

LEMMA AskedCalls ==
    ASSUME NEW s \in 1 .. Len(Asked)
    PROVE  Asked[s] \in Seq(Calls) /\ IsInjective(Asked[s]) /\ ToSet(Asked[s]) \subseteq Calls
<1>1. s \in DOMAIN Asked /\ Asked[s] \in Seq(Calls)
  BY AskedAssumption
<1> QED BY <1>1, AskedAssumption DEF ToSet

LEMMA GroupFacts ==
    ASSUME NEW s \in 1 .. Len(Asked), NEW g \in 1 .. Len(Groups(Asked[s]))
    PROVE  /\ Groups(Asked[s])[g] \in Seq(Calls)
           /\ ToSet(Groups(Asked[s])[g]) \subseteq ToSet(Asked[s])
           /\ ToSet(Groups(Asked[s])[g]) \subseteq Calls
           /\ 1 \in DOMAIN Groups(Asked[s])[g]
           /\ Groups(Asked[s])[g][1] \in ToSet(Groups(Asked[s])[g])
           /\ ToolOf[Groups(Asked[s])[g][1]] = "change" => ToSet(Groups(Asked[s])[g]) = {Groups(Asked[s])[g][1]}
           /\ ToolOf[Groups(Asked[s])[g][1]] # "change" => ToSet(Groups(Asked[s])[g]) \subseteq Inspections
<1> DEFINE G == Groups(Asked[s])
           calls == Asked[s]
           n == Len(calls)
           cur == G[g]
<1>1. calls \in Seq(Calls) /\ IsGrouping(G, calls, n)
  BY AskedCalls, GroupsAreGrouping
<1> HIDE DEF G, calls
<1>2. cur \in Seq(Calls) /\ Len(cur) # 0 /\ Len(cur) \in Nat
  <2>1. G \in Seq(Seq(Calls)) /\ g \in 1 .. Len(G) /\ \A h \in 1 .. Len(G) : Len(G[h]) # 0
    BY <1>1 DEF IsGrouping, G
  <2> QED BY <2>1
<1>3. \A i \in 1 .. Len(cur) : (ToolOf[cur[i]] = "change" => Len(cur) = 1) /\ \E j \in 1 .. n : cur[i] = calls[j]
  BY <1>1 DEF IsGrouping, G
<1> HIDE DEF cur, n
<1>4. DOMAIN cur = 1 .. Len(cur) /\ DOMAIN calls = 1 .. n /\ 1 \in DOMAIN cur /\ \A i \in 1 .. Len(cur) : cur[i] \in Calls
  BY <1>1, <1>2 DEF n
<1>5. ToSet(cur) \subseteq ToSet(calls) /\ ToSet(cur) \subseteq Calls /\ cur[1] \in ToSet(cur)
  BY <1>3, <1>4 DEF ToSet
<1>6. ASSUME ToolOf[cur[1]] = "change" PROVE ToSet(cur) = {cur[1]}
  <2>1. Len(cur) = 1
    BY <1>3, <1>4, <1>6
  <2> QED BY <1>4, <2>1 DEF ToSet
<1>7. ASSUME ToolOf[cur[1]] # "change" PROVE ToSet(cur) \subseteq Inspections
  <2>1. ASSUME NEW i \in 1 .. Len(cur) PROVE ToolOf[cur[i]] # "change"
    <3>1. Len(cur) = 1 => i = 1
      OBVIOUS
    <3> QED BY <1>3, <1>7, <3>1
  <2> QED BY <1>4, <2>1 DEF ToSet, Inspections
<1> QED BY <1>2, <1>4, <1>5, <1>6, <1>7 DEF cur, G, calls

LEMMA GroupsApart ==
    ASSUME NEW s \in 1 .. Len(Asked), NEW g \in 1 .. Len(Groups(Asked[s])), NEW h \in 1 .. Len(Groups(Asked[s])),
           NEW c, c \in ToSet(Groups(Asked[s])[g]), c \in ToSet(Groups(Asked[s])[h])
    PROVE  g = h
<1> DEFINE G == Groups(Asked[s])
<1>1. IsGrouping(G, Asked[s], Len(Asked[s])) /\ G[g] \in Seq(Calls) /\ G[h] \in Seq(Calls)
  BY AskedCalls, GroupsAreGrouping, GroupFacts
<1> HIDE DEF G
<1>2. PICK i \in 1 .. Len(G[g]) : G[g][i] = c
  <2>1. DOMAIN G[g] = 1 .. Len(G[g])
    BY ONLY <1>1
  <2>2. c \in ToSet(G[g])
    BY Zenon DEF G
  <2> QED BY ONLY <2>1, <2>2 DEF ToSet
<1>3. PICK j \in 1 .. Len(G[h]) : G[h][j] = c
  <2>1. DOMAIN G[h] = 1 .. Len(G[h])
    BY ONLY <1>1
  <2>2. c \in ToSet(G[h])
    BY Zenon DEF G
  <2> QED BY ONLY <2>1, <2>2 DEF ToSet
<1>4. \A a, b \in 1 .. Len(G) : \A p \in 1 .. Len(G[a]), q \in 1 .. Len(G[b]) : G[a][p] = G[b][q] => a = b
  BY <1>1 DEF IsGrouping
<1> QED BY <1>2, <1>3, <1>4 DEF G

LEMMA GroupsCover ==
    ASSUME NEW s \in 1 .. Len(Asked), NEW c \in ToSet(Asked[s])
    PROVE  \E g \in 1 .. Len(Groups(Asked[s])) : c \in ToSet(Groups(Asked[s])[g])
<1> DEFINE G == Groups(Asked[s])
<1>1. IsGrouping(G, Asked[s], Len(Asked[s])) /\ Asked[s] \in Seq(Calls) /\ \A g \in 1 .. Len(G) : G[g] \in Seq(Calls)
  BY AskedCalls, GroupsAreGrouping, GroupFacts
<1> HIDE DEF G
<1>2. PICK j \in 1 .. Len(Asked[s]) : Asked[s][j] = c
  BY <1>1 DEF ToSet
<1>3. PICK g \in 1 .. Len(G) : \E i \in 1 .. Len(G[g]) : G[g][i] = c
  BY <1>1, <1>2 DEF IsGrouping
<1>4. c \in ToSet(G[g])
  BY <1>1, <1>3 DEF ToSet
<1> QED BY <1>4 DEF G

LEMMA GroupsAreFinite ==
    ASSUME NEW s \in 1 .. Len(Asked)
    PROVE  Len(Groups(Asked[s])) \in Nat
BY AskedCalls, GroupsAreGrouping DEF IsGrouping

LEMMA StepsApart ==
    ASSUME NEW s \in 1 .. Len(Asked), NEW t \in 1 .. Len(Asked), NEW c,
           c \in ToSet(Asked[s]), c \in ToSet(Asked[t])
    PROVE  s = t
<1>1. DOMAIN Asked = 1 .. Len(Asked)
  BY AskedAssumption
<1> QED BY <1>1, AskedAssumption

\* The call that is executed for another, of the same group and key.
LEMMA CanonicalFacts ==
    ASSUME Current \in Seq(Calls), NEW c \in ToSet(Current)
    PROVE  /\ Canonical(c) \in Canonicals
           /\ KeyOf[Canonical(c)] = KeyOf[c]
<1> DEFINE like(d) == {i \in 1 .. Len(Current) : KeyOf[Current[i]] = KeyOf[d]}
           cc == Canonical(c)
<1>1. \A d : Canonical(d) = Current[IF like(d) # {} THEN Min(like(d)) ELSE 0]
  BY DEF Canonical, SelectInSeq
<1>2. DOMAIN Current = 1 .. Len(Current)
  OBVIOUS
<1>3. like(c) # {}
  BY <1>2 DEF ToSet
<1>4. Min(like(c)) \in like(c)
  <2>1. like(c) \in SUBSET Nat
    OBVIOUS
  <2> HIDE DEF like
  <2> QED BY <1>3, <2>1, LeastOf
<1>5. cc = Current[Min(like(c))]
  BY <1>1, <1>3
<1>6. cc \in ToSet(Current) /\ KeyOf[cc] = KeyOf[c]
  BY <1>2, <1>4, <1>5 DEF ToSet
<1>7. like(cc) = like(c)
  BY <1>6
<1>8. Canonical(cc) = cc
  <2> HIDE DEF like, cc
  <2> QED BY <1>1, <1>3, <1>5, <1>7
<1> QED BY <1>6, <1>8 DEF Canonicals

\* The first call of a group is executed.
LEMMA SomethingToStart ==
    ASSUME Current \in Seq(Calls), 1 \in DOMAIN Current
    PROVE  Canonicals # {}
<1>1. Current[1] \in ToSet(Current)
  BY DEF ToSet
<1> QED BY <1>1, CanonicalFacts

LEMMA NextToStartFacts ==
    ASSUME Current \in Seq(Calls), toStart # {}, toStart \subseteq ToSet(Current)
    PROVE  NextToStart \in toStart
<1> DEFINE left == {i \in 1 .. Len(Current) : Current[i] \in toStart}
<1>1. left # {} /\ left \in SUBSET Nat
  BY DEF ToSet
<1>2. NextToStart = Current[Min(left)]
  <2>1. SelectInSeq(Current, LAMBDA c : c \in toStart) = IF left # {} THEN Min(left) ELSE 0
    BY DEF SelectInSeq
  <2> QED BY <1>1, <2>1 DEF NextToStart
<1>3. Min(left) \in left
  <2> HIDE DEF left
  <2> QED BY <1>1, LeastOf
<1> QED BY <1>2, <1>3

LEMMA PlaceFacts ==
    ASSUME PlaceInv
    PROVE  /\ step \in Nat /\ group \in Nat /\ Len(Asked) \in Nat /\ Len(StepGroups) \in Nat
           /\ StepGroups = Groups(Asked[step])
           /\ group <= Len(StepGroups) =>
                /\ group \in 1 .. Len(StepGroups)
                /\ Current \in Seq(Calls) /\ 1 \in DOMAIN Current
                /\ ToSet(Current) \subseteq ToSet(Asked[step]) /\ ToSet(Current) \subseteq Calls
                /\ ToolOf[Current[1]] = "change" => ToSet(Current) = {Current[1]}
                /\ ToolOf[Current[1]] # "change" => ToSet(Current) \subseteq Inspections
                /\ ToSet(Current) \intersect Behind = {}
<1>1. step \in 1 .. Len(Asked) /\ Len(Asked) \in Nat /\ StepGroups = Groups(Asked[step])
  BY AskedAssumption DEF PlaceInv, StepGroups
<1>2. Len(StepGroups) \in Nat
  BY <1>1, GroupsAreFinite
<1>3. step \in Nat /\ group \in Nat
  BY <1>1, <1>2 DEF PlaceInv
<1>4. ASSUME group <= Len(StepGroups)
      PROVE  /\ group \in 1 .. Len(StepGroups)
             /\ Current \in Seq(Calls) /\ 1 \in DOMAIN Current
             /\ ToSet(Current) \subseteq ToSet(Asked[step]) /\ ToSet(Current) \subseteq Calls
             /\ ToolOf[Current[1]] = "change" => ToSet(Current) = {Current[1]}
             /\ ToolOf[Current[1]] # "change" => ToSet(Current) \subseteq Inspections
             /\ ToSet(Current) \intersect Behind = {}
  <2>1. group \in 1 .. Len(Groups(Asked[step])) /\ Current = Groups(Asked[step])[group]
    BY <1>1, <1>2, <1>4 DEF PlaceInv, Current
  <2>2. /\ Current \in Seq(Calls) /\ 1 \in DOMAIN Current
        /\ ToSet(Current) \subseteq ToSet(Asked[step]) /\ ToSet(Current) \subseteq Calls
        /\ ToolOf[Current[1]] = "change" => ToSet(Current) = {Current[1]}
        /\ ToolOf[Current[1]] # "change" => ToSet(Current) \subseteq Inspections
    BY <1>1, <2>1, GroupFacts
  <2>3. ASSUME NEW c \in ToSet(Current), c \in Behind PROVE FALSE
    <3>1. ASSUME NEW s \in 1 .. step - 1, c \in ToSet(Asked[s]) PROVE FALSE
      <4>1. s \in 1 .. Len(Asked) /\ s # step /\ c \in ToSet(Asked[step])
        BY <1>1, <2>2, <2>3
      <4> QED BY <1>1, <3>1, <4>1, StepsApart
    <3>2. ASSUME NEW g \in 1 .. group - 1, c \in ToSet(Groups(Asked[step])[g]) PROVE FALSE
      <4>1. g \in 1 .. Len(Groups(Asked[step])) /\ g # group
        BY <2>1
      <4>2. c \in ToSet(Groups(Asked[step])[group])
        BY <2>1, <2>3
      <4>3. step \in 1 .. Len(Asked) /\ group \in 1 .. Len(Groups(Asked[step]))
        BY <1>1, <2>1
      <4> QED BY ONLY <3>2, <4>1, <4>2, <4>3, GroupsApart
    <3> QED BY <2>3, <3>1, <3>2 DEF Behind, CallsOfSteps, CallsOfGroups
  <2> QED BY <1>1, <2>1, <2>2, <2>3
<1> QED BY <1>1, <1>2, <1>3, <1>4

LEMMA BehindCalls ==
    ASSUME PlaceInv
    PROVE  Behind \subseteq Calls
<1>1. step \in 1 .. Len(Asked) /\ step \in Nat /\ Len(Asked) \in Nat /\ Len(StepGroups) \in Nat
      /\ group \in 1 .. Len(StepGroups) + 1 /\ StepGroups = Groups(Asked[step])
  BY PlaceFacts DEF PlaceInv
<1>2. \A s \in 1 .. step - 1 : ToSet(Asked[s]) \subseteq Calls
  <2>1. \A s \in 1 .. step - 1 : s \in 1 .. Len(Asked)
    BY <1>1
  <2> QED BY <2>1, AskedCalls
<1>3. \A g \in 1 .. group - 1 : ToSet(Groups(Asked[step])[g]) \subseteq Calls
  <2>1. \A g \in 1 .. group - 1 : g \in 1 .. Len(Groups(Asked[step]))
    BY <1>1
  <2> QED BY <1>1, <2>1, GroupFacts
<1> QED BY <1>2, <1>3 DEF Behind, CallsOfSteps, CallsOfGroups

\* A group more is behind the turn,
LEMMA BehindGroup ==
    ASSUME PlaceInv, group <= Len(StepGroups), step' = step, group' = group + 1
    PROVE  Behind' = Behind \union ToSet(Current)
<1>1. group \in Nat /\ group \in 1 .. group /\ StepGroups = Groups(Asked[step])
  BY PlaceFacts
<1>2. 1 .. group = (1 .. group - 1) \union {group}
  BY <1>1
<1>3. CallsOfGroups(step, group) = CallsOfGroups(step, group - 1) \union ToSet(Current)
  BY <1>1, <1>2 DEF CallsOfGroups, Current
<1>4. Behind' = CallsOfSteps(step - 1) \union CallsOfGroups(step, group)
  BY <1>1 DEF Behind
<1> QED BY <1>3, <1>4 DEF Behind

\* or a step, which changes nothing once all its groups are.
LEMMA BehindStep ==
    ASSUME PlaceInv, group = Len(StepGroups) + 1, step' = step + 1, group' = 1
    PROVE  Behind' = Behind
<1>1. step \in 1 .. Len(Asked) /\ step \in Nat /\ Len(StepGroups) \in Nat /\ StepGroups = Groups(Asked[step])
  BY PlaceFacts DEF PlaceInv
<1>2. CallsOfGroups(step, group - 1) = ToSet(Asked[step])
  <2>1. group - 1 = Len(StepGroups)
    BY <1>1
  <2>2. \A g \in 1 .. Len(StepGroups) : ToSet(Groups(Asked[step])[g]) \subseteq ToSet(Asked[step])
    BY <1>1, GroupFacts
  <2>3. \A c \in ToSet(Asked[step]) : \E g \in 1 .. Len(StepGroups) : c \in ToSet(Groups(Asked[step])[g])
    BY <1>1, GroupsCover
  <2> QED BY <2>1, <2>2, <2>3 DEF CallsOfGroups
<1>3. 1 .. step = (1 .. step - 1) \union {step} /\ step' - 1 = step
  BY <1>1
<1>4. CallsOfSteps(step) = CallsOfSteps(step - 1) \union ToSet(Asked[step])
  BY <1>3 DEF CallsOfSteps
<1>5. CallsOfGroups(step', group' - 1) = {}
  <2>1. 1 .. group' - 1 = {}
    OBVIOUS
  <2> QED BY <2>1 DEF CallsOfGroups
<1>6. Behind' = CallsOfSteps(step' - 1) \union CallsOfGroups(step', group' - 1)
  BY DEF Behind
<1> QED BY <1>2, <1>3, <1>4, <1>5, <1>6 DEF Behind

-----------------------------------------------------------------------------
(* Steps.                                                                  *)

LEMMA SameGroup ==
    ASSUME step' = step, group' = group
    PROVE  /\ StepGroups' = StepGroups /\ Current' = Current /\ Behind' = Behind
           /\ Canonicals' = Canonicals /\ \A c : Canonical(c)' = Canonical(c)
<1>1. StepGroups' = StepGroups /\ Behind' = Behind
  BY DEF StepGroups, Behind
<1>2. Current' = Current
  BY <1>1 DEF Current
<1>3. ASSUME NEW c PROVE Canonical(c)' = Canonical(c)
  BY <1>2 DEF Canonical, SelectInSeq
<1>4. Canonicals' = {c \in ToSet(Current') : Canonical(c)' = c}
  BY DEF Canonicals
<1>5. Canonicals' = Canonicals
  BY <1>2, <1>3, <1>4 DEF Canonicals
<1> QED BY <1>1, <1>2, <1>3, <1>5

\* What a step leaves alone when it leaves the variables of a part alone.
LEMMA ItemsStay ==
    ASSUME ItemsInv, RequestInv, UNCHANGED provider, Sent' = Sent
    PROVE  ItemsInv' /\ RequestInv'
BY DEF ItemsInv, RequestInv, ReachedAt, provider

LEMMA SentStays ==
    ASSUME step' = step, phase' = "ended" <=> phase = "ended"
    PROVE  Sent' = Sent
BY DEF Sent

LEMMA ResultsStay ==
    ASSUME FoundInv, SourceInv, CoverageInv, UNCHANGED <<found, answer, coverage>>
    PROVE  FoundInv' /\ SourceInv' /\ CoverageInv'
BY DEF FoundInv, SourceInv, CoverageInv

LEMMA AnswersStay ==
    ASSUME PlaceInv, AnswerInv, UNCHANGED <<step, group, answer>>, AtHand \subseteq AtHand',
           phase' \in BatchPhases => \A c \in ToSet(Current) : answer[c] # Nothing <=> answer[Canonical(c)] # Nothing,
           phase' = "submitting" => \A c \in Canonicals : answer[c] # Nothing
    PROVE  AnswerInv'
<1>1. Current' = Current /\ Behind' = Behind /\ Canonicals' = Canonicals /\ \A c : Canonical(c)' = Canonical(c)
  BY SameGroup
<1>2. answer' = answer
  OBVIOUS
<1>3. \A c \in Calls : answer'[c] # Nothing => c \in Behind' \union AtHand'
  BY <1>1, <1>2 DEF AnswerInv
<1>4. phase' \in BatchPhases =>
         \A c \in ToSet(Current') : answer'[c] # Nothing <=> answer'[Canonical(c)'] # Nothing
  BY <1>1, <1>2
<1>5. phase' = "submitting" => \A c \in Canonicals' : answer'[c] # Nothing
  BY <1>1, <1>2
<1> QED BY <1>1, <1>2, <1>3, <1>4, <1>5 DEF AnswerInv

\* A step that changes the limiter and the findings at most.
LEMMA TurnStays ==
    ASSUME TurnInv, UNCHANGED <<turn, toStart, answer, coverage, provider>>
    PROVE  PlaceInv' /\ AnswerInv' /\ CoverageInv' /\ ItemsInv' /\ RequestInv'
<1>1. /\ UNCHANGED <<step, group, phase>> /\ StepGroups' = StepGroups /\ Current' = Current
      /\ AtHand' = AtHand
  BY SameGroup DEF turn, AtHand
<1>2. PlaceInv'
  BY <1>1 DEF TurnInv, PlaceInv
<1>3. AnswerInv'
  BY <1>1, AnswersStay DEF TurnInv, AnswerInv
<1>4. Sent' = Sent
  BY <1>1, SentStays
<1>5. ItemsInv' /\ RequestInv'
  BY <1>4, ItemsStay DEF TurnInv
<1> QED BY <1>2, <1>3, <1>5 DEF TurnInv, CoverageInv

LEMMA QuietInv ==
    ASSUME TurnInv, UNCHANGED <<turn, batch, coverage, provider>>
    PROVE  TurnInv'
<1>1. UNCHANGED <<turn, toStart, answer, coverage, provider, found>>
  BY DEF batch
<1>2. PlaceInv' /\ AnswerInv' /\ CoverageInv' /\ ItemsInv' /\ RequestInv'
  BY <1>1, TurnStays
<1>3. FoundInv' /\ SourceInv'
  BY <1>1, ResultsStay DEF TurnInv
<1> QED BY <1>2, <1>3 DEF TurnInv

LEMMA OperationEndsInv ==
    ASSUME TurnInv, NEW c \in Inspections, OperationEnds(c)
    PROVE  TurnInv'
<1>1. UNCHANGED <<turn, toStart, answer, coverage, provider>>
  BY DEF OperationEnds
<1>2. PICK f \in Findings(c) : found' = [found EXCEPT ![c] = f]
  BY DEF OperationEnds
<1>3. f.kind \in {"failed", "thrown"} \/ (f.kind = "completed" /\ f.content \in Finds[c])
  BY DEF Findings
<1>4. f # Nothing
  BY <1>3 DEF Nothing
<1>5. found' = [d \in Calls |-> found'[d]] /\ \A d \in Calls : found'[d] = IF d = c THEN f ELSE found[d]
  BY <1>2 DEF TurnInv, FoundInv
<1>6. \A d \in Inspections : d \in Calls
  BY DEF Inspections
<1>7. FoundInv'
  BY <1>3, <1>5, <1>6 DEF TurnInv, FoundInv
<1>8. \A d \in Inspections : found[d] # Nothing => found'[d] # Nothing
  BY <1>4, <1>5, <1>6
<1>9. SourceInv'
  BY <1>1, <1>8 DEF TurnInv, SourceInv
<1> QED BY <1>1, <1>7, <1>9, TurnStays DEF TurnInv

LEMMA StartBatchInv ==
    ASSUME TurnInv, StartBatch
    PROVE  TurnInv'
<1>1. /\ phase = "group" /\ phase' = "starting" /\ UNCHANGED <<step, group, found, answer, coverage, provider>>
      /\ group <= Len(StepGroups) /\ ToolOf[Current[1]] # "change" /\ toStart' = Canonicals
  BY DEF StartBatch
<1>2. /\ group \in 1 .. Len(StepGroups) /\ Current \in Seq(Calls) /\ 1 \in DOMAIN Current
      /\ ToSet(Current) \subseteq Inspections /\ ToSet(Current) \subseteq Calls /\ ToSet(Current) \intersect Behind = {}
  BY <1>1, PlaceFacts DEF TurnInv
<1>3. Canonicals # {} /\ Canonicals \subseteq ToSet(Current)
  BY <1>2, SomethingToStart DEF Canonicals
<1>4. StepGroups' = StepGroups /\ Current' = Current
  BY <1>1, SameGroup
<1>5. PlaceInv'
  BY <1>1, <1>2, <1>3, <1>4 DEF TurnInv, PlaceInv, BatchPhases, Phases
<1>6. AtHand = {} /\ \A c \in ToSet(Current) : answer[c] = Nothing
  <2>1. AtHand = {}
    BY <1>1 DEF AtHand, BatchPhases
  <2> QED BY <2>1, <1>2 DEF TurnInv, AnswerInv
<1>7. \A c \in ToSet(Current) : Canonical(c) \in ToSet(Current)
  BY <1>2, <1>3, CanonicalFacts
<1>8. AnswerInv'
  BY <1>1, <1>6, <1>7, AnswersStay DEF TurnInv
<1>9. ItemsInv' /\ RequestInv'
  BY <1>1, SentStays, ItemsStay DEF TurnInv
<1> QED BY <1>1, <1>5, <1>8, <1>9, ResultsStay DEF TurnInv

LEMMA StartCallInv ==
    ASSUME TurnInv, StartCall
    PROVE  TurnInv' /\ NextToStart \in Inspections
<1>1. /\ phase = "starting" /\ UNCHANGED <<step, group, found, answer, coverage, provider>>
      /\ toStart' = toStart \ {NextToStart}
      /\ phase' = IF toStart' = {} THEN "looping" ELSE "starting"
  BY DEF StartCall
<1>2. /\ group \in 1 .. Len(StepGroups) /\ ToSet(Current) \subseteq Inspections
      /\ toStart # {} /\ toStart \subseteq ToSet(Current)
  BY <1>1 DEF TurnInv, PlaceInv, BatchPhases
<1>3. Current \in Seq(Calls)
  BY <1>2, PlaceFacts DEF TurnInv
<1>4. NextToStart \in toStart
  BY <1>2, <1>3, NextToStartFacts
<1>5. StepGroups' = StepGroups /\ Current' = Current
  BY <1>1, SameGroup
<1>6. PlaceInv'
  BY <1>1, <1>2, <1>5 DEF TurnInv, PlaceInv, BatchPhases, Phases
<1>7. phase \in BatchPhases /\ phase' \in BatchPhases /\ AtHand' = AtHand /\ phase' # "submitting"
  BY <1>1, <1>5 DEF AtHand, BatchPhases
<1>8. AnswerInv'
  BY <1>1, <1>7, AnswersStay DEF TurnInv, AnswerInv
<1>9. ItemsInv' /\ RequestInv'
  BY <1>1, SentStays, ItemsStay DEF TurnInv
<1> QED BY <1>1, <1>2, <1>4, <1>6, <1>8, <1>9, ResultsStay DEF TurnInv

LEMMA LoopInv ==
    ASSUME TurnInv, Loop
    PROVE  TurnInv'
<1>1. /\ phase = "looping" /\ UNCHANGED <<step, group, batch, coverage, provider>>
      /\ phase' \in {"submitting", "throwing", "racing"}
      /\ phase' = "submitting" => \A c \in Canonicals : answer[c] # Nothing
  BY DEF Loop
<1>2. UNCHANGED <<toStart, found, answer>>
  BY <1>1 DEF batch
<1>3. StepGroups' = StepGroups /\ Current' = Current
  BY <1>1, SameGroup
<1>4. phase \in BatchPhases /\ phase' \in BatchPhases /\ AtHand' = AtHand
  BY <1>1, <1>3 DEF AtHand, BatchPhases
<1>5. PlaceInv'
  BY <1>1, <1>2, <1>3, <1>4 DEF TurnInv, PlaceInv, Phases
<1>6. AnswerInv'
  BY <1>1, <1>2, <1>4, AnswersStay DEF TurnInv, AnswerInv
<1>7. ItemsInv' /\ RequestInv'
  BY <1>1, SentStays, ItemsStay DEF TurnInv
<1> QED BY <1>1, <1>2, <1>5, <1>6, <1>7, ResultsStay DEF TurnInv

LEMMA EndInterruptedInv ==
    ASSUME TurnInv, EndInterrupted
    PROVE  TurnInv'
<1>1. phase = "group" /\ phase' = "failed" /\ UNCHANGED <<step, group, batch, coverage, provider>>
  BY DEF EndInterrupted
<1>2. UNCHANGED <<toStart, found, answer>>
  BY <1>1 DEF batch
<1>3. StepGroups' = StepGroups /\ Current' = Current
  BY <1>1, SameGroup
<1>4. AtHand = {} /\ phase' \notin BatchPhases
  BY <1>1 DEF AtHand, BatchPhases
<1>5. PlaceInv'
  BY <1>1, <1>2, <1>3, <1>4 DEF TurnInv, PlaceInv, Phases
<1>6. AnswerInv'
  BY <1>1, <1>2, <1>4, AnswersStay DEF TurnInv, BatchPhases
<1>7. ItemsInv' /\ RequestInv'
  BY <1>1, SentStays, ItemsStay DEF TurnInv
<1> QED BY <1>1, <1>2, <1>5, <1>6, <1>7, ResultsStay DEF TurnInv

LEMMA BatchEndsInv ==
    ASSUME TurnInv, BatchEnds
    PROVE  TurnInv'
<1>1. /\ phase \in {"submitting", "throwing"} /\ UNCHANGED <<step, batch, coverage, provider>>
      /\ phase' = "failed" \/ phase' = "group"
  BY DEF BatchEnds
<1>2. UNCHANGED <<toStart, found, answer>> /\ phase \in BatchPhases /\ toStart = {}
  BY <1>1 DEF batch, BatchPhases, TurnInv, PlaceInv
<1>3. ItemsInv' /\ RequestInv'
  BY <1>1, SentStays, ItemsStay DEF TurnInv
<1>4. FoundInv' /\ SourceInv' /\ CoverageInv'
  BY <1>1, <1>2, ResultsStay DEF TurnInv
<1>5. group \in 1 .. Len(StepGroups) /\ Len(StepGroups) \in Nat
  BY <1>2, PlaceFacts DEF TurnInv, PlaceInv
<1>6. CASE phase' = "failed" /\ group' = group
  <2>1. StepGroups' = StepGroups /\ Current' = Current
    BY <1>1, <1>6, SameGroup
  <2>2. AtHand' = AtHand /\ phase' \notin BatchPhases
    BY <1>2, <1>6, <2>1 DEF AtHand, BatchPhases
  <2>3. PlaceInv'
    BY <1>1, <1>2, <1>6, <2>1, <2>2 DEF TurnInv, PlaceInv, Phases
  <2>4. AnswerInv'
    BY <1>1, <1>2, <1>6, <2>2, AnswersStay DEF TurnInv, BatchPhases
  <2> QED BY <1>3, <1>4, <2>3, <2>4 DEF TurnInv
<1>7. CASE phase = "submitting" /\ phase' = "group" /\ group' = group + 1
  <2>1. StepGroups' = StepGroups /\ group' \in 1 .. Len(StepGroups) + 1
    BY <1>1, <1>5, <1>7 DEF StepGroups
  <2>2. PlaceInv'
    BY <1>1, <1>2, <1>7, <2>1 DEF TurnInv, PlaceInv, Phases, BatchPhases
  <2>3. group <= Len(StepGroups)
    BY <1>5
  <2>4. Behind' = Behind \union ToSet(Current)
    BY <1>1, <1>7, <2>3, BehindGroup DEF TurnInv
  <2>5. AtHand = ToSet(Current) /\ AtHand' = {}
    BY <1>2, <1>7, <2>3 DEF AtHand, BatchPhases
  <2>6. \A c \in ToSet(Current) : answer[c] # Nothing
    <3>1. Current \in Seq(Calls)
      BY <2>3, PlaceFacts DEF TurnInv
    <3>2. \A c \in ToSet(Current) : Canonical(c) \in Canonicals
      BY <3>1, CanonicalFacts
    <3> QED BY <1>2, <1>7, <3>2 DEF TurnInv, AnswerInv
  <2>7. AnswerInv'
    BY <1>2, <1>7, <2>4, <2>5, <2>6 DEF TurnInv, AnswerInv, BatchPhases
  <2> QED BY <1>3, <1>4, <2>2, <2>7 DEF TurnInv
<1> QED BY <1>6, <1>7 DEF BatchEnds

\* A change is answered and leaves nothing of what has been read.
LEMMA ChangeInv ==
    ASSUME TurnInv, Change
    PROVE  TurnInv'
<1> DEFINE x == Current[1]
           done == [kind |-> "done"]
<1>1. /\ phase = "group" /\ phase' = "group" /\ UNCHANGED <<step, toStart, found, provider>> /\ group' = group + 1
      /\ group <= Len(StepGroups) /\ ToolOf[x] = "change" /\ coverage' = <<>>
      /\ answer' = [answer EXCEPT ![x] = done]
  BY DEF Change
<1>2. /\ group \in 1 .. Len(StepGroups) /\ Len(StepGroups) \in Nat
      /\ ToSet(Current) = {x} /\ ToSet(Current) \subseteq Calls /\ ToSet(Current) \intersect Behind = {}
  BY <1>1, PlaceFacts DEF TurnInv
<1>3. x \in Calls /\ x \notin Inspections /\ x \notin Behind
  BY <1>1, <1>2 DEF Inspections
<1>4. AtHand = {} /\ AtHand' = {}
  BY <1>1 DEF AtHand, BatchPhases
<1>5. answer[x] = Nothing
  BY <1>3, <1>4 DEF TurnInv, AnswerInv
<1> HIDE DEF x
<1>6. answer' = [c \in Calls |-> answer'[c]] /\ \A c \in Calls : answer'[c] = IF c = x THEN done ELSE answer[c]
  BY <1>1, <1>3 DEF TurnInv, AnswerInv
<1>7. done # Nothing /\ done.kind = "done" /\ Nothing.kind = "none"
  BY DEF Nothing
<1> HIDE DEF done
<1>8. PlaceInv'
  <2>1. StepGroups' = StepGroups /\ group' \in 1 .. Len(StepGroups) + 1
    BY <1>1, <1>2 DEF StepGroups
  <2> QED BY <1>1, <2>1 DEF TurnInv, PlaceInv, BatchPhases
<1>9. Behind' = Behind \union {x}
  BY <1>1, <1>2, BehindGroup DEF TurnInv
<1>10. AnswerInv'
  <2>1. \A c \in Calls : answer'[c] # Nothing => c \in Behind' \union AtHand'
    BY <1>4, <1>6, <1>9 DEF TurnInv, AnswerInv
  <2>2. \A c \in Behind' : answer'[c] # Nothing
    <3>1. Behind \subseteq Calls
      BY BehindCalls DEF TurnInv
    <3> QED BY <1>3, <1>6, <1>7, <1>9, <3>1 DEF TurnInv, AnswerInv
  <2> QED BY <1>1, <1>6, <2>1, <2>2 DEF AnswerInv, BatchPhases
<1>11. SourceInv'
  <2>1. \A c \in Inspections : c \in Calls /\ answer'[c] = answer[c]
    BY <1>3, <1>6 DEF Inspections
  <2>2. \A c \in Inspections : answer'[c] # Nothing =>
            \E d \in Inspections : KeyOf[d] = KeyOf[c] /\ found'[d] # Nothing
    BY <1>1, <2>1 DEF TurnInv, SourceInv
  <2>3. ASSUME NEW c \in Calls, answer'[c].kind = "duplicate"
        PROVE  \E s \in 1 .. Len(Asked) :
                  /\ c \in ToSet(Asked[s]) /\ answer'[c].of \in ToSet(Asked[s])
                  /\ answer'[answer'[c].of].kind \in {"completed", "over_budget"}
    <3>1. answer'[c] = answer[c]
      BY <1>6, <1>7, <2>3
    <3>2. PICK s \in 1 .. Len(Asked) :
                  /\ c \in ToSet(Asked[s]) /\ answer[c].of \in ToSet(Asked[s])
                  /\ answer[answer[c].of].kind \in {"completed", "over_budget"}
      BY <2>3, <3>1 DEF TurnInv, SourceInv
    <3>3. answer[c].of \in Calls /\ answer[c].of # x
      BY <1>5, <1>7, <3>2, AskedCalls
    <3> QED BY <1>6, <3>1, <3>2, <3>3
  <2> QED BY <2>2, <2>3 DEF SourceInv
<1>12. CoverageInv' /\ FoundInv'
  BY <1>1 DEF CoverageInv, TurnInv, FoundInv
<1>13. ItemsInv' /\ RequestInv'
  <2>1. Sent' = Sent
    BY <1>1, SentStays
  <2> QED BY <1>1, <2>1, ItemsStay DEF TurnInv
<1> QED BY <1>8, <1>10, <1>11, <1>12, <1>13 DEF TurnInv

\* What a call and its duplicates are answered with.
LEMMA ResultKinds ==
    ASSUME NEW c, NEW f, f.kind \in {"failed", "completed"}
    PROVE  /\ ResultOf(c, f) # Nothing /\ DuplicateResult(c, f) # Nothing
           /\ ResultOf(c, f).kind # "duplicate"
           /\ DuplicateResult(c, f).kind = "duplicate" =>
                 DuplicateResult(c, f).of = c /\ ResultOf(c, f).kind \in {"completed", "over_budget"}
<1>1. Nothing.kind = "none"
  BY DEF Nothing
<1>2. CASE f.kind = "failed"
  <2>1. ResultOf(c, f) = f /\ DuplicateResult(c, f) = f
    BY <1>2 DEF ResultOf, DuplicateResult
  <2> QED BY <1>1, <1>2, <2>1
<1>3. CASE f.kind = "completed"
  <2>1. ResultOf(c, f).kind \in {"completed", "over_budget"}
    <3>1. CASE f.content.length = "over_budget"
      <4>1. ResultOf(c, f) = [kind |-> "over_budget", of |-> c]
        BY <1>3, <3>1 DEF ResultOf
      <4> QED BY <4>1
    <3>2. CASE f.content.length # "over_budget"
      <4>1. ResultOf(c, f) =
                [kind |-> "completed", content |-> f.content, version |-> f.version,
                 advisory |-> IF IsCovering(f) THEN Advisory(f.content.lines, coverage) ELSE NoAdvisory,
                 of |-> c]
        BY <1>3, <3>2, Zenon DEF ResultOf
      <4> QED BY <4>1
    <3> QED BY <3>1, <3>2
  <2>2. DuplicateResult(c, f) = [kind |-> "duplicate", of |-> c]
    BY <1>3 DEF DuplicateResult
  <2> QED BY <1>1, <2>1, <2>2
<1> QED BY <1>2, <1>3

LEMMA AnswerGiven ==
    ASSUME TurnInv, NEW c \in Inspections, phase = "racing", c \in Canonicals, found[c] # Nothing,
           answer[c] = Nothing, found[c].kind # "thrown", phase' = "looping",
           answer' = [d \in Calls |-> IF d = c THEN ResultOf(c, found[c])
                                      ELSE IF d \in {c} \union DuplicatesOf(c) THEN DuplicateResult(c, found[c])
                                      ELSE answer[d]],
           UNCHANGED <<step, group, found>>
    PROVE  AnswerInv' /\ SourceInv'
<1> DEFINE f == found[c]
           result == ResultOf(c, f)
           same == DuplicateResult(c, f)
           answered == {d \in ToSet(Current) : Canonical(d) = c}
<1>1. /\ group \in 1 .. Len(StepGroups) /\ ToSet(Current) \subseteq Inspections /\ phase \in BatchPhases
      /\ ToSet(Current) \subseteq Calls /\ Current \in Seq(Calls) /\ ToSet(Current) \subseteq ToSet(Asked[step])
      /\ step \in 1 .. Len(Asked)
  <2>1. group \in 1 .. Len(StepGroups) /\ ToSet(Current) \subseteq Inspections /\ phase \in BatchPhases
    BY DEF TurnInv, PlaceInv, BatchPhases
  <2> QED BY <2>1, PlaceFacts DEF TurnInv, PlaceInv
<1>2. f.kind \in {"failed", "completed"}
  BY DEF TurnInv, FoundInv
<1>3. /\ result # Nothing /\ same # Nothing /\ result.kind # "duplicate"
      /\ same.kind = "duplicate" => same.of = c /\ result.kind \in {"completed", "over_budget"}
  BY <1>2, ResultKinds
<1>4. c \in answered /\ c \in ToSet(Current) /\ Canonical(c) = c /\ c \in Calls
  BY <1>1 DEF Canonicals
<1>5. {c} \union DuplicatesOf(c) = answered
  BY <1>4 DEF DuplicatesOf
<1> HIDE DEF f, result, same, answered
<1>6. /\ answer' = [d \in Calls |-> answer'[d]]
      /\ \A d \in Calls : answer'[d] = IF d = c THEN result ELSE IF d \in answered THEN same ELSE answer[d]
  BY <1>5 DEF f, result, same
<1>7. \A d \in answered : d \in ToSet(Current) /\ d \in Calls /\ Canonical(d) = c /\ answer[d] = Nothing
  BY <1>1 DEF answered, TurnInv, AnswerInv
<1>8. \A d \in Calls : d \in answered => answer'[d] # Nothing
  BY <1>3, <1>6
<1>9. \A d \in Calls : d \notin answered => answer'[d] = answer[d]
  BY <1>4, <1>6
<1>10. Current' = Current /\ Behind' = Behind /\ Canonicals' = Canonicals /\ StepGroups' = StepGroups
  BY SameGroup
<1>11. \A d : Canonical(d)' = Canonical(d)
  BY SameGroup
<1>12. AtHand = ToSet(Current) /\ AtHand' = ToSet(Current)
  <2>1. group <= Len(StepGroups)
    BY <1>1
  <2> QED BY <1>1, <1>10, <2>1 DEF AtHand, BatchPhases
<1>13. AnswerInv'
  <2>1. \A d \in Calls : answer'[d] # Nothing => d \in Behind' \union AtHand'
    BY <1>7, <1>9, <1>10, <1>12 DEF TurnInv, AnswerInv
  <2>2. \A d \in Behind' : answer'[d] # Nothing
    <3>1. \A d \in Behind : d \notin answered /\ answer[d] # Nothing
      BY <1>7 DEF TurnInv, AnswerInv
    <3>2. \A d \in Behind : d \in Calls
      BY PlaceFacts, BehindCalls DEF TurnInv
    <3> QED BY <1>9, <1>10, <3>1, <3>2
  <2>3. ASSUME NEW d \in ToSet(Current) PROVE answer'[d] # Nothing <=> answer'[Canonical(d)] # Nothing
    <3>1. Canonical(d) \in Canonicals /\ Canonical(d) \in ToSet(Current) /\ Canonical(Canonical(d)) = Canonical(d)
      BY <1>1, CanonicalFacts DEF Canonicals
    <3>2. CASE Canonical(d) = c
      BY <1>4, <1>8, <3>2, <1>1 DEF answered
    <3>3. CASE Canonical(d) # c
      <4>1. d \notin answered /\ Canonical(d) \notin answered
        BY <3>1, <3>3 DEF answered
      <4>2. answer[d] # Nothing <=> answer[Canonical(d)] # Nothing
        BY <1>1 DEF TurnInv, AnswerInv
      <4> QED BY <1>1, <1>9, <3>1, <4>1, <4>2
    <3> QED BY <3>2, <3>3
  <2>4. phase' # "submitting"
    OBVIOUS
  <2> QED BY <1>6, <1>10, <1>11, <2>1, <2>2, <2>3, <2>4 DEF AnswerInv
<1>14. SourceInv'
  <2>1. ASSUME NEW d \in Inspections, answer'[d] # Nothing
        PROVE  \E e \in Inspections : KeyOf[e] = KeyOf[d] /\ found'[e] # Nothing
    <3>1. CASE d \in answered
      <4>1. KeyOf[c] = KeyOf[d]
        BY <1>1, <1>7, <3>1, CanonicalFacts
      <4> QED BY <4>1
    <3>2. CASE d \notin answered
      <4>1. answer[d] # Nothing
        BY <1>9, <2>1, <3>2 DEF Inspections
      <4> QED BY <4>1 DEF TurnInv, SourceInv
    <3> QED BY <3>1, <3>2
  <2>2. ASSUME NEW d \in Calls, answer'[d].kind = "duplicate"
        PROVE  \E s \in 1 .. Len(Asked) :
                  /\ d \in ToSet(Asked[s]) /\ answer'[d].of \in ToSet(Asked[s])
                  /\ answer'[answer'[d].of].kind \in {"completed", "over_budget"}
    <3>1. CASE d \in answered
      <4>1. d # c /\ answer'[d] = same
        BY <1>3, <1>6, <2>2, <3>1
      <4>2. answer'[d].of = c /\ answer'[c].kind \in {"completed", "over_budget"}
        BY <1>3, <1>4, <1>6, <2>2, <4>1
      <4>3. d \in ToSet(Asked[step]) /\ c \in ToSet(Asked[step])
        BY <1>1, <1>4, <1>7, <3>1
      <4> QED BY <1>1, <4>2, <4>3
    <3>2. CASE d \notin answered
      <4>1. answer'[d] = answer[d]
        BY <1>9, <3>2
      <4>2. PICK s \in 1 .. Len(Asked) :
                  /\ d \in ToSet(Asked[s]) /\ answer[d].of \in ToSet(Asked[s])
                  /\ answer[answer[d].of].kind \in {"completed", "over_budget"}
        BY <2>2, <4>1 DEF TurnInv, SourceInv
      <4>3. answer[d].of \in Calls /\ answer[d].of \notin answered
        <5>1. Nothing.kind = "none"
          BY DEF Nothing
        <5> QED BY <1>7, <4>2, <5>1, AskedCalls
      <4> QED BY <1>9, <4>1, <4>2, <4>3
    <3> QED BY <3>1, <3>2
  <2> QED BY <2>1, <2>2 DEF SourceInv
<1> QED BY <1>13, <1>14

LEMMA AnswerActionInv ==
    ASSUME TurnInv, NEW c \in Inspections, Answer(c)
    PROVE  TurnInv'
<1> DEFINE f == found[c]
<1>1. /\ phase = "racing" /\ c \in Canonicals /\ f # Nothing /\ answer[c] = Nothing
      /\ UNCHANGED <<step, group, toStart, found, provider>>
  BY DEF Answer
<1>2. /\ group \in 1 .. Len(StepGroups) /\ ToSet(Current) \subseteq Inspections /\ phase \in BatchPhases
  BY <1>1 DEF TurnInv, PlaceInv, BatchPhases
<1>3. StepGroups' = StepGroups /\ Current' = Current
  BY <1>1, SameGroup
<1>4. \/ phase' = "throwing" /\ UNCHANGED <<answer, coverage>>
      \/ /\ f.kind # "thrown" /\ phase' = "looping"
         /\ answer' = [d \in Calls |-> IF d = c THEN ResultOf(c, f)
                                       ELSE IF d \in {c} \union DuplicatesOf(c) THEN DuplicateResult(c, f)
                                       ELSE answer[d]]
         /\ \/ IsCovering(f) /\ coverage' = Append(coverage, ReadBy(c, f.content.lines))
            \/ UNCHANGED coverage
  BY DEF Answer
<1>5. PlaceInv'
  BY <1>1, <1>2, <1>3, <1>4 DEF TurnInv, PlaceInv, BatchPhases, Phases
<1>6. ItemsInv' /\ RequestInv'
  <2>1. Sent' = Sent
    BY <1>1, <1>4, SentStays
  <2> QED BY <1>1, <2>1, ItemsStay DEF TurnInv
<1>7. FoundInv'
  BY <1>1 DEF TurnInv, FoundInv
<1>8. CASE phase' = "throwing" /\ UNCHANGED <<answer, coverage>>
  <2>1. AtHand' = AtHand
    BY <1>1, <1>2, <1>3, <1>8 DEF AtHand, BatchPhases
  <2>2. AnswerInv'
    BY <1>1, <1>2, <1>8, <2>1, AnswersStay DEF TurnInv, AnswerInv
  <2>3. SourceInv' /\ CoverageInv'
    BY <1>1, <1>8, ResultsStay DEF TurnInv
  <2> QED BY <1>5, <1>6, <1>7, <2>2, <2>3 DEF TurnInv
<1>9. CASE phase' # "throwing" \/ ~UNCHANGED <<answer, coverage>>
  <2>1. AnswerInv' /\ SourceInv'
    BY <1>1, <1>4, <1>9, AnswerGiven
  <2>2. CoverageInv'
    <3>1. CASE UNCHANGED coverage
      BY <3>1 DEF TurnInv, CoverageInv
    <3>2. CASE IsCovering(f) /\ coverage' = Append(coverage, ReadBy(c, f.content.lines))
      <4>1. f.kind = "completed" /\ f.content.lines # NoLines
        BY <3>2 DEF IsCovering
      <4>2. f.content \in Finds[c]
        BY <1>1, <4>1 DEF TurnInv, FoundInv
      <4>3. ReadBy(c, f.content.lines) \in Reads
        BY <4>1, <4>2 DEF Reads
      <4> QED BY <3>2, <4>3 DEF TurnInv, CoverageInv
    <3> QED BY <1>4, <1>9, <3>1, <3>2
  <2> QED BY <1>5, <1>6, <1>7, <2>1, <2>2 DEF TurnInv
<1> QED BY <1>8, <1>9

\* A sequence is one of its elements.
LEMMA SeqOfItself ==
    ASSUME NEW E, NEW s \in Seq(E)
    PROVE  s \in Seq({s[i] : i \in DOMAIN s})
OBVIOUS

\* What a request that one step's results are added to shows, and how often the
\* results have been shown then.
LEMMA RequestBuilt ==
    ASSUME ItemsInv, NEW R, NEW results \in Seq(R),
           \A i \in 1 .. Len(results) : results[i].call \in Calls,
           \A i \in 1 .. Len(items) : items[i].call \in Calls,
           items' = items \o results,
           counts' = Append(counts, Len(items')),
           request' = Shown(items', counts, crossStep),
           told' = [c \in Calls |-> told[c] +
                      IF \E i \in DOMAIN items' : items'[i].call = c /\ request'[i].as # "cross_step" THEN 1 ELSE 0]
    PROVE  /\ items' \in Seq({items'[i] : i \in DOMAIN items'})
           /\ Len(items') = Len(items) + Len(results)
           /\ \A i \in 1 .. Len(items) : items'[i] = items[i]
           /\ \A i \in 1 .. Len(results) : items'[Len(items) + i] = results[i]
           /\ told' \in [Calls -> Nat]
           /\ counts' \in Seq(Nat) /\ counts' # <<>> /\ counts'[Len(counts')] = Len(items')
           /\ \A i, j \in DOMAIN counts' : i <= j => counts'[i] <= counts'[j]
           /\ \A i \in 1 .. Len(items') :
                /\ told'[items'[i].call] >= 1
                /\ Len(counts') > 1 /\ i <= counts'[Len(counts') - 1] => told'[items'[i].call] >= 2
           /\ RequestInv'
<1> DEFINE E == {items[i] : i \in DOMAIN items} \union {results[i] : i \in DOMAIN results}
           all == items'
           n == Len(items)
           m == Len(results)
           k == Len(counts)
<1>1. items \in Seq(E) /\ results \in Seq(E) /\ n \in Nat /\ m \in Nat
  <2>1. items \in Seq({items[i] : i \in DOMAIN items})
    BY DEF ItemsInv
  <2> QED BY <2>1
<1> HIDE DEF E, n, m
<1>2. /\ all \in Seq(E) /\ Len(all) = n + m
      /\ \A i \in 1 .. n : all[i] = items[i]
      /\ \A i \in 1 .. m : all[n + i] = results[i]
  BY <1>1 DEF n, m
<1>3. all \in Seq({all[i] : i \in DOMAIN all}) /\ DOMAIN all = 1 .. n + m
  <2> HIDE DEF all
  <2>1. all \in Seq({all[i] : i \in DOMAIN all})
    BY <1>2, SeqOfItself
  <2>2. DOMAIN all = 1 .. Len(all)
    BY <1>2
  <2> QED BY <1>2, <2>1, <2>2
<1> HIDE DEF all
<1>4. \A i \in 1 .. n + m : all[i].call \in Calls
  <2> TAKE i \in 1 .. n + m
  <2>1. CASE i \in 1 .. n
    BY <2>1, <1>2 DEF n
  <2>2. CASE i \notin 1 .. n
    <3>1. i - n \in 1 .. m /\ n + (i - n) = i
      BY <2>2, <1>1
    <3> QED BY <3>1, <1>2 DEF m
  <2> QED BY <2>1, <2>2
<1>5. /\ counts \in Seq(Nat) /\ k \in Nat /\ k # 0 /\ counts[k] = n
      /\ \A i, j \in DOMAIN counts : i <= j => counts[i] <= counts[j]
  BY DEF ItemsInv, n
<1>6. /\ request' \in Seq(Ways(all)) /\ ShowsWell(request', all, counts, n + m)
  BY <1>2, ShownShowsWell DEF all
<1>7. /\ Len(request') = n + m
      /\ \A i \in 1 .. n + m :
          /\ request'[i].as \in {"exact", "duplicate", "cross_step"}
          /\ request'[i].as = "cross_step" => IsOldEnough(i, counts)
          /\ request'[i].as = "duplicate" =>
                \E j \in 1 .. i - 1 : /\ request'[j].as = "exact" /\ all[j].text = all[i].text
                                      /\ request'[i].of = all[j].call
  BY <1>6 DEF ShowsWell
<1>8. told \in [Calls -> Nat]
  BY DEF ItemsInv
<1>9. /\ told' \in [Calls -> Nat]
      /\ \A c \in Calls : told'[c] = told[c] +
            IF \E i \in DOMAIN all : all[i].call = c /\ request'[i].as # "cross_step" THEN 1 ELSE 0
  BY <1>8 DEF all
<1>10. ASSUME NEW i \in 1 .. n + m
       PROVE  /\ request'[i].as # "cross_step" =>
                    /\ told'[all[i].call] >= 1
                    /\ told[all[i].call] >= 1 => told'[all[i].call] >= 2
              /\ told[all[i].call] >= 2 => told'[all[i].call] >= 2 /\ told'[all[i].call] >= 1
  <2>1. all[i].call \in Calls /\ i \in DOMAIN all
    BY <1>3, <1>4
  <2> DEFINE x == told[all[i].call]
             y == told'[all[i].call]
             more == IF \E l \in DOMAIN all : all[l].call = all[i].call /\ request'[l].as # "cross_step" THEN 1 ELSE 0
  <2>2. x \in Nat
    BY <1>8, <2>1
  <2>3. y = x + more
    BY <1>9, <2>1
  <2>4. more \in {0, 1} /\ (request'[i].as # "cross_step" => more = 1)
    BY <2>1
  <2> HIDE DEF more, x, y
  <2>5. /\ more = 1 => y >= 1 /\ (x >= 1 => y >= 2)
        /\ x >= 2 => y >= 2 /\ y >= 1
    BY ONLY <2>2, <2>3, <2>4
  <2> QED BY <2>4, <2>5 DEF x, y
<1>11. ASSUME NEW i \in 1 .. n + m, request'[i].as = "cross_step"
       PROVE  k > 1 /\ k - 1 \in DOMAIN counts /\ i <= counts[k - 1] /\ i \in 1 .. n /\ told[all[i].call] >= 2
  <2>1. IsOldEnough(i, counts) /\ i \in Nat
    BY <1>7, <1>11
  <2>2. k - 1 \in DOMAIN counts /\ i <= counts[k - 1]
    BY <1>5, <2>1, OldEnoughWasSent
  <2>3. k \in DOMAIN counts /\ k > 1 /\ k - 1 <= k
    BY <1>5, <2>2
  <2>4. counts[k - 1] <= n /\ counts[k - 1] \in Nat
    BY <1>5, <2>2, <2>3
  <2>5. i \in 1 .. n
    BY <1>1, <2>2, <2>4
  <2>6. told[items[i].call] >= 2
    BY <2>2, <2>3, <2>5 DEF ItemsInv, n, k
  <2> QED BY <1>2, <2>2, <2>3, <2>5, <2>6
<1>12. counts' = Append(counts, n + m)
  BY <1>2 DEF all
<1>13. /\ counts' \in Seq(Nat) /\ Len(counts') = k + 1 /\ counts'[k + 1] = n + m
       /\ \A i \in 1 .. k : counts'[i] = counts[i]
  BY <1>1, <1>5, <1>12
<1>14. \A i, j \in DOMAIN counts' : i <= j => counts'[i] <= counts'[j]
  <2> SUFFICES ASSUME NEW i \in 1 .. k + 1, NEW j \in 1 .. k + 1, i <= j PROVE counts'[i] <= counts'[j]
    BY <1>13
  <2>1. \A l \in 1 .. k : counts[l] \in Nat /\ counts[l] <= n
    <3> TAKE l \in 1 .. k
    <3>1. l \in DOMAIN counts /\ k \in DOMAIN counts /\ l <= k
      BY <1>5
    <3> QED BY <1>5, <3>1
  <2>2. CASE j = k + 1
    <3>1. CASE i = k + 1
      BY <1>1, <1>13, <2>2, <3>1
    <3>2. CASE i # k + 1
      <4>1. i \in 1 .. k
        BY <1>5, <3>2
      <4> QED BY <1>1, <1>13, <2>1, <2>2, <4>1
    <3> QED BY <3>1, <3>2
  <2>3. CASE j # k + 1
    <3>1. i \in 1 .. k /\ j \in 1 .. k /\ i \in DOMAIN counts /\ j \in DOMAIN counts
      BY <1>5, <2>3
    <3> QED BY <1>5, <1>13, <3>1
  <2> QED BY <2>2, <2>3
<1>15. ASSUME NEW i \in 1 .. n + m
       PROVE  told'[all[i].call] >= 1 /\ (i <= n => told'[all[i].call] >= 2)
  <2>1. CASE request'[i].as = "cross_step"
    BY <1>10, <1>11, <2>1
  <2>2. CASE request'[i].as # "cross_step"
    <3>1. ASSUME i <= n PROVE told[all[i].call] >= 1
      <4>1. i \in 1 .. n
        BY <3>1, <1>1
      <4> QED BY <1>2, <4>1 DEF ItemsInv, n
    <3> QED BY <1>10, <2>2, <3>1
  <2> QED BY <2>1, <2>2
<1>16. counts' # <<>> /\ counts'[Len(counts')] = n + m /\ Len(counts') - 1 = k /\ counts'[Len(counts') - 1] = n
  <2>1. k \in 1 .. k /\ Len(counts') = k + 1 /\ (k + 1) - 1 = k
    BY <1>5, <1>13
  <2>2. counts' # <<>>
    BY <2>1, <1>5
  <2> HIDE DEF k
  <2> QED BY <1>5, <1>13, <2>1, <2>2
<1>17. RequestInv'
  <2>1. DOMAIN request' = 1 .. n + m
    BY <1>6, <1>7
  <2>2. ASSUME NEW i \in 1 .. n + m
        PROVE  request'[i].as \in {"exact", "duplicate", "cross_step"} /\ ReachedAt(i)'
    <3>1. request'[i].as \in {"exact", "duplicate", "cross_step"}
      BY <1>7
    <3>2. request'[i].as = "duplicate" =>
                \E j \in 1 .. i - 1 : /\ all[j].call = request'[i].of /\ request'[j].as = "exact"
                                      /\ all[j].text = all[i].text
      BY <1>7
    <3>3. request'[i].as = "cross_step" => told'[all[i].call] >= 2
      <4> SUFFICES ASSUME request'[i].as = "cross_step" PROVE told'[all[i].call] >= 2
        OBVIOUS
      <4>1. i <= n
        BY <1>11
      <4> QED BY <1>15, <4>1
    <3> QED BY <3>1, <3>2, <3>3 DEF ReachedAt, all
  <2>3. Len(items') = n + m
    BY <1>2 DEF all
  <2> QED BY <1>7, <2>1, <2>2, <2>3 DEF RequestInv
<1>18. /\ Len(items') = Len(items) + Len(results)
       /\ \A i \in 1 .. Len(items) : items'[i] = items[i]
       /\ \A i \in 1 .. Len(results) : items'[Len(items) + i] = results[i]
  BY <1>2 DEF all, n, m
<1>19. counts'[Len(counts')] = Len(items')
  BY <1>2, <1>16 DEF all
<1>20. \A i \in 1 .. Len(items') :
         /\ told'[items'[i].call] >= 1
         /\ Len(counts') > 1 /\ i <= counts'[Len(counts') - 1] => told'[items'[i].call] >= 2
  BY <1>2, <1>15, <1>16 DEF all
<1>21. items' \in Seq({items'[i] : i \in DOMAIN items'})
  BY <1>3 DEF all
<1> QED BY <1>9, <1>13, <1>14, <1>16, <1>17, <1>18, <1>19, <1>20, <1>21

\* The provider gets the results of a step.
LEMMA BuildRequestInv ==
    ASSUME TurnInv, BuildRequest
    PROVE  TurnInv'
<1> DEFINE calls == Asked[step]
           R == {[call |-> calls[i], text |-> TextOf(answer[calls[i]]), long |-> IsLong(answer[calls[i]])] : i \in DOMAIN calls}
<1>1. PICK results :
         /\ results = [i \in DOMAIN calls |-> [call |-> calls[i], text |-> TextOf(answer[calls[i]]),
                                               long |-> IsLong(answer[calls[i]])]]
         /\ items' = items \o results
         /\ counts' = Append(counts, Len(items \o results))
         /\ request' = Shown(items \o results, counts, crossStep)
         /\ told' = [c \in Calls |-> told[c] +
                       IF \E i \in DOMAIN (items \o results) :
                            (items \o results)[i].call = c /\ Shown(items \o results, counts, crossStep)[i].as # "cross_step"
                       THEN 1 ELSE 0]
  BY DEF BuildRequest
<1>2. /\ phase = "group" /\ group > Len(StepGroups) /\ UNCHANGED <<batch, coverage>>
      /\ \/ step = Len(Asked) /\ phase' = "ended" /\ UNCHANGED <<step, group>>
         \/ step # Len(Asked) /\ step' = step + 1 /\ group' = 1 /\ UNCHANGED phase
  BY DEF BuildRequest
<1>3. /\ step \in 1 .. Len(Asked) /\ step \in Nat /\ Len(Asked) \in Nat /\ Len(StepGroups) \in Nat /\ group \in Nat
      /\ group = Len(StepGroups) + 1 /\ StepGroups = Groups(Asked[step])
  BY <1>2, PlaceFacts DEF TurnInv, PlaceInv
<1>4. /\ calls \in Seq(Calls) /\ DOMAIN calls = 1 .. Len(calls) /\ Len(calls) \in Nat /\ ToSet(calls) \subseteq Calls
  BY <1>3, AskedCalls
<1>5. /\ results \in Seq(R) /\ Len(results) = Len(calls) /\ \A i \in 1 .. Len(results) : results[i].call = calls[i]
  <2> HIDE DEF calls
  <2>1. results \in [1 .. Len(calls) -> R]
    BY <1>1, <1>4
  <2> HIDE DEF R
  <2>2. results \in Seq(R) /\ Len(results) = Len(calls)
    BY <1>4, <2>1
  <2> QED BY <1>1, <1>4, <2>2
<1>6. /\ \A i \in 1 .. Len(results) : results[i].call \in ToSet(calls)
      /\ \A c \in ToSet(calls) : \E i \in 1 .. Len(results) : results[i].call = c
  BY <1>4, <1>5 DEF ToSet
<1>7. \A i \in 1 .. Len(items) : items[i].call \in Calls
  <2> TAKE i \in 1 .. Len(items)
  <2>1. PICK s \in Sent : items[i].call \in ToSet(Asked[s])
    BY DEF TurnInv, ItemsInv
  <2>2. s \in 1 .. Len(Asked)
    BY <1>3 DEF Sent
  <2> QED BY <2>1, <2>2, AskedCalls
<1> HIDE DEF R
<1>8. /\ items' \in Seq({items'[i] : i \in DOMAIN items'})
      /\ Len(items') = Len(items) + Len(results)
      /\ \A i \in 1 .. Len(items) : items'[i] = items[i]
      /\ \A i \in 1 .. Len(results) : items'[Len(items) + i] = results[i]
      /\ told' \in [Calls -> Nat]
      /\ counts' \in Seq(Nat) /\ counts' # <<>> /\ counts'[Len(counts')] = Len(items')
      /\ \A i, j \in DOMAIN counts' : i <= j => counts'[i] <= counts'[j]
      /\ \A i \in 1 .. Len(items') :
           /\ told'[items'[i].call] >= 1
           /\ Len(counts') > 1 /\ i <= counts'[Len(counts') - 1] => told'[items'[i].call] >= 2
      /\ RequestInv'
  <2>1. /\ counts' = Append(counts, Len(items')) /\ request' = Shown(items', counts, crossStep)
        /\ told' = [c \in Calls |-> told[c] +
                      IF \E i \in DOMAIN items' : items'[i].call = c /\ request'[i].as # "cross_step" THEN 1 ELSE 0]
    BY <1>1, Zenon
  <2>2. ItemsInv /\ items' = items \o results /\ \A i \in 1 .. Len(results) : results[i].call \in Calls
    BY <1>1, <1>4, <1>6 DEF TurnInv
  <2> QED BY ONLY <1>5, <1>7, <2>1, <2>2, RequestBuilt
<1>9. Sent' = Sent \union {step}
  <2>1. Sent = 1 .. step - 1
    BY <1>2 DEF Sent
  <2>2. CASE phase' = "ended" /\ step = Len(Asked)
    <3>1. Sent' = 1 .. Len(Asked)
      BY <2>2 DEF Sent
    <3> QED BY <1>3, <2>1, <2>2, <3>1
  <2>3. CASE phase' = "group" /\ step' = step + 1
    <3>1. Sent' = 1 .. step' - 1
      BY <2>3 DEF Sent
    <3> QED BY <1>3, <2>1, <2>3, <3>1
  <2> QED BY <1>2, <2>2, <2>3
<1>10. ItemsInv'
  <2>1. Len(items) \in Nat /\ Len(results) \in Nat
    BY <1>5 DEF TurnInv, ItemsInv
  <2>2. \A i \in 1 .. Len(items') : \E s \in Sent' : items'[i].call \in ToSet(Asked[s])
    <3> TAKE i \in 1 .. Len(items')
    <3>1. CASE i <= Len(items)
      <4>1. i \in 1 .. Len(items) /\ items'[i] = items[i]
        BY <1>8, <2>1, <3>1
      <4>2. PICK s \in Sent : items[i].call \in ToSet(Asked[s])
        BY <4>1 DEF TurnInv, ItemsInv
      <4> QED BY <1>9, <4>1, <4>2
    <3>2. CASE i > Len(items)
      <4>1. i - Len(items) \in 1 .. Len(results) /\ Len(items) + (i - Len(items)) = i
        BY <1>8, <2>1, <3>2
      <4>2. items'[i] = results[i - Len(items)]
        BY <1>8, <4>1
      <4> QED BY <1>6, <1>9, <4>1, <4>2
    <3> QED BY <2>1, <3>1, <3>2
  <2>3. \A s \in Sent' : \A c \in ToSet(Asked[s]) : \E i \in 1 .. Len(items') : items'[i].call = c
    <3> SUFFICES ASSUME NEW s \in Sent', NEW c \in ToSet(Asked[s]) PROVE \E i \in 1 .. Len(items') : items'[i].call = c
      OBVIOUS
    <3>1. CASE s \in Sent
      <4>1. PICK i \in 1 .. Len(items) : items[i].call = c
        BY <3>1 DEF TurnInv, ItemsInv
      <4>2. i \in 1 .. Len(items') /\ items'[i] = items[i]
        BY <1>8, <2>1
      <4> QED BY <4>1, <4>2
    <3>2. CASE s = step
      <4>1. PICK i \in 1 .. Len(results) : results[i].call = c
        BY <1>6, <3>2
      <4>2. Len(items) + i \in 1 .. Len(items')
        BY <1>8, <2>1
      <4> QED BY <1>8, <4>1, <4>2
    <3> QED BY <1>9, <3>1, <3>2
  <2> QED BY <1>8, <2>2, <2>3 DEF ItemsInv
<1>11. UNCHANGED <<toStart, found, answer, coverage>>
  BY <1>2 DEF batch
<1>12. FoundInv' /\ SourceInv' /\ CoverageInv'
  BY <1>11, ResultsStay DEF TurnInv
<1>13. /\ Behind' = Behind /\ PlaceInv' /\ phase' \notin BatchPhases
  <2>1. toStart = {} /\ phase \in Phases /\ PlaceInv
    BY <1>2 DEF TurnInv, PlaceInv
  <2>2. CASE step = Len(Asked) /\ phase' = "ended" /\ UNCHANGED <<step, group>>
    <3>1. Behind' = Behind /\ StepGroups' = StepGroups
      BY <2>2, SameGroup
    <3> QED BY <1>3, <1>11, <2>1, <2>2, <3>1 DEF PlaceInv, Phases, BatchPhases
  <2>3. CASE step # Len(Asked) /\ step' = step + 1 /\ group' = 1 /\ phase' = "group"
    <3>1. Behind' = Behind
      BY <1>3, <2>1, <2>3, BehindStep
    <3>2. step + 1 \in 1 .. Len(Asked)
      BY <1>3, <2>3
    <3>3. StepGroups' = Groups(Asked[step + 1])
      BY <2>3 DEF StepGroups
    <3>4. Len(StepGroups') \in Nat
      BY <3>2, <3>3, GroupsAreFinite
    <3>5. group' \in 1 .. Len(StepGroups') + 1
      BY <2>3, <3>4
    <3> QED BY <1>11, <2>1, <2>3, <3>1, <3>2, <3>5 DEF PlaceInv, Phases, BatchPhases
  <2> QED BY <1>2, <2>2, <2>3
<1>14. AtHand = {}
  BY <1>2 DEF AtHand, BatchPhases
<1>15. phase' # "submitting"
  BY <1>2
<1>16. AnswerInv'
  <2>1. \A c \in Calls : answer'[c] # Nothing => c \in Behind' \union AtHand'
    BY <1>11, <1>13, <1>14 DEF TurnInv, AnswerInv
  <2>2. /\ answer' = [c \in Calls |-> answer'[c]] /\ \A c \in Behind' : answer'[c] # Nothing
    BY <1>11, <1>13 DEF TurnInv, AnswerInv
  <2> QED BY <1>13, <1>15, <2>1, <2>2 DEF AnswerInv
<1> QED BY <1>8, <1>10, <1>12, <1>13, <1>16 DEF TurnInv

LEMMA BatchInitInv ==
    ASSUME BatchInit
    PROVE  TurnInv
<1>1. /\ step = 1 /\ group = 1 /\ phase = "group" /\ toStart = {}
      /\ found = [c \in Calls |-> Nothing] /\ answer = [c \in Calls |-> Nothing]
      /\ coverage = <<>> /\ items = <<>> /\ counts = <<0>> /\ request = <<>>
      /\ told = [c \in Calls |-> 0]
  BY DEF BatchInit
<1>2. 1 \in 1 .. Len(Asked) /\ Len(Asked) \in Nat
  BY AskedAssumption
<1>3. Len(StepGroups) \in Nat
  BY <1>1, <1>2, GroupsAreFinite DEF StepGroups
<1>4. PlaceInv
  BY <1>1, <1>2, <1>3 DEF PlaceInv, BatchPhases, Phases
<1>5. \A c \in Inspections : c \in Calls
  BY DEF Inspections
<1>6. FoundInv
  BY <1>1, <1>5 DEF FoundInv
<1>7. Behind = {} /\ AtHand = {}
  <2>1. 1 .. step - 1 = {} /\ 1 .. group - 1 = {}
    BY <1>1
  <2> QED BY <1>1, <2>1 DEF Behind, CallsOfSteps, CallsOfGroups, AtHand, BatchPhases
<1>8. AnswerInv
  BY <1>1, <1>7 DEF AnswerInv, BatchPhases
<1>9. SourceInv
  BY <1>1, <1>5 DEF SourceInv, Nothing
<1>10. CoverageInv
  BY <1>1 DEF CoverageInv
<1>11. Sent = {}
  BY <1>1 DEF Sent
<1>12. ItemsInv
  <2>1. told \in [Calls -> Nat]
    BY <1>1
  <2>2. /\ items \in Seq({items[i] : i \in DOMAIN items}) /\ Len(items) = 0 /\ 1 .. Len(items) = {}
    BY <1>1
  <2>3. counts \in Seq(Nat) /\ counts # <<>> /\ Len(counts) = 1 /\ counts[1] = 0 /\ DOMAIN counts = {1}
    BY <1>1
  <2> QED BY <1>11, <2>1, <2>2, <2>3 DEF ItemsInv
<1>13. RequestInv
  BY <1>1 DEF RequestInv
<1> QED BY <1>4, <1>6, <1>8, <1>9, <1>10, <1>12, <1>13 DEF TurnInv

-----------------------------------------------------------------------------
(* The limiter.                                                            *)

USE RunsAssumption, CategoryAssumption, LimitsAssumption

\* Waiting calls stand in the queue once.
QueueInv ==
    /\ \A i \in DOMAIN pending : stage[pending[i]] = "waiting"
    /\ \A i, j \in DOMAIN pending : pending[i] = pending[j] => i = j

LEMMA FirstIsLeast ==
    ASSUME NEW S \in SUBSET Nat, S # {}
    PROVE  First(S) \in S /\ \A j \in S : First(S) <= j
BY LeastExists DEF First

LEMMA RemoveAtProperties ==
    ASSUME NEW s \in Seq(Runs), NEW i \in 1 .. Len(s)
    PROVE  /\ RemoveAt(s, i) \in Seq(Runs)
           /\ Len(RemoveAt(s, i)) = Len(s) - 1
           /\ \A j \in 1 .. Len(s) - 1 : RemoveAt(s, i)[j] = IF j < i THEN s[j] ELSE s[j + 1]
<1> DEFINE a == SubSeq(s, 1, i - 1)
           b == SubSeq(s, i + 1, Len(s))
<1>1. Len(s) \in Nat /\ \A j \in 1 .. Len(s) : s[j] \in Runs
  OBVIOUS
<1>2. a \in Seq(Runs) /\ Len(a) = i - 1 /\ \A j \in 1 .. i - 1 : a[j] = s[j]
  BY <1>1
<1>3. b \in Seq(Runs) /\ Len(b) = Len(s) - i /\ \A j \in 1 .. Len(s) - i : b[j] = s[i + j]
  BY <1>1
<1> DEFINE c == a \o b
<1> HIDE DEF a, b
<1>4. /\ c \in Seq(Runs)
      /\ Len(c) = Len(a) + Len(b)
      /\ \A j \in 1 .. Len(a) + Len(b) : c[j] = IF j <= Len(a) THEN a[j] ELSE b[j - Len(a)]
  <2>1. a \in Seq(Runs) /\ b \in Seq(Runs)
    BY <1>2, <1>3
  <2> QED BY ONLY <2>1, ConcatProperties
<1>5. RemoveAt(s, i) = c
  BY DEF RemoveAt, a, b
<1> HIDE DEF c
<1>6. Len(c) = Len(s) - 1 /\ i \in Int
  BY <1>1, <1>2, <1>3, <1>4
<1>7. ASSUME NEW j \in 1 .. Len(s) - 1
      PROVE  c[j] = IF j < i THEN s[j] ELSE s[j + 1]
  <2>1. c[j] = IF j <= i - 1 THEN a[j] ELSE b[j - (i - 1)]
    BY <1>1, <1>2, <1>3, <1>4, <1>6
  <2>2. CASE j < i
    BY <1>1, <1>2, <1>6, <2>1, <2>2
  <2>3. CASE ~(j < i)
    <3>1. j - (i - 1) \in 1 .. Len(s) - i /\ i + (j - (i - 1)) = j + 1
      BY <1>1, <1>6, <2>3
    <3>2. b[j - (i - 1)] = s[j + 1]
      BY <1>3, <3>1
    <3>3. ~(j <= i - 1)
      BY <1>1, <1>6, <2>3
    <3> QED BY <2>1, <2>3, <3>2, <3>3
  <2> QED BY <2>2, <2>3
<1> QED BY <1>4, <1>5, <1>6, <1>7

-----------------------------------------------------------------------------
(* Counting holders. *)

Of(S, c) == {r \in S : CategoryOf[r] = c}

LEMMA AddHolder ==
    ASSUME NEW S \in SUBSET Runs, NEW r \in Runs \ S
    PROVE  /\ Cardinality(S) \in Nat
           /\ Cardinality(S \union {r}) = Cardinality(S) + 1
           /\ \A c \in Categories :
                /\ Cardinality(Of(S, c)) \in Nat
                /\ Cardinality(Of(S \union {r}, c)) =
                       Cardinality(Of(S, c)) + (IF c = CategoryOf[r] THEN 1 ELSE 0)
<1>1. IsFiniteSet(S) /\ \A c \in Categories : IsFiniteSet(Of(S, c))
  BY FS_Subset DEF Of
<1>2. Cardinality(S) \in Nat /\ Cardinality(S \union {r}) = Cardinality(S) + 1
  BY <1>1, FS_CardinalityType, FS_AddElement
<1>3. ASSUME NEW c \in Categories
      PROVE  /\ Cardinality(Of(S, c)) \in Nat
             /\ Cardinality(Of(S \union {r}, c)) =
                    Cardinality(Of(S, c)) + (IF c = CategoryOf[r] THEN 1 ELSE 0)
  <2>1. Cardinality(Of(S, c)) \in Nat
    BY <1>1, FS_CardinalityType
  <2>2. CASE c = CategoryOf[r]
    <3>1. Of(S \union {r}, c) = Of(S, c) \union {r} /\ r \notin Of(S, c)
      BY <2>2 DEF Of
    <3>2. Cardinality(Of(S, c) \union {r}) = Cardinality(Of(S, c)) + 1
      BY <1>1, <3>1, FS_AddElement
    <3> QED BY <2>1, <2>2, <3>1, <3>2
  <2>3. CASE c # CategoryOf[r]
    <3>1. Of(S \union {r}, c) = Of(S, c)
      BY <2>3 DEF Of
    <3> QED BY <2>1, <2>3, <3>1
  <2> QED BY <2>2, <2>3
<1> QED BY <1>2, <1>3

LEMMA RemoveHolder ==
    ASSUME NEW S \in SUBSET Runs, NEW r \in S
    PROVE  /\ Cardinality(S \ {r}) \in Nat
           /\ Cardinality(S) = Cardinality(S \ {r}) + 1
           /\ \A c \in Categories :
                /\ Cardinality(Of(S \ {r}, c)) \in Nat
                /\ Cardinality(Of(S, c)) =
                       Cardinality(Of(S \ {r}, c)) + (IF c = CategoryOf[r] THEN 1 ELSE 0)
<1> DEFINE T == S \ {r}
<1>1. S = T \union {r} /\ T \in SUBSET Runs /\ r \in Runs \ T
  OBVIOUS
<1> HIDE DEF T
<1>2. /\ Cardinality(T) \in Nat
      /\ Cardinality(T \union {r}) = Cardinality(T) + 1
      /\ \A c \in Categories :
           /\ Cardinality(Of(T, c)) \in Nat
           /\ Cardinality(Of(T \union {r}, c)) =
                  Cardinality(Of(T, c)) + (IF c = CategoryOf[r] THEN 1 ELSE 0)
  BY <1>1, AddHolder
<1>3. /\ Cardinality(T) \in Nat
      /\ Cardinality(S) = Cardinality(T) + 1
      /\ \A c \in Categories :
           /\ Cardinality(Of(T, c)) \in Nat
           /\ Cardinality(Of(S, c)) = Cardinality(Of(T, c)) + (IF c = CategoryOf[r] THEN 1 ELSE 0)
  BY <1>1, <1>2, Zenon
<1> QED BY <1>3 DEF T

-----------------------------------------------------------------------------
Counted(S) ==
    /\ activeCount = Cardinality(S)
    /\ \A c \in Categories : activeOf[c] = Cardinality(Of(S, c))

LEMMA CountedHolders ==
    SlotsAreCounted <=>
        /\ Counted(Holders)
        /\ activeCount <= MaxTotal
        /\ \A c \in Categories : activeOf[c] <= MaxOf[c]
BY DEF SlotsAreCounted, Counted, HoldersOf, Of

LEMMA CountedHoldersNext ==
    SlotsAreCounted' <=>
        /\ Counted(Holders)'
        /\ activeCount' <= MaxTotal
        /\ \A c \in Categories : activeOf'[c] <= MaxOf[c]
BY DEF SlotsAreCounted, Counted, HoldersOf, Of

Inv == TypeOK /\ QueueInv /\ SlotsAreCounted /\ NoIdleSlot

LEMMA InitInv == Init => Inv
<1> SUFFICES ASSUME Init PROVE Inv
  OBVIOUS
<1>1. TypeOK
  BY DEF Init, TypeOK, Stages
<1>2. QueueInv /\ NoIdleSlot
  BY DEF Init, QueueInv, NoIdleSlot, Runnable
<1>3. Holders = {} /\ \A c \in Categories : HoldersOf(c) = {}
  BY DEF Init, Holders, HoldersOf
<1>4. Cardinality({}) = 0 /\ \A c \in Categories : activeOf[c] = 0 /\ 0 <= MaxOf[c]
  BY FS_EmptySet DEF Init
<1>5. SlotsAreCounted
  <2>1. activeCount = Cardinality(Holders) /\ \A c \in Categories : activeOf[c] = Cardinality(HoldersOf(c))
    BY <1>3, <1>4, Zenon DEF Init
  <2>2. activeCount <= MaxTotal /\ \A c \in Categories : activeOf[c] <= MaxOf[c]
    BY <1>4 DEF Init
  <2> QED BY <2>1, <2>2, Zenon DEF SlotsAreCounted
<1> QED BY <1>1, <1>2, <1>5 DEF Inv

LEMMA AcquireInv == ASSUME Inv, NEW r \in Runs, Acquire(r) PROVE Inv'
<1>1. TypeOK'
  BY DEF Inv, TypeOK, Acquire, Stages
<1>2. QueueInv'
  BY DEF Inv, TypeOK, QueueInv, Acquire
<1>3. Holders' = Holders \union {r} /\ r \in Runs \ Holders /\ Holders \in SUBSET Runs
  BY DEF Inv, TypeOK, Acquire, Holders
<1>4. CategoryOf[r] \in Categories /\ \A c \in Categories : activeOf[c] \in Nat /\ MaxOf[c] \in Nat
  BY DEF Inv, TypeOK
<1>5. Counted(Holders)'
  <2>1. activeCount = Cardinality(Holders) /\ \A c \in Categories : activeOf[c] = Cardinality(Of(Holders, c))
    BY CountedHolders DEF Inv, Counted
  <2>2. activeCount' = Cardinality(Holders \union {r})
    BY <1>3, <2>1, AddHolder DEF Acquire
  <2>3. ASSUME NEW c \in Categories PROVE activeOf'[c] = Cardinality(Of(Holders \union {r}, c))
    <3>1. /\ Cardinality(Of(Holders, c)) \in Nat
          /\ Cardinality(Of(Holders \union {r}, c)) =
                 Cardinality(Of(Holders, c)) + (IF c = CategoryOf[r] THEN 1 ELSE 0)
      BY <1>3, AddHolder
    <3>2. activeOf'[c] = activeOf[c] + (IF c = CategoryOf[r] THEN 1 ELSE 0)
      BY <1>4 DEF Inv, TypeOK, Acquire
    <3> QED BY <2>1, <3>1, <3>2
  <2> QED BY <1>3, <2>2, <2>3 DEF Counted
<1>6. activeCount' <= MaxTotal /\ \A c \in Categories : activeOf'[c] <= MaxOf[c]
  BY <1>4, CountedHolders DEF Inv, TypeOK, Acquire, CanAcquire
<1>7. SlotsAreCounted'
  BY <1>5, <1>6, CountedHoldersNext
<1>8. NoIdleSlot'
  <2>1. ASSUME NEW c \in Categories, CanAcquire(activeCount, activeOf, c)' PROVE CanAcquire(activeCount, activeOf, c)
    BY <1>4, <2>1 DEF Inv, TypeOK, Acquire, CanAcquire
  <2>2. \A i \in DOMAIN pending : CategoryOf[pending[i]] \in Categories
    BY DEF Inv, TypeOK
  <2> QED BY <2>1, <2>2 DEF Inv, NoIdleSlot, Runnable, Acquire, CanAcquire
<1> QED BY <1>1, <1>2, <1>7, <1>8 DEF Inv

LEMMA EnqueueInv == ASSUME Inv, NEW r \in Runs, Enqueue(r) PROVE Inv'
<1>1. TypeOK'
  BY DEF Inv, TypeOK, Enqueue, Stages
<1>2. /\ Len(pending') = Len(pending) + 1 /\ pending'[Len(pending) + 1] = r
      /\ \A i \in 1 .. Len(pending) : pending'[i] = pending[i]
      /\ DOMAIN pending = 1 .. Len(pending) /\ DOMAIN pending' = 1 .. Len(pending) + 1
  BY DEF Inv, TypeOK, Enqueue
<1>3. QueueInv'
  BY <1>2 DEF Inv, TypeOK, QueueInv, Enqueue
<1>4. Holders' = Holders
  BY DEF Inv, TypeOK, Enqueue, Holders
<1>5. SlotsAreCounted'
  BY <1>4, CountedHolders, CountedHoldersNext DEF Inv, Enqueue, Counted
<1>6. NoIdleSlot'
  BY <1>2 DEF Inv, TypeOK, NoIdleSlot, Runnable, Enqueue, CanAcquire
<1> QED BY <1>1, <1>3, <1>5, <1>6 DEF Inv

LEMMA StartInv == ASSUME Inv, NEW r \in Runs, Start(r) PROVE Inv'
<1>1. TypeOK'
  BY DEF Inv, TypeOK, Start, Stages
<1>2. QueueInv'
  BY DEF Inv, TypeOK, QueueInv, Start
<1>3. Holders' = Holders
  BY DEF Inv, TypeOK, Start, Holders
<1>4. SlotsAreCounted'
  BY <1>3, CountedHolders, CountedHoldersNext DEF Inv, Start, Counted
<1>5. NoIdleSlot'
  BY DEF Inv, NoIdleSlot, Runnable, Start, CanAcquire
<1> QED BY <1>1, <1>2, <1>4, <1>5 DEF Inv

-----------------------------------------------------------------------------
(* A release, in the two ways it ends. *)

\* The categories' counters while a release looks for the next call.
Released(r) == [activeOf EXCEPT ![CategoryOf[r]] = @ - 1]

Frees(r) ==
    /\ stage' = [stage EXCEPT ![r] = "idle"]
    /\ activeCount' = activeCount - 1
    /\ activeOf' = Released(r)
    /\ pending' = pending

HandsOver(r, first, next) ==
    /\ stage' = [stage EXCEPT ![r] = "idle", ![next] = "granted"]
    /\ activeCount' = activeCount - 1 + 1
    /\ activeOf' = [Released(r) EXCEPT ![CategoryOf[next]] = @ + 1]
    /\ pending' = RemoveAt(pending, first)

LEMMA SettleCases ==
    ASSUME Inv, NEW r \in Runs, Settle(r)
    PROVE  /\ stage[r] = "running"
           /\ \/ Runnable(activeCount - 1, Released(r), pending) = {} /\ Frees(r)
              \/ LET first == First(Runnable(activeCount - 1, Released(r), pending))
                 IN  /\ first \in Runnable(activeCount - 1, Released(r), pending)
                     /\ \A i \in Runnable(activeCount - 1, Released(r), pending) : first <= i
                     /\ HandsOver(r, first, pending[first])
<1> DEFINE runnable == Runnable(activeCount - 1, Released(r), pending)
<1>1. runnable \in SUBSET Nat
  BY DEF Inv, TypeOK, Runnable
<1>2. stage[r] = "running"
  BY DEF Settle
<1>3. CASE runnable = {}
  <2>1. Frees(r)
    BY <1>3, Zenon DEF Settle, Frees, Released
  <2> QED BY <1>2, <1>3, <2>1
<1>4. CASE runnable # {}
  <2>1. HandsOver(r, First(runnable), pending[First(runnable)])
    BY <1>4, Zenon DEF Settle, HandsOver, Released
  <2> HIDE DEF runnable
  <2>2. First(runnable) \in runnable /\ \A i \in runnable : First(runnable) <= i
    BY <1>1, <1>4, FirstIsLeast
  <2> QED BY <1>2, <2>1, <2>2 DEF runnable
<1> QED BY <1>3, <1>4

LEMMA CounterUp ==
    ASSUME NEW f \in [Categories -> Nat], NEW c \in Categories
    PROVE  /\ [f EXCEPT ![c] = @ + 1] \in [Categories -> Nat]
           /\ \A d \in Categories : [f EXCEPT ![c] = @ + 1][d] = f[d] + (IF d = c THEN 1 ELSE 0)
OBVIOUS

LEMMA CounterDown ==
    ASSUME NEW f \in [Categories -> Nat], NEW c \in Categories, f[c] # 0
    PROVE  /\ [f EXCEPT ![c] = @ - 1] \in [Categories -> Nat]
           /\ \A d \in Categories : f[d] = [f EXCEPT ![c] = @ - 1][d] + (IF d = c THEN 1 ELSE 0)
OBVIOUS

LEMMA ReleaseCounts ==
    ASSUME Inv, NEW r \in Runs, stage[r] = "running"
    PROVE  /\ activeCount - 1 \in Nat /\ activeCount - 1 = Cardinality(Holders \ {r})
           /\ Released(r) \in [Categories -> Nat]
           /\ \A c \in Categories :
                /\ Released(r)[c] = Cardinality(Of(Holders \ {r}, c))
                /\ activeOf[c] = Released(r)[c] + (IF c = CategoryOf[r] THEN 1 ELSE 0)
<1>1. r \in Holders /\ Holders \in SUBSET Runs
  BY DEF Holders
<1>2. Counted(Holders)
  BY CountedHolders DEF Inv
<1>3. activeCount \in Nat /\ activeOf \in [Categories -> Nat] /\ CategoryOf[r] \in Categories
  BY DEF Inv, TypeOK
<1>4. /\ Cardinality(Holders \ {r}) \in Nat
      /\ activeCount = Cardinality(Holders \ {r}) + 1
      /\ \A c \in Categories :
           /\ Cardinality(Of(Holders \ {r}, c)) \in Nat
           /\ activeOf[c] = Cardinality(Of(Holders \ {r}, c)) + (IF c = CategoryOf[r] THEN 1 ELSE 0)
  <2>1. /\ activeCount = Cardinality(Holders)
        /\ \A c \in Categories : activeOf[c] = Cardinality(Of(Holders, c))
    BY <1>2 DEF Counted
  <2> DEFINE H == Holders
  <2>2. r \in H /\ H \in SUBSET Runs
    BY <1>1
  <2> HIDE DEF H
  <2>3. /\ Cardinality(H \ {r}) \in Nat
        /\ Cardinality(H) = Cardinality(H \ {r}) + 1
        /\ \A c \in Categories :
             /\ Cardinality(Of(H \ {r}, c)) \in Nat
             /\ Cardinality(Of(H, c)) =
                    Cardinality(Of(H \ {r}, c)) + (IF c = CategoryOf[r] THEN 1 ELSE 0)
    BY ONLY <2>2, RemoveHolder
  <2>4. /\ activeCount = Cardinality(H)
        /\ \A c \in Categories : activeOf[c] = Cardinality(Of(H, c))
    BY <2>1, Zenon DEF H
  <2>5. ASSUME NEW c \in Categories
        PROVE  /\ Cardinality(Of(H \ {r}, c)) \in Nat
               /\ activeOf[c] = Cardinality(Of(H \ {r}, c)) + (IF c = CategoryOf[r] THEN 1 ELSE 0)
    BY <2>3, <2>4, Zenon
  <2> QED BY <2>3, <2>4, <2>5, Zenon DEF H
<1>5. activeOf[CategoryOf[r]] # 0
  BY <1>3, <1>4
<1>6. /\ Released(r) \in [Categories -> Nat]
      /\ \A d \in Categories :
           activeOf[d] = Released(r)[d] + (IF d = CategoryOf[r] THEN 1 ELSE 0)
  BY <1>3, <1>5, CounterDown DEF Released
<1>7. ASSUME NEW c \in Categories PROVE Released(r)[c] = Cardinality(Of(Holders \ {r}, c))
  <2>1. Released(r)[c] \in Nat /\ activeOf[c] = Released(r)[c] + (IF c = CategoryOf[r] THEN 1 ELSE 0)
    BY <1>6
  <2>2. /\ Cardinality(Of(Holders \ {r}, c)) \in Nat
        /\ activeOf[c] = Cardinality(Of(Holders \ {r}, c)) + (IF c = CategoryOf[r] THEN 1 ELSE 0)
    BY <1>4
  <2> QED BY <2>1, <2>2
<1>8. activeCount - 1 \in Nat /\ activeCount - 1 = Cardinality(Holders \ {r})
  BY <1>3, <1>4
<1> QED BY <1>6, <1>7, <1>8

LEMMA ReleaseBounds ==
    ASSUME Inv, NEW r \in Runs, stage[r] = "running", NEW c \in Categories
    PROVE  /\ Released(r)[c] \in Nat /\ activeOf[c] \in Nat /\ MaxOf[c] \in Nat
           /\ activeOf[c] = Released(r)[c] + (IF c = CategoryOf[r] THEN 1 ELSE 0)
           /\ activeOf[c] <= MaxOf[c]
<1>1. activeOf[c] <= MaxOf[c] /\ MaxOf[c] \in Nat /\ activeOf[c] \in Nat
  BY CountedHolders DEF Inv, TypeOK
<1>2. Released(r) \in [Categories -> Nat]
  BY ReleaseCounts
<1>3. activeOf[c] = Released(r)[c] + (IF c = CategoryOf[r] THEN 1 ELSE 0)
  BY ReleaseCounts
<1> QED BY <1>1, <1>2, <1>3

LEMMA FreesInv ==
    ASSUME Inv, NEW r \in Runs, stage[r] = "running", Frees(r),
           Runnable(activeCount - 1, Released(r), pending) = {}
    PROVE  Inv'
<1>1. TypeOK'
  BY ReleaseCounts DEF Inv, TypeOK, Stages, Frees
<1>2. QueueInv'
  BY DEF Inv, TypeOK, QueueInv, Frees
<1>3. Holders' = Holders \ {r}
  BY DEF Inv, TypeOK, Holders, Frees
<1>4. Counted(Holders)'
  BY <1>3, ReleaseCounts DEF Counted, Frees
<1>5. activeCount' <= MaxTotal
  BY ReleaseCounts, CountedHolders DEF Inv, TypeOK, Frees
<1>6. ASSUME NEW c \in Categories PROVE activeOf'[c] <= MaxOf[c]
  <2>1. activeOf'[c] = Released(r)[c]
    BY DEF Frees
  <2> QED BY <2>1, ReleaseBounds
<1>7. NoIdleSlot'
  BY DEF NoIdleSlot, Runnable, CanAcquire, Frees
<1> QED BY <1>1, <1>2, <1>4, <1>5, <1>6, <1>7, CountedHoldersNext DEF Inv

LEMMA HandsOverInv ==
    ASSUME Inv, NEW r \in Runs, stage[r] = "running",
           NEW first \in Runnable(activeCount - 1, Released(r), pending),
           NEW next, next = pending[first], HandsOver(r, first, next)
    PROVE  Inv'
<1>1. /\ first \in 1 .. Len(pending) /\ pending \in Seq(Runs) /\ next \in Runs
      /\ DOMAIN pending = 1 .. Len(pending) /\ Len(pending) \in Nat
  BY DEF Inv, TypeOK, Runnable
<1>2. activeCount - 1 < MaxTotal /\ Released(r)[CategoryOf[next]] < MaxOf[CategoryOf[next]]
  BY DEF Runnable, CanAcquire
<1>3. stage[next] = "waiting" /\ next # r
  BY <1>1 DEF Inv, QueueInv
<1>4. /\ pending' \in Seq(Runs) /\ Len(pending') = Len(pending) - 1
      /\ \A j \in 1 .. Len(pending) - 1 : pending'[j] = IF j < first THEN pending[j] ELSE pending[j + 1]
  BY <1>1, RemoveAtProperties DEF HandsOver
<1>5. DOMAIN pending' = 1 .. Len(pending) - 1
  BY <1>4
<1>6. CategoryOf[next] \in Categories /\ CategoryOf[r] \in Categories
  BY <1>1
<1>7. /\ activeOf' \in [Categories -> Nat]
      /\ \A c \in Categories : activeOf'[c] = Released(r)[c] + (IF c = CategoryOf[next] THEN 1 ELSE 0)
  <2>1. Released(r) \in [Categories -> Nat]
    BY ReleaseCounts
  <2>2. activeOf' = [Released(r) EXCEPT ![CategoryOf[next]] = @ + 1]
    BY DEF HandsOver
  <2> QED BY <1>6, <2>1, <2>2, CounterUp
<1>8. activeCount' = activeCount /\ activeCount \in Nat
  BY DEF Inv, TypeOK, HandsOver
<1>9. TypeOK'
  <2>1. stage' \in [Runs -> Stages]
    BY <1>1 DEF Inv, TypeOK, Stages, HandsOver
  <2> QED BY <1>4, <1>7, <1>8, <2>1 DEF TypeOK
<1>10. ASSUME NEW j \in DOMAIN pending', NEW i, i = (IF j < first THEN j ELSE j + 1)
       PROVE  i \in DOMAIN pending /\ i # first /\ pending'[j] = pending[i]
  <2>1. j \in 1 .. Len(pending) - 1 /\ pending'[j] = pending[i]
    BY <1>4, <1>5, <1>10, Zenon
  <2>2. i \in 1 .. Len(pending) /\ i # first
    BY <1>1, <1>10, <2>1
  <2> QED BY <1>1, <2>1, <2>2
<1>11. QueueInv'
  <2>1. ASSUME NEW j \in DOMAIN pending' PROVE stage'[pending'[j]] = "waiting"
    <3>1. PICK i \in DOMAIN pending : i # first /\ pending'[j] = pending[i]
      BY <1>10
    <3>2. stage[pending[i]] = "waiting" /\ pending[i] # r /\ pending[i] \in Runs
      BY <1>1, <3>1 DEF Inv, QueueInv
    <3>3. pending[i] # next
      BY <1>1, <3>1 DEF Inv, QueueInv
    <3> QED BY <3>1, <3>2, <3>3 DEF Inv, TypeOK, HandsOver
  <2>2. ASSUME NEW j \in DOMAIN pending', NEW k \in DOMAIN pending', pending'[j] = pending'[k] PROVE j = k
    <3>1. PICK i \in DOMAIN pending : pending'[j] = pending[i] /\ i = (IF j < first THEN j ELSE j + 1)
      BY <1>10
    <3>2. PICK l \in DOMAIN pending : pending'[k] = pending[l] /\ l = (IF k < first THEN k ELSE k + 1)
      BY <1>10
    <3>3. i = l
      BY <2>2, <3>1, <3>2 DEF Inv, QueueInv
    <3> QED BY <1>1, <1>5, <3>1, <3>2, <3>3
  <2> QED BY <2>1, <2>2 DEF QueueInv
<1>12. Holders' = (Holders \ {r}) \union {next} /\ next \in Runs \ (Holders \ {r}) /\ Holders \ {r} \in SUBSET Runs
  BY <1>1, <1>3 DEF Inv, TypeOK, Holders, HandsOver
<1>13. Counted(Holders)'
  <2>1. activeCount' = Cardinality(Holders')
    <3>1. activeCount - 1 = Cardinality(Holders \ {r})
      BY ReleaseCounts
    <3>2. Cardinality(Holders') = Cardinality(Holders \ {r}) + 1
      BY <1>12, AddHolder
    <3> QED BY <1>8, <3>1, <3>2
  <2>2. ASSUME NEW c \in Categories PROVE activeOf'[c] = Cardinality(Of(Holders', c))
    <3>1. Released(r)[c] = Cardinality(Of(Holders \ {r}, c))
      BY ReleaseCounts
    <3>2. Cardinality(Of((Holders \ {r}) \union {next}, c)) =
              Cardinality(Of(Holders \ {r}, c)) + (IF c = CategoryOf[next] THEN 1 ELSE 0)
      <4> DEFINE S == Holders \ {r}
      <4>1. S \in SUBSET Runs /\ next \in Runs \ S
        BY <1>12
      <4> HIDE DEF S
      <4>2. Cardinality(Of(S \union {next}, c)) = Cardinality(Of(S, c)) + (IF c = CategoryOf[next] THEN 1 ELSE 0)
        BY <4>1, AddHolder
      <4> QED BY <4>2 DEF S
    <3> QED BY <1>7, <1>12, <3>1, <3>2, Zenon
  <2> QED BY <2>1, <2>2 DEF Counted
<1>14. activeCount' <= MaxTotal
  BY <1>8, CountedHolders DEF Inv
<1>15. ASSUME NEW c \in Categories PROVE activeOf'[c] <= MaxOf[c]
  <2>1. activeOf'[c] = Released(r)[c] + (IF c = CategoryOf[next] THEN 1 ELSE 0)
    BY <1>7
  <2> QED BY <1>2, <2>1, ReleaseBounds
<1>16. NoIdleSlot'
  <2> SUFFICES ASSUME NEW j \in DOMAIN pending', CanAcquire(activeCount', activeOf', CategoryOf[pending'[j]])
               PROVE  FALSE
    BY DEF NoIdleSlot, Runnable, CanAcquire
  <2>1. PICK i \in DOMAIN pending : pending'[j] = pending[i]
    BY <1>10
  <2> DEFINE c == CategoryOf[pending[i]]
             n == CategoryOf[next]
  <2>2. c \in Categories /\ n \in Categories
    BY <1>1, <2>1
  <2>3. activeCount < MaxTotal /\ activeOf'[c] < MaxOf[c]
    BY <2>1, <1>8 DEF CanAcquire
  <2>4. ~(activeOf[c] < MaxOf[c]) /\ ~(activeOf[n] < MaxOf[n])
    BY <1>1, <2>1, <2>3 DEF Inv, NoIdleSlot, Runnable, CanAcquire
  <2>5. Released(r)[n] < MaxOf[n]
    BY <1>2
  <2>6. activeOf'[c] = Released(r)[c] + (IF c = n THEN 1 ELSE 0)
    BY <1>7, <2>2
  <2> HIDE DEF c, n
  <2>7. /\ activeOf[c] = Released(r)[c] + (IF c = CategoryOf[r] THEN 1 ELSE 0)
        /\ activeOf[n] = Released(r)[n] + (IF n = CategoryOf[r] THEN 1 ELSE 0)
        /\ Released(r)[c] \in Nat /\ Released(r)[n] \in Nat /\ MaxOf[c] \in Nat /\ MaxOf[n] \in Nat
    BY <2>2, ReleaseBounds
  <2>8. c = CategoryOf[r] /\ n = CategoryOf[r]
    BY <2>3, <2>4, <2>5, <2>6, <2>7
  <2> QED BY <2>3, <2>4, <2>6, <2>7, <2>8
<1> QED BY <1>9, <1>11, <1>13, <1>14, <1>15, <1>16, CountedHoldersNext DEF Inv

-----------------------------------------------------------------------------
LEMMA NextInv == Inv /\ [Next]_vars => Inv'
<1> SUFFICES ASSUME Inv, [Next]_vars PROVE Inv'
  OBVIOUS
<1>1. ASSUME NEW r \in Runs, Settle(r) PROVE Inv'
  BY <1>1, SettleCases, FreesInv, HandsOverInv
<1>2. CASE UNCHANGED vars
  <2>1. TypeOK' /\ QueueInv' /\ NoIdleSlot'
    BY <1>2 DEF Inv, vars, TypeOK, QueueInv, NoIdleSlot, Runnable, CanAcquire
  <2>2. SlotsAreCounted'
    BY <1>2 DEF Inv, vars, SlotsAreCounted, Holders, HoldersOf
  <2> QED BY <2>1, <2>2 DEF Inv
<1> QED BY <1>1, <1>2, AcquireInv, EnqueueInv, StartInv DEF Next

\* Everything the runs check of a state holds in every reachable state.
LEMMA Invariance == Spec => []Inv
BY InitInv, NextInv, PTL DEF Spec

\* The limiter's counters stay natural numbers and its queue a sequence of
\* calls, for any calls and limits.
THEOREM TypeCorrect == Spec => []TypeOK
<1>1. Inv => TypeOK
  BY DEF Inv
<1> QED BY <1>1, Invariance, PTL

\* No limit is exceeded and no slot is lost, whatever the limits and however
\* many calls: the counters of RuntimeReadOnlyToolCallConcurrencyLimiter are
\* the numbers of calls that hold a slot.
THEOREM SlotsStayCounted == Spec => []SlotsAreCounted
<1>1. Inv => SlotsAreCounted
  BY DEF Inv
<1> QED BY <1>1, Invariance, PTL

\* No slot is idle while a waiting call could use it: serving the queue at
\* releases alone is enough.
THEOREM WorkIsConserved == Spec => []NoIdleSlot
<1>1. Inv => NoIdleSlot
  BY DEF Inv
<1> QED BY <1>1, Invariance, PTL

\* Slots are neither lost nor idle, for any calls, categories and limits.
THEOREM SlotsStayUsed == Spec => []SlotsAreUsed
<1>1. Inv => SlotsAreUsed
  BY DEF Inv, SlotsAreUsed
<1> QED BY <1>1, Invariance, PTL

\* A call never gets a slot ahead of an older one of its category: neither on
\* arrival, where only the limits are looked at, nor from the queue.
THEOREM OrderIsKept == Spec => FirstComeFirstServed
<1> DEFINE HasSlot(s) == s \in {"granted", "running"}
           Fair(r) == \A i \in DOMAIN pending :
                         CategoryOf[pending[i]] = CategoryOf[r] =>
                             pending[i] = r \/ \E j \in DOMAIN pending : j < i /\ pending[j] = r
           Step == \A r \in Runs : stage[r] \notin {"granted", "running"} /\ stage'[r] = "granted" => Fair(r)
<1>1. Inv /\ [Next]_vars => [Step]_vars
  <2> SUFFICES ASSUME Inv, Next, NEW q \in Runs,
                      stage[q] \notin {"granted", "running"}, stage'[q] = "granted"
               PROVE  Fair(q)
    BY DEF vars
  <2>1. PICK r \in Runs : Acquire(r) \/ Enqueue(r) \/ Start(r) \/ Settle(r)
    BY DEF Next
  <2>2. CASE Acquire(r)
    <3>1. q = r /\ CanAcquire(activeCount, activeOf, CategoryOf[q])
      BY <2>2 DEF Acquire, Inv, TypeOK
    <3> QED BY <3>1 DEF Inv, NoIdleSlot, Runnable
  <2>3. CASE Enqueue(r) \/ Start(r)
    BY <2>3 DEF Enqueue, Start, Inv, TypeOK
  <2>4. CASE Settle(r)
    <3> DEFINE runnable == Runnable(activeCount - 1, Released(r), pending)
               first == First(runnable)
    <3>1. first \in runnable /\ (\A i \in runnable : first <= i) /\ HandsOver(r, first, pending[first])
      <4>1. ~Frees(r)
        BY DEF Frees, Inv, TypeOK
      <4> QED BY <2>4, <4>1, SettleCases
    <3> HIDE DEF first
    <3>2. q = pending[first]
      BY <3>1 DEF HandsOver, Inv, TypeOK
    <3>3. ASSUME NEW i \in DOMAIN pending, CategoryOf[pending[i]] = CategoryOf[q]
          PROVE  i \in runnable
      BY <3>1, <3>2, <3>3 DEF Runnable
    <3>4. runnable \subseteq DOMAIN pending /\ DOMAIN pending \subseteq Nat
      BY DEF Runnable, Inv, TypeOK
    <3> HIDE DEF runnable
    <3> QED BY <3>1, <3>2, <3>3, <3>4
  <2> QED BY <2>1, <2>2, <2>3, <2>4
<1> QED BY <1>1, Invariance, PTL DEF Spec, FirstComeFirstServed

-----------------------------------------------------------------------------
(* The folds over ranges.                                                   *)

\* A step of Overlapping, of Sorted, of Merge, of Subtract and of LinesIn, from b to the range r.
CoverStep(fold, x, b, r) ==
    IF fold = "overlapping" THEN IF Overlaps(x, r) THEN Append(b, r) ELSE b
    ELSE IF fold = "sorted" THEN Insert(b, r)
    ELSE IF fold = "merged" THEN Add(b, r)
    ELSE IF fold = "gaps" THEN Pass(x, 1, b, r)
    ELSE b + Size(r)

\* f is what the fold over the first n ranges comes to, for each set of positions.
CoverFolds(fold, x, base, q, f, n) ==
    f = [s \in SUBSET (1 .. n) |->
            IF s = {} THEN base ELSE CoverStep(fold, x, f[s \ {Max(s)}], q[Max(s)])]

\* What is known of the first n ranges goes on to the next.
LEMMA CoverFoldGoesOn ==
    ASSUME NEW fold, NEW x, NEW base, NEW q, NEW n \in Nat, NEW f, CoverFolds(fold, x, base, q, f, n)
    PROVE  \E g : CoverFolds(fold, x, base, q, g, n + 1)
<1> DEFINE g == [s \in SUBSET (1 .. n + 1) |->
                   IF n + 1 \in s THEN CoverStep(fold, x, f[s \ {n + 1}], q[n + 1]) ELSE f[s]]
           At(s) == IF s = {} THEN base ELSE CoverStep(fold, x, g[s \ {Max(s)}], q[Max(s)])
<1>1. ASSUME NEW s \in SUBSET (1 .. n) PROVE g[s] = f[s]
  <2>1. s \in SUBSET (1 .. n + 1) /\ n + 1 \notin s
    OBVIOUS
  <2> QED BY <2>1
<1>2. ASSUME NEW s \in SUBSET (1 .. n + 1) PROVE g[s] = At(s)
  <2>1. CASE n + 1 \in s
    <3>1. Max(s) = n + 1
      <4>1. \A y \in s : n + 1 >= y
        OBVIOUS
      <4>2. \A z \in s : (\A y \in s : z >= y) => z = n + 1
        BY <2>1
      <4> QED BY <4>1, <4>2, <2>1 DEF Max
    <3>2. s \ {n + 1} \in SUBSET (1 .. n)
      OBVIOUS
    <3>3. g[s \ {n + 1}] = f[s \ {n + 1}]
      BY <1>1, <3>2
    <3>4. g[s] = CoverStep(fold, x, f[s \ {n + 1}], q[n + 1])
      BY <2>1
    <3> HIDE DEF g
    <3> QED BY <3>1, <3>3, <3>4, <2>1
  <2>2. CASE n + 1 \notin s
    <3>1. s \in SUBSET (1 .. n) /\ s \ {Max(s)} \in SUBSET (1 .. n)
      <4>1. ASSUME NEW i \in s PROVE i \in 1 .. n
        BY <2>2
      <4> QED BY <4>1
    <3>2. g[s] = f[s] /\ g[s \ {Max(s)}] = f[s \ {Max(s)}]
      BY <3>1, <1>1
    <3>3. f[s] = IF s = {} THEN base ELSE CoverStep(fold, x, f[s \ {Max(s)}], q[Max(s)])
      BY <3>1 DEF CoverFolds
    <3> HIDE DEF g
    <3> QED BY <3>2, <3>3
  <2> QED BY <2>1, <2>2
<1>3. g = [s \in SUBSET (1 .. n + 1) |-> At(s)]
  <2>1. g = [s \in SUBSET (1 .. n + 1) |-> g[s]]
    OBVIOUS
  <2> HIDE DEF g, At
  <2> QED BY <2>1, <1>2
<1> HIDE DEF g
<1>4. CoverFolds(fold, x, base, q, g, n + 1)
  BY <1>3 DEF CoverFolds
<1> QED BY <1>4

\* Hence there is such a function for any number of ranges.
LEMMA CoverFoldExists ==
    ASSUME NEW fold, NEW x, NEW base, NEW q, NEW n \in Nat
    PROVE  \E f : CoverFolds(fold, x, base, q, f, n)
<1> DEFINE S == {k \in Nat : \E f : CoverFolds(fold, x, base, q, f, k)}
<1>1. 0 \in S
  <2> DEFINE f == [s \in SUBSET (1 .. 0) |-> base]
  <2>1. \A s \in SUBSET (1 .. 0) : s = {}
    OBVIOUS
  <2>2. CoverFolds(fold, x, base, q, f, 0)
    BY <2>1 DEF CoverFolds
  <2> QED BY <2>2
<1>2. \A k \in Nat : k \in S => k + 1 \in S
  BY CoverFoldGoesOn
<1> HIDE DEF S
<1>3. n \in S
  BY <1>1, <1>2, AllNaturals
<1> QED BY <1>3 DEF S

\* a is what a fold comes to after each number of ranges, up to n.
Course(fold, x, base, q, a, n) ==
    a[0] = base /\ \A k \in 0 .. n - 1 : a[k + 1] = CoverStep(fold, x, a[k], q[k + 1])

\* The fold is the end of a course with one step for each range.
LEMMA FoldIsCourse ==
    ASSUME NEW fold, NEW x, NEW base, NEW q, NEW n \in Nat, NEW f, CoverFolds(fold, x, base, q, f, n)
    PROVE  \E a : Course(fold, x, base, q, a, n) /\ a[n] = f[1 .. n]
<1> DEFINE a == [k \in 0 .. n |-> f[1 .. k]]
           At(s) == IF s = {} THEN base ELSE CoverStep(fold, x, f[s \ {Max(s)}], q[Max(s)])
<1>1. \A s \in SUBSET (1 .. n) : f[s] = At(s)
  BY DEF CoverFolds
<1>2. a[0] = base
  <2>1. 1 .. 0 = {} /\ {} \in SUBSET (1 .. n)
    OBVIOUS
  <2>2. f[{}] = base
    BY <1>1, <2>1
  <2> QED BY <2>1, <2>2
<1>3. ASSUME NEW k \in 0 .. n - 1 PROVE a[k + 1] = CoverStep(fold, x, a[k], q[k + 1])
  <2>1. k \in Nat /\ k + 1 \in 0 .. n /\ k \in 0 .. n /\ 1 .. k + 1 \in SUBSET (1 .. n)
    OBVIOUS
  <2>2. Max(1 .. k + 1) = k + 1 /\ (1 .. k + 1) \ {k + 1} = 1 .. k /\ 1 .. k + 1 # {}
    BY <2>1, MaxOfSegment
  <2>3. f[1 .. k + 1] = CoverStep(fold, x, f[1 .. k], q[k + 1])
    BY <1>1, <2>1, <2>2
  <2>4. a[k + 1] = f[1 .. k + 1] /\ a[k] = f[1 .. k]
    BY <2>1
  <2> QED BY <2>3, <2>4
<1>4. a[n] = f[1 .. n]
  OBVIOUS
<1> HIDE DEF a
<1> QED BY <1>2, <1>3, <1>4 DEF Course

\* What the fold over n ranges comes to.
CoverFold(fold, x, base, q, n) == (CHOOSE f : CoverFolds(fold, x, base, q, f, n))[1 .. n]

\* It is the end of a course.
LEMMA CourseOf ==
    ASSUME NEW fold, NEW x, NEW base, NEW q, NEW n \in Nat
    PROVE  \E a : Course(fold, x, base, q, a, n) /\ a[n] = CoverFold(fold, x, base, q, n)
<1> DEFINE F == CHOOSE f : CoverFolds(fold, x, base, q, f, n)
<1>1. CoverFolds(fold, x, base, q, F, n)
  BY CoverFoldExists
<1>2. CoverFold(fold, x, base, q, n) = F[1 .. n]
  BY DEF CoverFold
<1> HIDE DEF F
<1>3. \E a : Course(fold, x, base, q, a, n) /\ a[n] = F[1 .. n]
  BY <1>1, FoldIsCourse
<1> QED BY <1>2, <1>3

\* The ranges that overlap another one, as a course.
LEMMA OverlappingCourse ==
    ASSUME NEW E, NEW q \in Seq(E), NEW x
    PROVE  \E a : Course("overlapping", x, <<>>, q, a, Len(q)) /\ Overlapping(x, q) = a[Len(q)]
<1>1. DOMAIN q = 1 .. Len(q) /\ Len(q) \in Nat
  OBVIOUS
<1>2. Overlapping(x, q) = CoverFold("overlapping", x, <<>>, q, Len(q))
  BY <1>1 DEF Overlapping, FoldLeft, MapThenFoldSet, CoverFold, CoverFolds, CoverStep
<1> QED BY <1>1, <1>2, CourseOf

\* The sorted ranges, as a course.
LEMMA SortedCourse ==
    ASSUME NEW E, NEW q \in Seq(E)
    PROVE  \E a : Course("sorted", {}, <<>>, q, a, Len(q)) /\ Sorted(q) = a[Len(q)]
<1>1. DOMAIN q = 1 .. Len(q) /\ Len(q) \in Nat /\ "sorted" # "overlapping"
  OBVIOUS
<1>2. Sorted(q) = CoverFold("sorted", {}, <<>>, q, Len(q))
  BY <1>1 DEF Sorted, FoldLeft, MapThenFoldSet, CoverFold, CoverFolds, CoverStep
<1> QED BY <1>1, <1>2, CourseOf

\* The merged ranges, as a course over the sorted ones.
LEMMA MergeCourse ==
    ASSUME NEW E, NEW p, Sorted(p) \in Seq(E)
    PROVE  \E a : Course("merged", {}, <<>>, Sorted(p), a, Len(Sorted(p))) /\ Merge(p) = a[Len(Sorted(p))]
<1> DEFINE q == Sorted(p)
<1>0. Merge(p) = FoldLeft(Add, <<>>, q)
  BY DEF Merge
<1>1. DOMAIN q = 1 .. Len(q) /\ Len(q) \in Nat /\ "merged" # "overlapping" /\ "merged" # "sorted"
  OBVIOUS
<1> HIDE DEF q
<1>2. Merge(p) = CoverFold("merged", {}, <<>>, q, Len(q))
  BY <1>0, <1>1 DEF FoldLeft, MapThenFoldSet, CoverFold, CoverFolds, CoverStep
<1>3. \E a : Course("merged", {}, <<>>, q, a, Len(q)) /\ Merge(p) = a[Len(q)]
  BY <1>1, <1>2, CourseOf
<1> QED BY <1>3 DEF q

\* The gaps between merged ranges, as a course over them.
LEMMA SubtractCourse ==
    ASSUME NEW E, NEW p, Merge(p) \in Seq(E), NEW x
    PROVE  \E a : /\ Course("gaps", x, [next |-> x.from, missing |-> <<>>], Merge(p), a, Len(Merge(p)))
                  /\ Subtract(x, p) = IF a[Len(Merge(p))].next <= x.to
                                      THEN Append(a[Len(Merge(p))].missing, Between(x, a[Len(Merge(p))].next, x.to))
                                      ELSE a[Len(Merge(p))].missing
<1> DEFINE q == Merge(p)
           base == [next |-> x.from, missing |-> <<>>]
           end == FoldLeft(LAMBDA state, c : Pass(x, 1, state, c), base, q)
<1>0. Subtract(x, p) = IF end.next <= x.to THEN Append(end.missing, Between(x, end.next, x.to)) ELSE end.missing
  BY DEF Subtract, SubtractWith
<1>1. /\ DOMAIN q = 1 .. Len(q) /\ Len(q) \in Nat
      /\ "gaps" # "overlapping" /\ "gaps" # "sorted" /\ "gaps" # "merged"
  OBVIOUS
<1> HIDE DEF q, base
<1>2. end = CoverFold("gaps", x, base, q, Len(q))
  BY <1>1 DEF FoldLeft, MapThenFoldSet, CoverFold, CoverFolds, CoverStep
<1> HIDE DEF end
<1>3. PICK a : Course("gaps", x, base, q, a, Len(q)) /\ end = a[Len(q)]
  BY <1>1, <1>2, CourseOf
<1> QED BY <1>0, <1>3 DEF q, base

\* The number of lines, as a course.
LEMMA LinesInCourse ==
    ASSUME NEW E, NEW q \in Seq(E)
    PROVE  \E a : Course("lines", {}, 0, q, a, Len(q)) /\ LinesIn(q) = a[Len(q)]
<1>1. /\ DOMAIN q = 1 .. Len(q) /\ Len(q) \in Nat
      /\ "lines" # "overlapping" /\ "lines" # "sorted" /\ "lines" # "merged" /\ "lines" # "gaps"
  OBVIOUS
<1>2. LinesIn(q) = CoverFold("lines", {}, 0, q, Len(q))
  BY <1>1 DEF LinesIn, FoldLeft, MapThenFoldSet, CoverFold, CoverFolds, CoverStep
<1> DEFINE n == Len(q)
<1>3. n \in Nat /\ LinesIn(q) = CoverFold("lines", {}, 0, q, n)
  BY <1>1, <1>2
<1> HIDE DEF n
<1>4. \E a : Course("lines", {}, 0, q, a, n) /\ a[n] = CoverFold("lines", {}, 0, q, n)
  BY ONLY <1>3, CourseOf
<1>5. \E a : Course("lines", {}, 0, q, a, n) /\ LinesIn(q) = a[n]
  BY ONLY <1>3, <1>4
<1> QED BY <1>5 DEF n

-----------------------------------------------------------------------------
(* Ranges, and the lines that sequences of them cover.                      *)

RangesOf(f) == {r \in [file : {f}, from : Int, to : Int] : r.from <= r.to}

\* The lines of the first n ranges.
CoveredBy(q, n) == {l \in Int : \E i \in 1 .. n : q[i].from <= l /\ l <= q[i].to}

Ordered(q) == \A i, j \in 1 .. Len(q) : i < j => q[i].from <= q[j].from

\* Between two ranges is a line that neither has.
Spaced(q) == \A i, j \in 1 .. Len(q) : i < j => q[i].to + 1 < q[j].from

\* The greater and the lesser of two numbers.
LEMMA MaxMinOfTwo ==
    ASSUME NEW a \in Int, NEW b \in Int
    PROVE  /\ Max({a, b}) = IF a >= b THEN a ELSE b
           /\ Min({a, b}) = IF a <= b THEN a ELSE b
<1>1. \E z \in {a, b} : \A y \in {a, b} : z >= y
  OBVIOUS
<1>2. \E z \in {a, b} : \A y \in {a, b} : z <= y
  OBVIOUS
<1>3. Max({a, b}) \in {a, b} /\ \A y \in {a, b} : Max({a, b}) >= y
  BY <1>1 DEF Max
<1>4. Min({a, b}) \in {a, b} /\ \A y \in {a, b} : Min({a, b}) <= y
  BY <1>2 DEF Min
<1> QED BY <1>3, <1>4

\* A range and its bounds.
LEMMA RangeFacts ==
    ASSUME NEW f, NEW r \in RangesOf(f)
    PROVE  /\ r.file = f /\ r.from \in Int /\ r.to \in Int /\ r.from <= r.to
           /\ \A a, b \in Int : /\ Between(r, a, b).from = a /\ Between(r, a, b).to = b
                                /\ a <= b => Between(r, a, b) \in RangesOf(f)
BY DEF RangesOf, Between

\* What an element that is put into a sequence leaves in its place, and what it moves.
LEMMA Inserted ==
    ASSUME NEW E, NEW s \in Seq(E), NEW r \in E, NEW p \in 0 .. Len(s)
    PROVE  /\ InsertAt(s, p + 1, r) \in Seq(E) /\ Len(InsertAt(s, p + 1, r)) = Len(s) + 1
           /\ \A i \in 1 .. p : InsertAt(s, p + 1, r)[i] = s[i]
           /\ InsertAt(s, p + 1, r)[p + 1] = r
           /\ \A i \in p + 2 .. Len(s) + 1 : InsertAt(s, p + 1, r)[i] = s[i - 1]
<1> DEFINE left == SubSeq(s, 1, p)
           right == SubSeq(s, p + 1, Len(s))
           one == <<r>>
           both == left \o one
           t == both \o right
<1>1. InsertAt(s, p + 1, r) = t
  <2>1. (p + 1) - 1 = p
    OBVIOUS
  <2> QED BY <2>1 DEF InsertAt
<1>2. left \in Seq(E) /\ Len(left) = p /\ \A i \in 1 .. p : left[i] = s[i]
  OBVIOUS
<1>3. right \in Seq(E) /\ Len(right) = Len(s) - p /\ \A i \in 1 .. Len(s) - p : right[i] = s[p + i]
  OBVIOUS
<1>4. one \in Seq(E) /\ Len(one) = 1 /\ one[1] = r
  OBVIOUS
<1> HIDE DEF left, right, one
<1>5. both \in Seq(E) /\ Len(both) = p + 1 /\ both[p + 1] = r /\ \A i \in 1 .. p : both[i] = s[i]
  <2>1. both \in Seq(E)
    BY <1>2, <1>4
  <2>2. Len(both) = p + 1
    <3>1. Len(left \o one) = Len(left) + Len(one)
      BY <1>2, <1>4, ConcatProperties
    <3> QED BY <1>2, <1>4, <3>1
  <2>3. p \in Nat
    OBVIOUS
  <2>4. both[p + 1] = r /\ \A i \in 1 .. p : both[i] = s[i]
    <3>1. \A i \in 1 .. Len(left) + Len(one) : both[i] = IF i <= Len(left) THEN left[i] ELSE one[i - Len(left)]
      BY ONLY <1>2, <1>4, ConcatProperties
    <3>2. p + 1 \in 1 .. p + 1 /\ ~(p + 1 <= p) /\ (p + 1) - p = 1
      BY ONLY <2>3
    <3>3. \A i \in 1 .. p : i \in 1 .. p + 1 /\ i <= p
      BY ONLY <2>3
    <3> HIDE DEF both
    <3> QED BY ONLY <1>2, <1>4, <3>1, <3>2, <3>3
  <2> QED BY ONLY <2>1, <2>2, <2>4
<1> HIDE DEF both
<1>6. t \in Seq(E) /\ Len(t) = Len(s) + 1
  <2>1. t \in Seq(E) /\ Len(t) = Len(both) + Len(right)
    <3>1. both \in Seq(E) /\ right \in Seq(E)
      BY <1>3, <1>5
    <3> QED BY ONLY <3>1, ConcatProperties
  <2>2. Len(s) \in Nat /\ p \in Nat
    OBVIOUS
  <2> HIDE DEF t
  <2> QED BY <1>3, <1>5, <2>1, <2>2
<1>7. \A i \in 1 .. p + 1 : t[i] = both[i]
  BY <1>3, <1>5
<1>8. ASSUME NEW i \in p + 2 .. Len(s) + 1 PROVE t[i] = s[i - 1]
  <2>1. i - (p + 1) \in 1 .. Len(right) /\ i \in Len(both) + 1 .. Len(both) + Len(right) /\ p + (i - (p + 1)) = i - 1
    BY <1>3, <1>5
  <2>2. t[i] = right[i - (p + 1)]
    BY <1>3, <1>5, <2>1
  <2> QED BY <1>3, <2>1, <2>2
<1> HIDE DEF t
<1> QED BY <1>1, <1>5, <1>6, <1>7, <1>8

\* A range is put where the order by first lines wants it.
LEMMA InsertFacts ==
    ASSUME NEW f, NEW s \in Seq(RangesOf(f)), Ordered(s), NEW r \in RangesOf(f)
    PROVE  /\ Insert(s, r) \in Seq(RangesOf(f)) /\ Len(Insert(s, r)) = Len(s) + 1
           /\ Ordered(Insert(s, r))
           /\ \A l \in Int : l \in CoveredBy(Insert(s, r), Len(s) + 1) <=>
                               (l \in CoveredBy(s, Len(s)) \/ (r.from <= l /\ l <= r.to))
<1> DEFINE n == Len(s)
           notAfter == {i \in DOMAIN s : ~Before(r, s[i])}
           p == Max({0} \union notAfter)
           t == InsertAt(s, p + 1, r)
<1>0. Insert(s, r) = t
  BY DEF Insert
<1>1. n \in Nat /\ DOMAIN s = 1 .. n /\ \A i \in 1 .. n : s[i] \in RangesOf(f)
  OBVIOUS
<1>2. p \in 0 .. n /\ p \in {0} \union notAfter /\ \A i \in notAfter : p >= i
  <2>1. CASE notAfter = {}
    <3>1. {0} \union notAfter = {0, 0}
      BY <2>1
    <3>2. p = 0
      BY <3>1, MaxMinOfTwo
    <3> QED BY <1>1, <2>1, <3>2
  <2>2. CASE notAfter # {}
    <3> DEFINE S == notAfter
    <3>1. S \subseteq 1 .. n /\ S # {}
      BY <1>1, <2>2
    <3> HIDE DEF notAfter
    <3>2. Max(S) \in S /\ \A i \in S : Max(S) >= i
      BY <1>1, <3>1, GreatestExists
    <3>3. Max(S) \in {0} \union S /\ \A y \in {0} \union S : Max(S) >= y
      <4> HIDE DEF S, p
      <4>1. Max(S) \in 1 .. n
        BY <3>1, <3>2
      <4>2. Max(S) >= 0
        BY <1>1, <4>1
      <4> QED BY <3>2, <4>2
    <3>4. \E z \in {0} \union S : \A y \in {0} \union S : z >= y
      BY <3>3
    <3>5. Max({0} \union S) \in {0} \union S /\ \A i \in {0} \union S : Max({0} \union S) >= i
      <4> DEFINE T == {0} \union S
      <4>1. \E z \in T : \A y \in T : z >= y
        BY <3>4
      <4> HIDE DEF T
      <4>2. Max(T) \in T /\ \A y \in T : Max(T) >= y
        BY <4>1 DEF Max
      <4> QED BY <4>2 DEF T
    <3>6. p \in {0} \union S /\ \A i \in {0} \union S : p >= i
      BY <3>5
    <3> HIDE DEF p
    <3> QED BY <1>1, <3>1, <3>6
  <2> QED BY <2>1, <2>2
<1>3. p > 0 => s[p].from <= r.from
  <2> SUFFICES ASSUME p > 0 PROVE s[p].from <= r.from
    OBVIOUS
  <2>1. p \in 1 .. n /\ ~Before(r, s[p])
    BY <1>2
  <2>2. s[p] \in RangesOf(f)
    BY <1>1, <2>1
  <2> HIDE DEF p
  <2> QED BY <2>1, <2>2, RangeFacts DEF Before
<1>4. \A i \in 1 .. n : i > p => r.from <= s[i].from
  <2> HIDE DEF p
  <2> SUFFICES ASSUME NEW i \in 1 .. n, i > p PROVE r.from <= s[i].from
    OBVIOUS
  <2>1. i \notin notAfter
    <3> HIDE DEF notAfter
    <3> QED BY <1>1, <1>2
  <2>2. Before(r, s[i])
    BY <1>1, <2>1
  <2>3. s[i] \in RangesOf(f)
    BY <1>1
  <2> QED BY <2>2, <2>3, RangeFacts DEF Before
<1> HIDE DEF p
<1>5. /\ t \in Seq(RangesOf(f)) /\ Len(t) = n + 1
      /\ \A i \in 1 .. p : t[i] = s[i]
      /\ t[p + 1] = r
      /\ \A i \in p + 2 .. n + 1 : t[i] = s[i - 1]
  <2> DEFINE R == RangesOf(f)
  <2>1. s \in Seq(R) /\ r \in R /\ p \in 0 .. Len(s)
    BY <1>2
  <2> HIDE DEF R
  <2>2. /\ InsertAt(s, p + 1, r) \in Seq(R) /\ Len(InsertAt(s, p + 1, r)) = Len(s) + 1
        /\ \A i \in 1 .. p : InsertAt(s, p + 1, r)[i] = s[i]
        /\ InsertAt(s, p + 1, r)[p + 1] = r
        /\ \A i \in p + 2 .. Len(s) + 1 : InsertAt(s, p + 1, r)[i] = s[i - 1]
    BY ONLY <2>1, Inserted
  <2> QED BY <2>2 DEF R
<1> HIDE DEF t, n
<1>6. \A i \in 1 .. n : s[i].from \in Int /\ s[i].to \in Int
  BY <1>1, RangeFacts
<1>7. r.from \in Int /\ r.to \in Int
  BY RangeFacts
<1>8. \A i, j \in 1 .. n : i < j => s[i].from <= s[j].from
  BY DEF Ordered, n
<1>9. Ordered(t)
  <2>1. SUFFICES ASSUME NEW i \in 1 .. n + 1, NEW j \in 1 .. n + 1, i < j PROVE t[i].from <= t[j].from
    BY <1>5 DEF Ordered
  <2>2. \A k \in 1 .. p : s[k].from <= r.from
    BY <1>1, <1>2, <1>3, <1>6, <1>7, <1>8
  <2>3. CASE j <= p
    BY <1>1, <1>2, <1>5, <1>8, <2>1, <2>3
  <2>4. CASE j = p + 1
    BY <1>1, <1>2, <1>5, <2>1, <2>2, <2>4
  <2>5. CASE j > p + 1 /\ i = p + 1
    <3>1. j - 1 \in 1 .. n /\ j - 1 > p /\ j \in p + 2 .. n + 1
      BY <1>1, <1>2, <2>1, <2>5
    <3> QED BY <1>4, <1>5, <2>5, <3>1
  <2>6. CASE j > p + 1 /\ i <= p
    <3>1. j - 1 \in 1 .. n /\ j - 1 > p /\ j \in p + 2 .. n + 1 /\ i \in 1 .. n /\ i \in 1 .. p
      BY <1>1, <1>2, <2>1, <2>6
    <3>2. t[i] = s[i] /\ t[j] = s[j - 1] /\ s[i].from <= r.from /\ r.from <= s[j - 1].from
      BY <1>4, <1>5, <2>2, <3>1
    <3>3. s[i].from \in Int /\ s[j - 1].from \in Int
      BY <1>6, <3>1
    <3> QED BY <1>7, <3>2, <3>3
  <2>7. CASE j > p + 1 /\ i > p + 1
    <3>1. /\ j - 1 \in 1 .. n /\ i - 1 \in 1 .. n /\ i - 1 < j - 1
          /\ j \in p + 2 .. n + 1 /\ i \in p + 2 .. n + 1
      BY <1>1, <1>2, <2>1, <2>7
    <3> QED BY <1>5, <1>8, <3>1
  <2> QED BY <1>1, <1>2, <2>1, <2>3, <2>4, <2>5, <2>6, <2>7
<1>10. ASSUME NEW l \in Int
       PROVE  l \in CoveredBy(t, n + 1) <=> (l \in CoveredBy(s, n) \/ (r.from <= l /\ l <= r.to))
  <2>1. ASSUME NEW i \in 1 .. n + 1, t[i].from <= l, l <= t[i].to
        PROVE  (\E j \in 1 .. n : s[j].from <= l /\ l <= s[j].to) \/ (r.from <= l /\ l <= r.to)
    <3>1. CASE i <= p
      BY <1>1, <1>2, <1>5, <2>1, <3>1
    <3>2. CASE i = p + 1
      BY <1>5, <2>1, <3>2
    <3>3. CASE i > p + 1
      <4>1. i - 1 \in 1 .. n /\ i \in p + 2 .. n + 1
        BY <1>1, <1>2, <3>3
      <4> QED BY <1>5, <2>1, <4>1
    <3> QED BY <1>1, <1>2, <3>1, <3>2, <3>3
  <2>2. ASSUME NEW j \in 1 .. n, s[j].from <= l, l <= s[j].to
        PROVE  \E i \in 1 .. n + 1 : t[i].from <= l /\ l <= t[i].to
    <3>1. CASE j <= p
      <4>1. t[j] = s[j] /\ j \in 1 .. n + 1
        BY <1>1, <1>2, <1>5, <3>1
      <4> QED BY <2>2, <4>1
    <3>2. CASE j > p
      <4>1. j + 1 \in p + 2 .. n + 1 /\ j + 1 \in 1 .. n + 1 /\ (j + 1) - 1 = j
        BY <1>1, <1>2, <3>2
      <4>2. t[j + 1] = s[j]
        BY <1>5, <4>1
      <4> QED BY <2>2, <4>1, <4>2
    <3> QED BY <1>1, <1>2, <3>1, <3>2
  <2>3. (r.from <= l /\ l <= r.to) => \E i \in 1 .. n + 1 : t[i].from <= l /\ l <= t[i].to
    BY <1>1, <1>2, <1>5
  <2> QED BY <2>1, <2>2, <2>3 DEF CoveredBy
<1> QED BY <1>0, <1>5, <1>9, <1>10 DEF n

\* The sorted ranges are in order and have the same lines.
LEMMA SortedFacts ==
    ASSUME NEW f, NEW q \in Seq(RangesOf(f))
    PROVE  /\ Sorted(q) \in Seq(RangesOf(f)) /\ Len(Sorted(q)) = Len(q)
           /\ Ordered(Sorted(q))
           /\ \A l \in Int : l \in CoveredBy(Sorted(q), Len(q)) <=> l \in CoveredBy(q, Len(q))
<1> DEFINE R == RangesOf(f)
           n == Len(q)
<1>1. PICK a : Course("sorted", {}, <<>>, q, a, n) /\ Sorted(q) = a[n]
  BY SortedCourse
<1> DEFINE Good(k) == /\ a[k] \in Seq(R) /\ Len(a[k]) = k /\ Ordered(a[k])
                      /\ \A l \in Int : l \in CoveredBy(a[k], k) <=> l \in CoveredBy(q, k)
           S == {k \in Nat : k <= n => Good(k)}
<1>2. n \in Nat /\ \A i \in 1 .. n : q[i] \in R
  OBVIOUS
<1>3. 0 \in S
  <2>1. a[0] = <<>>
    BY <1>1 DEF Course
  <2>2. <<>> \in Seq(R) /\ Len(<<>>) = 0
    OBVIOUS
  <2>3. Ordered(<<>>)
    BY <2>2 DEF Ordered
  <2>4. \A l \in Int : l \in CoveredBy(<<>>, 0) <=> l \in CoveredBy(q, 0)
    BY DEF CoveredBy
  <2> QED BY <2>1, <2>2, <2>3, <2>4
<1>4. ASSUME NEW k \in Nat, k \in S PROVE k + 1 \in S
  <2> SUFFICES ASSUME k + 1 <= n PROVE Good(k + 1)
    OBVIOUS
  <2>1. k \in 0 .. n - 1 /\ k <= n /\ k + 1 \in 1 .. n
    BY <1>2
  <2>2. Good(k)
    BY <1>4, <2>1
  <2>3. a[k + 1] = Insert(a[k], q[k + 1])
    BY <1>1, <2>1 DEF Course, CoverStep
  <2> DEFINE s == a[k]
             r == q[k + 1]
  <2>4. s \in Seq(RangesOf(f)) /\ Ordered(s) /\ r \in RangesOf(f) /\ Len(s) = k
    BY <1>2, <2>1, <2>2
  <2> HIDE DEF s
  <2>5. /\ Insert(s, r) \in Seq(RangesOf(f)) /\ Len(Insert(s, r)) = Len(s) + 1
        /\ Ordered(Insert(s, r))
        /\ \A l \in Int : l \in CoveredBy(Insert(s, r), Len(s) + 1) <=>
                            (l \in CoveredBy(s, Len(s)) \/ (r.from <= l /\ l <= r.to))
    BY <2>4, InsertFacts
  <2>6. \A l \in Int : l \in CoveredBy(q, k + 1) <=> (l \in CoveredBy(q, k) \/ (r.from <= l /\ l <= r.to))
    <3>1. \A i \in 1 .. k + 1 : i \in 1 .. k \/ i = k + 1
      OBVIOUS
    <3>2. 1 .. k \subseteq 1 .. k + 1 /\ k + 1 \in 1 .. k + 1
      OBVIOUS
    <3> QED BY <3>1, <3>2 DEF CoveredBy
  <2>7. a[k + 1] = Insert(s, r) /\ \A l \in Int : l \in CoveredBy(s, k) <=> l \in CoveredBy(q, k)
    BY <2>2, <2>3 DEF s
  <2> HIDE DEF r
  <2> QED BY <2>4, <2>5, <2>6, <2>7
<1> HIDE DEF S
<1>5. n \in S
  BY <1>2, <1>3, <1>4, AllNaturals
<1>6. Good(n)
  BY <1>2, <1>5 DEF S
<1> QED BY <1>1, <1>6

\* A range that is added to merged ranges, none of which starts behind it.
LEMMA AddFacts ==
    ASSUME NEW f, NEW m \in Seq(RangesOf(f)), Spaced(m), NEW r \in RangesOf(f),
           Len(m) > 0 => m[Len(m)].from <= r.from
    PROVE  /\ Add(m, r) \in Seq(RangesOf(f)) /\ Spaced(Add(m, r))
           /\ Len(Add(m, r)) > 0 /\ Add(m, r)[Len(Add(m, r))].from <= r.from
           /\ \A l \in Int : l \in CoveredBy(Add(m, r), Len(Add(m, r))) <=>
                               (l \in CoveredBy(m, Len(m)) \/ (r.from <= l /\ l <= r.to))
<1> DEFINE R == RangesOf(f)
           n == Len(m)
           t == Add(m, r)
<1>1. /\ n \in Nat /\ \A i \in 1 .. n : m[i] \in R /\ m[i].from \in Int /\ m[i].to \in Int /\ m[i].from <= m[i].to
      /\ DOMAIN m = 1 .. n
  <2>1. n \in Nat /\ \A i \in 1 .. n : m[i] \in R
    OBVIOUS
  <2>2. ASSUME NEW i \in 1 .. n PROVE m[i].from \in Int /\ m[i].to \in Int /\ m[i].from <= m[i].to
    BY <2>1, RangeFacts
  <2> QED BY <2>1, <2>2
<1>2. r.from \in Int /\ r.to \in Int /\ r.from <= r.to
  BY RangeFacts
<1>3. \A i, j \in 1 .. n : i < j => m[i].to + 1 < m[j].from
  BY DEF Spaced
<1>4. m # <<>> => (n > 0 /\ Last(m) = m[n])
  BY DEF Last
<1>5. m = <<>> => n = 0
  OBVIOUS
<1>6. CASE m = <<>> \/ r.from > Last(m).to + 1
  <2>1. t = Append(m, r)
    BY <1>6 DEF Add
  <2>2. t \in Seq(R) /\ Len(t) = n + 1 /\ t[n + 1] = r /\ \A i \in 1 .. n : t[i] = m[i]
    BY <2>1
  <2>3. \A i \in 1 .. n : m[i].to + 1 < r.from
    <3> SUFFICES ASSUME NEW i \in 1 .. n PROVE m[i].to + 1 < r.from
      OBVIOUS
    <3>1. n \in 1 .. n /\ m # <<>>
      BY <1>1, <1>5
    <3>2. r.from > m[n].to + 1
      BY <1>4, <1>6, <3>1
    <3> HIDE DEF t, n
    <3>3. i = n \/ m[i].to + 1 < m[n].from
      <4>1. i # n => (i \in 1 .. n /\ i < n)
        BY <1>1
      <4> QED BY <1>3, <3>1, <4>1
    <3>4. m[i].to \in Int /\ m[n].to \in Int /\ m[n].from \in Int /\ m[n].from <= m[n].to
      <4>1. \A k \in 1 .. n : m[k].from \in Int /\ m[k].to \in Int /\ m[k].from <= m[k].to
        BY <1>1
      <4>2. i \in 1 .. n /\ n \in 1 .. n
        BY <3>1
      <4> QED BY ONLY <4>1, <4>2, Zenon
    <3>5. CASE i = n
      BY <3>2, <3>5, Zenon
    <3>6. CASE m[i].to + 1 < m[n].from
      <4> DEFINE a == m[i].to
                 b == m[n].from
                 d == m[n].to
                 e == r.from
      <4>1. a \in Int /\ b \in Int /\ d \in Int /\ e \in Int
        BY <1>2, <3>4, Zenon
      <4>2. a + 1 < b /\ b <= d /\ e > d + 1
        BY <3>2, <3>4, <3>6, Zenon
      <4> HIDE DEF a, b, d, e
      <4>3. a + 1 < e
        BY ONLY <4>1, <4>2
      <4> QED BY <4>3 DEF a, e
    <3> QED BY <3>3, <3>5, <3>6
  <2> HIDE DEF t, n
  <2>4. Spaced(t)
    <3> SUFFICES ASSUME NEW i \in 1 .. n + 1, NEW j \in 1 .. n + 1, i < j PROVE t[i].to + 1 < t[j].from
      BY <2>2 DEF Spaced
    <3>1. i \in 1 .. n
      BY <1>1
    <3>2. CASE j = n + 1
      BY <2>2, <2>3, <3>1, <3>2
    <3>3. CASE j # n + 1
      <4>1. j \in 1 .. n
        <5>1. n \in Nat /\ j \in 1 .. n + 1
          BY <1>1
        <5> QED BY ONLY <3>3, <5>1
      <4> QED BY <1>3, <2>2, <3>1, <4>1
    <3> QED BY <3>2, <3>3
  <2>5. \A i \in 1 .. n + 1 : i \in 1 .. n \/ i = n + 1
    BY <1>1
  <2>6. 1 .. n \subseteq 1 .. n + 1 /\ n + 1 \in 1 .. n + 1 /\ n + 1 > 0
    BY <1>1
  <2>7. \A l \in Int : l \in CoveredBy(t, n + 1) <=> (l \in CoveredBy(m, n) \/ (r.from <= l /\ l <= r.to))
    BY <2>2, <2>5, <2>6 DEF CoveredBy
  <2>8. t[n + 1].from <= r.from
    BY <1>2, <2>2
  <2> QED BY <2>2, <2>4, <2>6, <2>7, <2>8 DEF t, n
<1>7. CASE ~(m = <<>> \/ r.from > Last(m).to + 1)
  <2> DEFINE top == IF m[n].to >= r.to THEN m[n].to ELSE r.to
             last == [m[n] EXCEPT !.to = top]
  <2>1. n \in 1 .. n /\ n > 0 /\ r.from <= m[n].to + 1 /\ m[n].from <= r.from
    BY <1>1, <1>2, <1>4, <1>7
  <2>2. top \in Int /\ top >= m[n].to /\ top >= r.to /\ (top = m[n].to \/ top = r.to)
    BY <1>1, <1>2, <2>1
  <2>3. Max({m[n].to, r.to}) = top
    BY <1>1, <1>2, <2>1, MaxMinOfTwo
  <2>4. t = [m EXCEPT ![n] = last]
    <3>1. t = [m EXCEPT ![Len(m)].to = Max({@, r.to})]
      BY <1>7 DEF Add
    <3> QED BY <2>1, <2>3, <3>1
  <2>5. last \in R /\ last.from = m[n].from /\ last.to = top
    <3>1. m[n] \in [file : {f}, from : Int, to : Int] /\ m[n].from <= m[n].to
      BY <1>1, <2>1 DEF RangesOf
    <3> HIDE DEF top
    <3>2. last \in [file : {f}, from : Int, to : Int] /\ last.from = m[n].from /\ last.to = top
      BY <2>2, <3>1
    <3>3. last.from <= last.to
      <4>1. m[n].from \in Int /\ m[n].to \in Int /\ m[n].from <= m[n].to
        BY <1>1, <2>1
      <4>2. last.from = m[n].from /\ last.to = top
        BY <3>2
      <4> QED BY ONLY <2>2, <4>1, <4>2
    <3> QED BY <3>2, <3>3 DEF RangesOf
  <2> HIDE DEF last, top
  <2>6. t \in Seq(R) /\ Len(t) = n /\ t[n] = last /\ \A i \in 1 .. n : i # n => t[i] = m[i]
    BY <1>1, <2>1, <2>4, <2>5
  <2> HIDE DEF t, n
  <2>7. Spaced(t)
    <3> SUFFICES ASSUME NEW i \in 1 .. n, NEW j \in 1 .. n, i < j PROVE t[i].to + 1 < t[j].from
      BY <2>6 DEF Spaced
    <3>1. i # n
      <4>1. n \in Nat /\ i \in 1 .. n /\ j \in 1 .. n /\ i < j
        BY <1>1
      <4> QED BY ONLY <4>1
    <3>2. t[i] = m[i] /\ (j # n => t[j] = m[j])
      BY <2>6, <3>1
    <3>3. t[j].from = m[j].from
      BY <2>5, <2>6, <3>2
    <3> QED BY <1>3, <3>2, <3>3
  <2>8. ASSUME NEW l \in Int
        PROVE  l \in CoveredBy(t, n) <=> (l \in CoveredBy(m, n) \/ (r.from <= l /\ l <= r.to))
    <3>1. (m[n].from <= l /\ l <= top) <=> ((m[n].from <= l /\ l <= m[n].to) \/ (r.from <= l /\ l <= r.to))
      BY <1>1, <1>2, <2>1, <2>2
    <3>2. ASSUME NEW i \in 1 .. n, t[i].from <= l, l <= t[i].to
          PROVE  (\E j \in 1 .. n : m[j].from <= l /\ l <= m[j].to) \/ (r.from <= l /\ l <= r.to)
      <4>1. CASE i = n
        BY <2>1, <2>5, <2>6, <3>1, <3>2, <4>1
      <4>2. CASE i # n
        BY <2>6, <3>2, <4>2
      <4> QED BY <4>1, <4>2
    <3>3. ASSUME NEW j \in 1 .. n, m[j].from <= l, l <= m[j].to
          PROVE  \E i \in 1 .. n : t[i].from <= l /\ l <= t[i].to
      <4>1. CASE j = n
        BY <2>1, <2>5, <2>6, <3>1, <3>3, <4>1
      <4>2. CASE j # n
        BY <2>6, <3>3, <4>2
      <4> QED BY <4>1, <4>2
    <3>4. (r.from <= l /\ l <= r.to) => \E i \in 1 .. n : t[i].from <= l /\ l <= t[i].to
      BY <2>1, <2>5, <2>6, <3>1
    <3> QED BY <3>2, <3>3, <3>4 DEF CoveredBy
  <2> QED BY <2>1, <2>5, <2>6, <2>7, <2>8 DEF t, n
<1> QED BY <1>6, <1>7

\* Merged ranges have the lines of the ranges, and a line between any two.
LEMMA MergeFacts ==
    ASSUME NEW f, NEW p \in Seq(RangesOf(f))
    PROVE  /\ Merge(p) \in Seq(RangesOf(f)) /\ Spaced(Merge(p))
           /\ \A l \in Int : l \in CoveredBy(Merge(p), Len(Merge(p))) <=> l \in CoveredBy(p, Len(p))
<1> DEFINE R == RangesOf(f)
           q == Sorted(p)
           n == Len(q)
<1>1. /\ q \in Seq(R) /\ n = Len(p) /\ Ordered(q)
      /\ \A l \in Int : l \in CoveredBy(q, n) <=> l \in CoveredBy(p, n)
  BY SortedFacts
<1>2. PICK a : Course("merged", {}, <<>>, q, a, n) /\ Merge(p) = a[n]
  BY <1>1, MergeCourse
<1> HIDE DEF q
<1> DEFINE Good(k) == /\ a[k] \in Seq(R) /\ Spaced(a[k])
                      /\ k > 0 => (Len(a[k]) > 0 /\ a[k][Len(a[k])].from <= q[k].from)
                      /\ k = 0 => Len(a[k]) = 0
                      /\ \A l \in Int : l \in CoveredBy(a[k], Len(a[k])) <=> l \in CoveredBy(q, k)
           S == {k \in Nat : k <= n => Good(k)}
<1>3. n \in Nat /\ \A i \in 1 .. n : q[i] \in R /\ q[i].from \in Int
  <2>1. n \in Nat /\ \A i \in 1 .. n : q[i] \in R
    BY <1>1
  <2> QED BY <2>1, RangeFacts
<1>4. 0 \in S
  <2>1. a[0] = <<>>
    BY <1>2 DEF Course
  <2>2. <<>> \in Seq(R) /\ Len(<<>>) = 0
    OBVIOUS
  <2>3. Spaced(<<>>)
    BY <2>2 DEF Spaced
  <2>4. \A l \in Int : l \in CoveredBy(<<>>, 0) <=> l \in CoveredBy(q, 0)
    BY DEF CoveredBy
  <2>5. Good(0)
    <3>1. 0 = 0 /\ ~(0 > 0)
      OBVIOUS
    <3> QED BY <2>1, <2>2, <2>3, <2>4, <3>1
  <2> HIDE DEF Good
  <2> QED BY <2>5
<1>5. ASSUME NEW k \in Nat, k \in S PROVE k + 1 \in S
  <2> SUFFICES ASSUME k + 1 <= n PROVE Good(k + 1)
    OBVIOUS
  <2>1. k \in 0 .. n - 1 /\ k <= n /\ k + 1 \in 1 .. n
    BY <1>3
  <2>2. Good(k)
    BY <1>5, <2>1
  <2>3. a[k + 1] = Add(a[k], q[k + 1])
    BY <1>2, <2>1 DEF Course, CoverStep
  <2> DEFINE m == a[k]
             r == q[k + 1]
             t == Add(m, r)
  <2>4. Len(m) > 0 => m[Len(m)].from <= r.from
    <3>1. CASE k = 0
      BY <2>2, <3>1
    <3>2. CASE k > 0
      <4>1. k \in 1 .. n
        BY <1>3, <2>1, <3>2
      <4>2. q[k].from <= q[k + 1].from
        BY <1>1, <2>1, <4>1 DEF Ordered
      <4>3. Len(m) > 0 /\ m[Len(m)].from <= q[k].from
        BY <2>2, <3>2
      <4>4. m[Len(m)] \in R
        <5>1. m \in Seq(R)
          BY <2>2
        <5> QED BY <4>3, <5>1
      <4>5. m[Len(m)].from \in Int
        BY <4>4, RangeFacts
      <4>6. q[k].from \in Int /\ q[k + 1].from \in Int
        BY <1>3, <2>1, <4>1
      <4> QED BY <4>2, <4>3, <4>5, <4>6
    <3> QED BY <3>1, <3>2
  <2>5. m \in Seq(RangesOf(f)) /\ Spaced(m) /\ r \in RangesOf(f)
    BY <1>3, <2>1, <2>2
  <2> HIDE DEF m
  <2>6. /\ Add(m, r) \in Seq(RangesOf(f)) /\ Spaced(Add(m, r))
        /\ Len(Add(m, r)) > 0 /\ Add(m, r)[Len(Add(m, r))].from <= r.from
        /\ \A l \in Int : l \in CoveredBy(Add(m, r), Len(Add(m, r))) <=>
                            (l \in CoveredBy(m, Len(m)) \/ (r.from <= l /\ l <= r.to))
    BY <2>4, <2>5, AddFacts
  <2>7. \A l \in Int : l \in CoveredBy(q, k + 1) <=> (l \in CoveredBy(q, k) \/ (r.from <= l /\ l <= r.to))
    <3>1. \A i \in 1 .. k + 1 : i \in 1 .. k \/ i = k + 1
      OBVIOUS
    <3>2. 1 .. k \subseteq 1 .. k + 1 /\ k + 1 \in 1 .. k + 1
      OBVIOUS
    <3> QED BY <3>1, <3>2 DEF CoveredBy
  <2>8. a[k + 1] = t /\ \A l \in Int : l \in CoveredBy(m, Len(m)) <=> l \in CoveredBy(q, k)
    BY <2>2, <2>3 DEF m
  <2>9. t \in Seq(R) /\ Spaced(t) /\ Len(t) > 0 /\ t[Len(t)].from <= q[k + 1].from
    BY <2>6
  <2>10. \A l \in Int : l \in CoveredBy(t, Len(t)) <=> l \in CoveredBy(q, k + 1)
    BY <2>6, <2>7, <2>8
  <2>11. k + 1 > 0 /\ k + 1 # 0
    OBVIOUS
  <2> HIDE DEF r, t
  <2> QED BY <2>8, <2>9, <2>10, <2>11
<1> HIDE DEF S
<1>6. n \in S
  BY <1>3, <1>4, <1>5, AllNaturals
<1>7. Good(n)
  BY <1>3, <1>6 DEF S
<1> QED BY <1>1, <1>2, <1>7

\* What of a range other ranges leave are the lines that none of them has.
LEMMA SubtractFacts ==
    ASSUME NEW f, NEW p \in Seq(RangesOf(f)), NEW x \in RangesOf(f)
    PROVE  /\ Subtract(x, p) \in Seq(RangesOf(f))
           /\ \A l \in Int : l \in CoveredBy(Subtract(x, p), Len(Subtract(x, p))) <=>
                               (x.from <= l /\ l <= x.to /\ l \notin CoveredBy(p, Len(p)))
<1> DEFINE R == RangesOf(f)
           c == Merge(p)
           n == Len(c)
           base == [next |-> x.from, missing |-> <<>>]
<1>1. /\ c \in Seq(R) /\ Spaced(c)
      /\ \A l \in Int : l \in CoveredBy(c, n) <=> l \in CoveredBy(p, Len(p))
  BY MergeFacts
<1>2. PICK a : /\ Course("gaps", x, base, c, a, n)
               /\ Subtract(x, p) = IF a[n].next <= x.to THEN Append(a[n].missing, Between(x, a[n].next, x.to))
                                   ELSE a[n].missing
  BY <1>1, SubtractCourse
<1> HIDE DEF c
<1>3. n \in Nat /\ \A i \in 1 .. n : c[i].from \in Int /\ c[i].to \in Int /\ c[i].from <= c[i].to
  <2>1. n \in Nat /\ \A i \in 1 .. n : c[i] \in R
    BY <1>1
  <2> QED BY <2>1, RangeFacts
<1>4. \A i, j \in 1 .. n : i < j => c[i].to + 1 < c[j].from
  BY <1>1 DEF Spaced
<1>5. x.from \in Int /\ x.to \in Int /\ x.from <= x.to
  BY RangeFacts
<1>6. \A u, v \in Int : /\ Between(x, u, v).from = u /\ Between(x, u, v).to = v
                        /\ u <= v => Between(x, u, v) \in R
  BY RangeFacts
<1> HIDE DEF n
<1> DEFINE Shows(missing, l) == l \in CoveredBy(missing, Len(missing))
           Good(k, s) == /\ s.next \in Int /\ s.missing \in Seq(R) /\ s.next >= x.from
                         /\ s.next = x.from \/ \E i \in 1 .. k : s.next = c[i].to + 1
                         /\ \A i \in 1 .. k : c[i].to < s.next \/ c[i].from > x.to
                         /\ \A l \in Int : Shows(s.missing, l) <=>
                              (x.from <= l /\ l < s.next /\ l <= x.to /\ l \notin CoveredBy(c, k))
           S == {k \in Nat : k <= n => Good(k, a[k])}
<1>7. ASSUME NEW m \in Seq(R), NEW u \in Int, NEW v \in Int, u <= v
      PROVE  /\ Append(m, Between(x, u, v)) \in Seq(R)
             /\ \A l \in Int : Shows(Append(m, Between(x, u, v)), l) <=> (Shows(m, l) \/ (u <= l /\ l <= v))
  <2> DEFINE g == Between(x, u, v)
             t == Append(m, g)
  <2>1. g \in R /\ g.from = u /\ g.to = v
    BY <1>6, <1>7
  <2> HIDE DEF g
  <2>2. /\ t \in Seq(R) /\ Len(t) = Len(m) + 1 /\ t[Len(m) + 1] = g
        /\ Len(m) \in Nat /\ \A i \in 1 .. Len(m) : t[i] = m[i]
    BY <2>1
  <2> HIDE DEF t
  <2>3. \A i \in 1 .. Len(m) + 1 : i \in 1 .. Len(m) \/ i = Len(m) + 1
    BY <2>2
  <2>4. 1 .. Len(m) \subseteq 1 .. Len(m) + 1 /\ Len(m) + 1 \in 1 .. Len(m) + 1
    BY <2>2
  <2>5. \A l \in Int : Shows(t, l) <=> (Shows(m, l) \/ (u <= l /\ l <= v))
    BY <2>1, <2>2, <2>3, <2>4 DEF CoveredBy
  <2> QED BY <2>2, <2>5 DEF t, g
<1>8. 0 \in S
  <2>1. a[0] = base
    BY <1>2 DEF Course
  <2>2. <<>> \in Seq(R) /\ Len(<<>>) = 0 /\ base.next = x.from /\ base.missing = <<>>
    OBVIOUS
  <2>3. \A l \in Int : ~Shows(<<>>, l)
    BY <2>2 DEF CoveredBy
  <2> HIDE DEF base
  <2>4. \A l \in Int : ~(x.from <= l /\ l < base.next)
    BY <1>5, <2>2
  <2> HIDE DEF Shows
  <2>5. Good(0, base)
    BY <1>5, <2>2, <2>3, <2>4
  <2> QED BY <2>1, <2>5
<1>9. ASSUME NEW k \in Nat, k \in S PROVE k + 1 \in S
  <2> SUFFICES ASSUME k + 1 <= n PROVE Good(k + 1, a[k + 1])
    OBVIOUS
  <2>1. k \in 0 .. n - 1 /\ k <= n /\ k + 1 \in 1 .. n /\ \A i \in 1 .. k : i \in 1 .. n /\ i < k + 1
    BY <1>3
  <2> DEFINE s == a[k]
             r == c[k + 1]
             t == Pass(x, 1, s, r)
  <2>2. Good(k, s)
    BY <1>9, <2>1
  <2>3. a[k + 1] = t
    BY <1>2, <2>1 DEF Course, CoverStep
  <2>4. r.from \in Int /\ r.to \in Int /\ r.from <= r.to
    BY <1>3, <2>1
  <2>5. \A i \in 1 .. k : c[i].to + 1 < r.from /\ c[i].to \in Int /\ c[i].from \in Int
    BY <1>3, <1>4, <2>1
  <2> HIDE DEF s, r
  <2>6. \A l \in Int : l \in CoveredBy(c, k + 1) <=> (l \in CoveredBy(c, k) \/ (r.from <= l /\ l <= r.to))
    <3>1. \A i \in 1 .. k + 1 : i \in 1 .. k \/ i = k + 1
      OBVIOUS
    <3>2. 1 .. k \subseteq 1 .. k + 1 /\ k + 1 \in 1 .. k + 1
      OBVIOUS
    <3> QED BY <3>1, <3>2 DEF CoveredBy, r
  <2>7. \A i \in 1 .. k + 1 : i \in 1 .. k \/ (i = k + 1 /\ c[i] = r)
    BY DEF r
  <2>8. s.next = x.from \/ s.next < r.from
    BY <2>2, <2>4, <2>5
  <2>9. 1 .. k \subseteq 1 .. k + 1 /\ k + 1 \in 1 .. k + 1 /\ c[k + 1] = r
    BY DEF r
  <2>10. s.next \in Int /\ s.missing \in Seq(R) /\ s.next >= x.from
    BY <2>2
  <2>11. CASE r.to < s.next \/ r.from > x.to
    <3>1. t = s
      BY <2>11 DEF Pass
    <3>2. \A i \in 1 .. k + 1 : c[i].to < s.next \/ c[i].from > x.to
      BY <2>2, <2>7, <2>11
    <3>3. \A l \in Int : (x.from <= l /\ l < s.next /\ l <= x.to) => ~(r.from <= l /\ l <= r.to)
      BY <1>5, <2>4, <2>8, <2>10, <2>11
    <3>4. s.next = x.from \/ \E i \in 1 .. k + 1 : s.next = c[i].to + 1
      BY <2>2, <2>9
    <3>5. \A l \in Int : Shows(s.missing, l) <=>
                           (x.from <= l /\ l < s.next /\ l <= x.to /\ l \notin CoveredBy(c, k + 1))
      <4> HIDE DEF Shows
      <4> QED BY <2>2, <2>6, <3>3
    <3> HIDE DEF Shows, t
    <3> QED BY <2>3, <2>10, <3>1, <3>2, <3>4, <3>5
  <2>12. CASE ~(r.to < s.next \/ r.from > x.to)
    <3> DEFINE gap == Append(s.missing, Between(x, s.next, Min({r.from - 1, x.to})))
               missed == IF r.from > s.next THEN gap ELSE s.missing
    <3>1. t = [next |-> r.to + 1, missing |-> missed]
      <4>1. Max({s.next, r.to + 1}) = r.to + 1
        <5> DEFINE before == s.next
                   after == r.to + 1
        <5>1. before \in Int /\ after \in Int /\ (before >= after => before = after)
          BY <2>4, <2>10, <2>12
        <5> HIDE DEF before, after
        <5>2. Max({before, after}) = after
          BY ONLY <5>1, MaxMinOfTwo
        <5> QED BY <5>2 DEF before, after
      <4> QED BY <2>12, <4>1 DEF Pass
    <3>2. t.next = r.to + 1 /\ t.missing = missed
      <4> HIDE DEF missed, t
      <4> QED BY <3>1
    <3>3. missed \in Seq(R) /\ \A l \in Int : Shows(missed, l) <=>
                                 (Shows(s.missing, l) \/ (s.next <= l /\ l < r.from))
      <4>1. CASE r.from > s.next
        <5>1. Min({r.from - 1, x.to}) = r.from - 1
          <6> DEFINE before == r.from - 1
                     top == x.to
          <6>1. before \in Int /\ top \in Int /\ before <= top
            BY <1>5, <2>4, <2>12
          <6> HIDE DEF before, top
          <6>2. Min({before, top}) = before
            BY <6>1, MaxMinOfTwo
          <6> QED BY <6>2 DEF before, top
        <5>2. r.from - 1 \in Int /\ s.next <= r.from - 1
          BY <2>4, <2>10, <4>1
        <5>3. missed = Append(s.missing, Between(x, s.next, r.from - 1))
          BY <4>1, <5>1
        <5> HIDE DEF missed, Shows
        <5>4. /\ missed \in Seq(R)
              /\ \A l \in Int : Shows(missed, l) <=> (Shows(s.missing, l) \/ (s.next <= l /\ l <= r.from - 1))
          BY <1>7, <2>10, <5>2, <5>3
        <5> QED BY <2>4, <5>4
      <4>2. CASE ~(r.from > s.next)
        <5>1. missed = s.missing
          BY <4>2
        <5>2. \A l \in Int : ~(s.next <= l /\ l < r.from)
          BY <2>4, <2>10, <4>2
        <5> HIDE DEF missed, Shows
        <5> QED BY <2>10, <5>1, <5>2
      <4> QED BY <4>1, <4>2
    <3> HIDE DEF missed, t
    <3>4. \A i \in 1 .. k + 1 : c[i].to < t.next
      BY <2>4, <2>5, <2>7, <3>2
    <3>5. \E i \in 1 .. k + 1 : t.next = c[i].to + 1
      BY <2>9, <3>2
    <3>6. ASSUME NEW l \in Int
          PROVE  Shows(missed, l) <=> (x.from <= l /\ l < t.next /\ l <= x.to /\ l \notin CoveredBy(c, k + 1))
      <4>1. Shows(missed, l) <=> (Shows(s.missing, l) \/ (s.next <= l /\ l < r.from))
        BY <3>3
      <4>2. Shows(s.missing, l) <=> (x.from <= l /\ l < s.next /\ l <= x.to /\ l \notin CoveredBy(c, k))
        BY <2>2
      <4>3. l \in CoveredBy(c, k + 1) <=> (l \in CoveredBy(c, k) \/ (r.from <= l /\ l <= r.to))
        BY <2>6
      <4>4. (l >= s.next /\ l <= x.to) => l \notin CoveredBy(c, k)
        <5> SUFFICES ASSUME l >= s.next, l <= x.to, NEW i \in 1 .. k, c[i].from <= l, l <= c[i].to PROVE FALSE
          BY DEF CoveredBy
        <5>1. c[i].to < s.next \/ c[i].from > x.to
          BY <2>2
        <5>2. c[i].to \in Int /\ c[i].from \in Int
          BY <2>5
        <5> QED BY <1>5, <2>10, <5>1, <5>2
      <4>5. t.next = r.to + 1
        BY <3>2
      <4> DEFINE old == l \in CoveredBy(c, k)
                 shown == Shows(s.missing, l)
                 now == l \in CoveredBy(c, k + 1)
      <4>6. shown <=> (x.from <= l /\ l < s.next /\ l <= x.to /\ ~old)
        BY <4>2
      <4>7. now <=> (old \/ (r.from <= l /\ l <= r.to))
        BY <4>3
      <4>8. (l >= s.next /\ l <= x.to) => ~old
        BY <4>4
      <4>9. Shows(missed, l) <=> (shown \/ (s.next <= l /\ l < r.from))
        BY <4>1
      <4> HIDE DEF old, shown, now, Shows
      <4>10. Shows(missed, l) <=> (x.from <= l /\ l < t.next /\ l <= x.to /\ ~now)
        BY <1>5, <2>4, <2>8, <2>10, <2>12, <4>5, <4>6, <4>7, <4>8, <4>9
      <4> QED BY <4>10 DEF now
    <3>7. t.next \in Int /\ t.next >= x.from
      BY <1>5, <2>4, <2>10, <2>12, <3>2
    <3> HIDE DEF Shows
    <3>8. Good(k + 1, t)
      BY <3>2, <3>3, <3>4, <3>5, <3>6, <3>7
    <3> QED BY <2>3, <3>8
  <2> QED BY <2>11, <2>12
<1> HIDE DEF S
<1>10. n \in S
  BY <1>3, <1>8, <1>9, AllNaturals
<1>11. Good(n, a[n])
  BY <1>3, <1>10 DEF S
<1> DEFINE s == a[n]
<1> HIDE DEF s
<1>12. /\ s.next \in Int /\ s.missing \in Seq(R) /\ s.next >= x.from
       /\ \A i \in 1 .. n : c[i].to < s.next \/ c[i].from > x.to
       /\ \A l \in Int : Shows(s.missing, l) <=>
            (x.from <= l /\ l < s.next /\ l <= x.to /\ l \notin CoveredBy(c, n))
  BY <1>11 DEF s
<1>13. Subtract(x, p) = IF s.next <= x.to THEN Append(s.missing, Between(x, s.next, x.to)) ELSE s.missing
  BY <1>2 DEF s
<1>14. \A l \in Int : (l >= s.next /\ l <= x.to) => l \notin CoveredBy(c, n)
  <2> SUFFICES ASSUME NEW l \in Int, l >= s.next, l <= x.to, NEW i \in 1 .. n, c[i].from <= l, l <= c[i].to
               PROVE  FALSE
    BY DEF CoveredBy
  <2>1. c[i].to < s.next \/ c[i].from > x.to
    BY <1>12
  <2>2. c[i].from \in Int /\ c[i].to \in Int /\ s.next \in Int
    BY <1>3, <1>12
  <2>3. l \in Int /\ l >= s.next /\ l <= x.to /\ c[i].from <= l /\ l <= c[i].to
    OBVIOUS
  <2> QED BY ONLY <1>5, <2>1, <2>2, <2>3
<1> DEFINE t == Subtract(x, p)
<1>15. t \in Seq(R) /\ \A l \in Int : Shows(t, l) <=> (x.from <= l /\ l <= x.to /\ l \notin CoveredBy(c, n))
  <2>1. CASE s.next <= x.to
    <3>1. t = Append(s.missing, Between(x, s.next, x.to))
      BY <1>13, <2>1
    <3> HIDE DEF t, Shows
    <3>2. t \in Seq(R) /\ \A l \in Int : Shows(t, l) <=> (Shows(s.missing, l) \/ (s.next <= l /\ l <= x.to))
      BY <1>5, <1>7, <1>12, <2>1, <3>1
    <3> QED BY <1>5, <1>12, <1>14, <2>1, <3>2
  <2>2. CASE ~(s.next <= x.to)
    <3>1. t = s.missing
      BY <1>13, <2>2
    <3> HIDE DEF t, Shows
    <3> QED BY <1>5, <1>12, <2>2, <3>1
  <2> QED BY <2>1, <2>2
<1> QED BY <1>1, <1>15

\* Merged ranges count the lines they cover.
LEMMA LinesAreCounted ==
    ASSUME NEW f, NEW q \in Seq(RangesOf(f)), Spaced(q)
    PROVE  IsFiniteSet(CoveredBy(q, Len(q))) /\ LinesIn(q) = Cardinality(CoveredBy(q, Len(q)))
<1> DEFINE R == RangesOf(f)
           n == Len(q)
<1>1. PICK a : Course("lines", {}, 0, q, a, n) /\ LinesIn(q) = a[n]
  BY LinesInCourse
<1>2. n \in Nat /\ \A i \in 1 .. n : q[i].from \in Int /\ q[i].to \in Int /\ q[i].from <= q[i].to
  <2>1. n \in Nat /\ \A i \in 1 .. n : q[i] \in R
    OBVIOUS
  <2> QED BY <2>1, RangeFacts
<1>3. \A i, j \in 1 .. n : i < j => q[i].to + 1 < q[j].from
  BY DEF Spaced
<1> HIDE DEF n
<1> DEFINE Good(k) == IsFiniteSet(CoveredBy(q, k)) /\ a[k] = Cardinality(CoveredBy(q, k))
           S == {k \in Nat : k <= n => Good(k)}
<1>4. 0 \in S
  <2>1. CoveredBy(q, 0) = {}
    BY DEF CoveredBy
  <2>2. a[0] = 0
    BY <1>1 DEF Course
  <2> QED BY <2>1, <2>2, FS_EmptySet
<1>5. ASSUME NEW k \in Nat, k \in S PROVE k + 1 \in S
  <2> SUFFICES ASSUME k + 1 <= n PROVE Good(k + 1)
    OBVIOUS
  <2>1. k \in 0 .. n - 1 /\ k <= n /\ k + 1 \in 1 .. n /\ \A i \in 1 .. k : i \in 1 .. n /\ i < k + 1
    BY <1>2
  <2> DEFINE r == q[k + 1]
             old == CoveredBy(q, k)
             lines == r.from .. r.to
  <2>2. IsFiniteSet(old) /\ a[k] = Cardinality(old)
    BY <1>5, <2>1
  <2>3. a[k + 1] = a[k] + Size(r)
    <3>1. "lines" # "overlapping" /\ "lines" # "sorted" /\ "lines" # "merged" /\ "lines" # "gaps"
      OBVIOUS
    <3> QED BY <1>1, <2>1, <3>1 DEF Course, CoverStep
  <2>4. r.from \in Int /\ r.to \in Int /\ r.from <= r.to
    BY <1>2, <2>1
  <2>5. CoveredBy(q, k + 1) = old \union lines
    <3>1. \A i \in 1 .. k + 1 : i \in 1 .. k \/ i = k + 1
      OBVIOUS
    <3>2. 1 .. k \subseteq 1 .. k + 1 /\ k + 1 \in 1 .. k + 1
      OBVIOUS
    <3>3. \A l \in Int : l \in CoveredBy(q, k + 1) <=> (l \in old \/ (r.from <= l /\ l <= r.to))
      BY <3>1, <3>2 DEF CoveredBy
    <3>4. CoveredBy(q, k + 1) \subseteq Int /\ old \subseteq Int
      BY DEF CoveredBy
    <3>5. \A l \in Int : l \in lines <=> (r.from <= l /\ l <= r.to)
      BY <2>4
    <3>6. lines \subseteq Int
      BY <2>4
    <3> HIDE DEF old, r, lines
    <3> QED BY <3>3, <3>4, <3>5, <3>6
  <2>6. old \intersect lines = {}
    <3> SUFFICES ASSUME NEW l \in Int, NEW i \in 1 .. k, q[i].from <= l, l <= q[i].to, r.from <= l PROVE FALSE
      BY DEF CoveredBy
    <3> QED BY <1>2, <1>3, <2>1, <2>4
  <2>7. IsFiniteSet(lines) /\ Cardinality(lines) = Size(r)
    <3>1. r.from > r.to <=> FALSE
      BY <2>4
    <3>2. IsFiniteSet(lines) /\ Cardinality(lines) = IF r.from > r.to THEN 0 ELSE r.to - r.from + 1
      BY <2>4, FS_Interval
    <3> QED BY <3>1, <3>2 DEF Size
  <2> HIDE DEF old, lines, r
  <2>8. /\ IsFiniteSet(old \union lines)
        /\ Cardinality(old \union lines) = Cardinality(old) + Cardinality(lines) - Cardinality({})
    <3>1. IsFiniteSet(old) /\ IsFiniteSet(lines)
      BY <2>2, <2>7
    <3> QED BY ONLY <2>6, <3>1, FS_Union
  <2>9. Cardinality({}) = 0 /\ Cardinality(old) \in Nat /\ Cardinality(lines) \in Nat
    BY <2>2, <2>7, FS_EmptySet, FS_CardinalityType
  <2>10. Cardinality(CoveredBy(q, k + 1)) = Cardinality(old) + Cardinality(lines)
    <3> DEFINE u == Cardinality(old)
               v == Cardinality(lines)
               w == Cardinality({})
    <3>1. Cardinality(CoveredBy(q, k + 1)) = u + v - w
      BY <2>5, <2>8
    <3>2. w = 0 /\ u \in Nat /\ v \in Nat
      BY <2>9
    <3> HIDE DEF u, v, w
    <3>3. u + v - w = u + v
      BY <3>2
    <3>4. Cardinality(CoveredBy(q, k + 1)) = u + v
      BY <3>1, <3>3
    <3> QED BY <3>4 DEF u, v
  <2>11. a[k + 1] = Cardinality(old) + Cardinality(lines)
    BY <2>2, <2>3, <2>7
  <2>12. IsFiniteSet(CoveredBy(q, k + 1))
    BY <2>5, <2>8
  <2> QED BY <2>10, <2>11, <2>12
<1> HIDE DEF S
<1>6. n \in S
  BY <1>2, <1>4, <1>5, AllNaturals
<1>7. Good(n)
  BY <1>2, <1>6 DEF S
<1> QED BY <1>1, <1>7 DEF n

\* What is kept of the ranges are those that overlap.
LEMMA OverlappingFacts ==
    ASSUME NEW E, NEW q \in Seq(E), NEW x
    PROVE  /\ Overlapping(x, q) \in Seq(E)
           /\ \A i \in 1 .. Len(Overlapping(x, q)) :
                \E j \in 1 .. Len(q) : Overlapping(x, q)[i] = q[j] /\ Overlaps(x, q[j])
           /\ \A j \in 1 .. Len(q) : Overlaps(x, q[j]) =>
                \E i \in 1 .. Len(Overlapping(x, q)) : Overlapping(x, q)[i] = q[j]
<1> DEFINE n == Len(q)
<1>1. PICK a : Course("overlapping", x, <<>>, q, a, n) /\ Overlapping(x, q) = a[n]
  BY OverlappingCourse
<1>2. n \in Nat /\ \A i \in 1 .. n : q[i] \in E
  OBVIOUS
<1> DEFINE Good(k, v) ==
             /\ v \in Seq(E)
             /\ \A i \in 1 .. Len(v) : \E j \in 1 .. k : v[i] = q[j] /\ Overlaps(x, q[j])
             /\ \A j \in 1 .. k : Overlaps(x, q[j]) => \E i \in 1 .. Len(v) : v[i] = q[j]
           S == {k \in Nat : k <= n => Good(k, a[k])}
<1> HIDE DEF n
<1>3. 0 \in S
  <2>1. a[0] = <<>>
    BY <1>1 DEF Course
  <2>2. Good(0, <<>>)
    OBVIOUS
  <2> QED BY <2>1, <2>2
<1>4. ASSUME NEW k \in Nat, k \in S PROVE k + 1 \in S
  <2> SUFFICES ASSUME k + 1 <= n PROVE Good(k + 1, a[k + 1])
    OBVIOUS
  <2>1. k \in 0 .. n - 1 /\ k <= n /\ k + 1 \in 1 .. n
    BY <1>2
  <2> DEFINE v == a[k]
             r == q[k + 1]
  <2>2. Good(k, v)
    BY <1>4, <2>1
  <2>3. a[k + 1] = IF Overlaps(x, r) THEN Append(v, r) ELSE v
    BY <1>1, <2>1 DEF Course, CoverStep
  <2>4. r \in E /\ r = q[k + 1]
    BY <1>2, <2>1
  <2> HIDE DEF v, r
  <2>5. \A j \in 1 .. k + 1 : j \in 1 .. k \/ j = k + 1
    OBVIOUS
  <2>6. 1 .. k \subseteq 1 .. k + 1 /\ k + 1 \in 1 .. k + 1
    OBVIOUS
  <2>7. CASE Overlaps(x, r)
    <3> DEFINE t == Append(v, r)
    <3>1. /\ t \in Seq(E) /\ Len(t) = Len(v) + 1 /\ t[Len(v) + 1] = r
          /\ Len(v) \in Nat /\ \A i \in 1 .. Len(v) : t[i] = v[i]
      BY <2>2, <2>4
    <3> HIDE DEF t
    <3>2. \A i \in 1 .. Len(v) + 1 : i \in 1 .. Len(v) \/ i = Len(v) + 1
      BY <3>1
    <3>3. 1 .. Len(v) \subseteq 1 .. Len(v) + 1 /\ Len(v) + 1 \in 1 .. Len(v) + 1
      BY <3>1
    <3>4. \A i \in 1 .. Len(t) : \E j \in 1 .. k + 1 : t[i] = q[j] /\ Overlaps(x, q[j])
      BY <2>2, <2>4, <2>6, <2>7, <3>1, <3>2
    <3>5. \A j \in 1 .. k + 1 : Overlaps(x, q[j]) => \E i \in 1 .. Len(t) : t[i] = q[j]
      BY <2>2, <2>4, <2>5, <3>1, <3>3
    <3>6. a[k + 1] = t
      BY <2>3, <2>7 DEF t
    <3> QED BY <3>1, <3>4, <3>5, <3>6
  <2>8. CASE ~Overlaps(x, r)
    <3>1. a[k + 1] = v
      BY <2>3, <2>8
    <3> QED BY <2>2, <2>4, <2>5, <2>6, <2>8, <3>1
  <2> QED BY <2>7, <2>8
<1> HIDE DEF S
<1>5. n \in S
  BY <1>2, <1>3, <1>4, AllNaturals
<1>6. Good(n, a[n])
  <2> HIDE DEF Good
  <2>1. n <= n => Good(n, a[n])
    BY <1>5 DEF S
  <2> QED BY <1>2, <2>1
<1> QED BY <1>1, <1>6 DEF n

\* The advisory to a read of x of which the turn knows some lines.
Tells(x, known, advisory) ==
    IF \/ known = LinesOf(x)
       \/ 2 * Cardinality(known) >= Size(x) /\ Cardinality(known) >= MinimumOverlap
    THEN /\ UNION {LinesOf(m) : m \in ToSet(advisory.missing)} = LinesOf(x) \ known
         /\ advisory.overlap = Cardinality(known)
    ELSE advisory = NoAdvisory

\* An advisory about x tells which of its lines the ranges shown so far cover, if
\* that are all of them, or half of them and not too few.
LEMMA AdvisoryTells ==
    ASSUME NEW f, NEW x \in RangesOf(f), NEW E, NEW shown \in Seq(E),
           \A i \in 1 .. Len(shown) : /\ shown[i].from \in Int /\ shown[i].to \in Int
                                      /\ shown[i].from <= shown[i].to,
           NEW known, known = {l \in LinesOf(x) : \E i \in 1 .. Len(shown) :
                                 shown[i].file = x.file /\ l \in LinesOf(shown[i])},
           NEW advisory, advisory = Advisory(x, shown)
    PROVE  Tells(x, known, advisory)
<1> DEFINE R == RangesOf(f)
           previous == Overlapping(x, shown)
           parts == [i \in DOMAIN previous |-> Intersection(x, previous[i])]
           visible == Merge(parts)
           overlap == LinesIn(visible)
           missing == Subtract(x, visible)
<1>0. advisory = IF /\ previous # <<>>
                    /\ missing = <<>> \/ (2 * overlap >= Size(x) /\ overlap >= MinimumOverlap)
                 THEN [previous |-> previous, missing |-> missing, overlap |-> overlap]
                 ELSE NoAdvisory
  BY DEF Advisory
<1>1. /\ previous \in Seq(E)
      /\ \A i \in 1 .. Len(previous) : \E j \in 1 .. Len(shown) : previous[i] = shown[j] /\ Overlaps(x, shown[j])
      /\ \A j \in 1 .. Len(shown) : Overlaps(x, shown[j]) => \E i \in 1 .. Len(previous) : previous[i] = shown[j]
  <2>1. shown \in Seq(E)
    OBVIOUS
  <2> QED BY ONLY <2>1, OverlappingFacts
<1>2. x.file = f /\ x.from \in Int /\ x.to \in Int /\ x.from <= x.to
  BY RangeFacts
<1> HIDE DEF previous
<1> DEFINE n == Len(previous)
<1>3. n \in Nat /\ DOMAIN previous = 1 .. n
  BY <1>1
<1>4. ASSUME NEW p, p.from \in Int, p.to \in Int, p.from <= p.to, Overlaps(x, p)
      PROVE  /\ Intersection(x, p) \in R
             /\ \A l \in Int : (Intersection(x, p).from <= l /\ l <= Intersection(x, p).to)
                                 <=> (x.from <= l /\ l <= x.to /\ p.from <= l /\ l <= p.to)
  <2> DEFINE u == Max({x.from, p.from})
             v == Min({x.to, p.to})
  <2>1. u = IF x.from >= p.from THEN x.from ELSE p.from
    BY <1>2, <1>4, MaxMinOfTwo
  <2>2. v = IF x.to <= p.to THEN x.to ELSE p.to
    BY <1>2, <1>4, MaxMinOfTwo
  <2>3. x.from <= p.to /\ p.from <= x.to
    BY <1>4 DEF Overlaps
  <2>4. Intersection(x, p) = Between(x, u, v)
    BY DEF Intersection
  <2> HIDE DEF u, v
  <2>5. u \in Int /\ v \in Int /\ u <= v
    BY <1>2, <1>4, <2>1, <2>2, <2>3
  <2>6. Between(x, u, v).from = u /\ Between(x, u, v).to = v /\ Between(x, u, v) \in R
    BY <2>5, RangeFacts
  <2>7. \A l \in Int : (u <= l /\ l <= v) <=> (x.from <= l /\ l <= x.to /\ p.from <= l /\ l <= p.to)
    BY <1>2, <1>4, <2>1, <2>2
  <2> QED BY <2>4, <2>6, <2>7
<1>5. \A i \in 1 .. n : /\ parts[i] = Intersection(x, previous[i])
                        /\ Overlaps(x, previous[i])
                        /\ previous[i].from \in Int /\ previous[i].to \in Int /\ previous[i].from <= previous[i].to
  <2> SUFFICES ASSUME NEW i \in 1 .. n
               PROVE  /\ parts[i] = Intersection(x, previous[i])
                      /\ Overlaps(x, previous[i])
                      /\ previous[i].from \in Int /\ previous[i].to \in Int /\ previous[i].from <= previous[i].to
    OBVIOUS
  <2>1. PICK j \in 1 .. Len(shown) : previous[i] = shown[j] /\ Overlaps(x, shown[j])
    BY <1>1
  <2>2. parts[i] = Intersection(x, previous[i])
    BY <1>3
  <2> QED BY <2>1, <2>2
<1>6. parts \in Seq(R) /\ Len(parts) = n
  <2>1. \A i \in 1 .. n : parts[i] \in R
    BY <1>4, <1>5
  <2>2. DOMAIN parts = 1 .. n /\ parts = [i \in 1 .. n |-> parts[i]]
    BY <1>3
  <2> HIDE DEF parts, R, n
  <2>3. parts \in [1 .. n -> R]
    BY <2>1, <2>2
  <2> QED BY <1>3, <2>3
<1> HIDE DEF parts, n
<1>7. ASSUME NEW l \in Int
      PROVE  l \in CoveredBy(parts, n) <=>
               (/\ x.from <= l /\ l <= x.to
                /\ \E j \in 1 .. Len(shown) : shown[j].file = x.file /\ shown[j].from <= l /\ l <= shown[j].to)
  <2>1. ASSUME NEW i \in 1 .. n, parts[i].from <= l, l <= parts[i].to
        PROVE  /\ x.from <= l /\ l <= x.to
               /\ \E j \in 1 .. Len(shown) : shown[j].file = x.file /\ shown[j].from <= l /\ l <= shown[j].to
    <3>1. x.from <= l /\ l <= x.to /\ previous[i].from <= l /\ l <= previous[i].to
      BY <1>4, <1>5, <2>1
    <3>2. PICK j \in 1 .. Len(shown) : previous[i] = shown[j] /\ Overlaps(x, shown[j])
      BY <1>1 DEF n
    <3>3. shown[j].file = x.file
      BY <3>2 DEF Overlaps
    <3> QED BY <3>1, <3>2, <3>3
  <2>2. ASSUME x.from <= l, l <= x.to,
               NEW j \in 1 .. Len(shown), shown[j].file = x.file, shown[j].from <= l, l <= shown[j].to
        PROVE  \E i \in 1 .. n : parts[i].from <= l /\ l <= parts[i].to
    <3>1. shown[j].from \in Int /\ shown[j].to \in Int
      OBVIOUS
    <3>2. Overlaps(x, shown[j])
      <4>1. x.from <= shown[j].to /\ shown[j].from <= x.to
        BY <1>2, <2>2, <3>1
      <4> QED BY <2>2, <4>1 DEF Overlaps
    <3>3. PICK i \in 1 .. n : previous[i] = shown[j]
      BY <1>1, <3>2 DEF n
    <3>4. parts[i].from <= l /\ l <= parts[i].to
      BY <1>4, <1>5, <2>2, <3>3
    <3> QED BY <3>4
  <2> QED BY <2>1, <2>2 DEF CoveredBy
<1>8. known = CoveredBy(parts, n)
  <2>1. \A l \in Int : l \in known <=> l \in CoveredBy(parts, n)
    <3> SUFFICES ASSUME NEW l \in Int PROVE l \in known <=> l \in CoveredBy(parts, n)
      OBVIOUS
    <3>1. l \in LinesOf(x) <=> (x.from <= l /\ l <= x.to)
      BY <1>2 DEF LinesOf
    <3>2. \A j \in 1 .. Len(shown) : l \in LinesOf(shown[j]) <=> (shown[j].from <= l /\ l <= shown[j].to)
      BY DEF LinesOf
    <3> QED BY <1>7, <3>1, <3>2
  <2>2. known \subseteq Int /\ CoveredBy(parts, n) \subseteq Int
    BY <1>2 DEF CoveredBy, LinesOf
  <2> QED BY <2>1, <2>2
<1>9. /\ visible \in Seq(R) /\ Spaced(visible)
      /\ \A l \in Int : l \in CoveredBy(visible, Len(visible)) <=> l \in CoveredBy(parts, Len(parts))
  BY <1>6, MergeFacts
<1> HIDE DEF visible
<1>10. CoveredBy(visible, Len(visible)) = known
  <2>1. CoveredBy(visible, Len(visible)) \subseteq Int /\ CoveredBy(parts, n) \subseteq Int
    BY DEF CoveredBy
  <2> QED BY <1>6, <1>8, <1>9, <2>1
<1>11. IsFiniteSet(known) /\ overlap = Cardinality(known)
  <2>1. IsFiniteSet(CoveredBy(visible, Len(visible))) /\ LinesIn(visible) = Cardinality(CoveredBy(visible, Len(visible)))
    BY <1>9, LinesAreCounted
  <2> QED BY <1>10, <2>1
<1>12. /\ missing \in Seq(R)
       /\ \A l \in Int : l \in CoveredBy(missing, Len(missing)) <=> (x.from <= l /\ l <= x.to /\ l \notin known)
  <2>1. /\ Subtract(x, visible) \in Seq(R)
        /\ \A l \in Int : l \in CoveredBy(Subtract(x, visible), Len(Subtract(x, visible))) <=>
                            (x.from <= l /\ l <= x.to /\ l \notin CoveredBy(visible, Len(visible)))
    BY <1>9, SubtractFacts
  <2> QED BY <1>10, <2>1
<1> HIDE DEF missing, overlap
<1>13. known \subseteq LinesOf(x) /\ LinesOf(x) \subseteq Int /\ \A l \in Int : l \in LinesOf(x) <=> (x.from <= l /\ l <= x.to)
  BY <1>2 DEF LinesOf
<1>14. \A i \in 1 .. Len(missing) : missing[i].from \in Int /\ missing[i].to \in Int /\ missing[i].from <= missing[i].to
  <2>1. \A i \in 1 .. Len(missing) : missing[i] \in R
    BY <1>12
  <2> QED BY <2>1, RangeFacts
<1>15. missing = <<>> <=> known = LinesOf(x)
  <2>1. ASSUME missing = <<>> PROVE known = LinesOf(x)
    <3>1. Len(missing) = 0
      BY <2>1
    <3>2. \A l \in Int : l \notin CoveredBy(missing, Len(missing))
      BY <3>1 DEF CoveredBy
    <3> QED BY <1>12, <1>13, <3>2
  <2>2. ASSUME missing # <<>>, known = LinesOf(x) PROVE FALSE
    <3>1. 1 \in 1 .. Len(missing)
      BY <1>12, <2>2
    <3>2. missing[1].from \in CoveredBy(missing, Len(missing))
      BY <1>14, <3>1 DEF CoveredBy
    <3>3. missing[1].from \in Int
      BY <1>14, <3>1
    <3> QED BY <1>12, <1>13, <2>2, <3>2, <3>3
  <2> QED BY <2>1, <2>2
<1>16. UNION {LinesOf(m) : m \in ToSet(missing)} = LinesOf(x) \ known
  <2> DEFINE U == UNION {LinesOf(m) : m \in ToSet(missing)}
  <2>1. \A l : l \in U <=> \E i \in 1 .. Len(missing) : l \in LinesOf(missing[i])
    <3>1. ToSet(missing) = {missing[i] : i \in 1 .. Len(missing)}
      <4>1. DOMAIN missing = 1 .. Len(missing)
        BY <1>12
      <4> QED BY <4>1 DEF ToSet
    <3> QED BY <3>1
  <2>2. \A l : (\E i \in 1 .. Len(missing) : l \in LinesOf(missing[i])) <=>
                 l \in CoveredBy(missing, Len(missing))
    BY <1>14 DEF LinesOf, CoveredBy
  <2>3. CoveredBy(missing, Len(missing)) \subseteq Int
    BY DEF CoveredBy
  <2> HIDE DEF U
  <2>4. \A l : l \in U <=> (l \in LinesOf(x) /\ l \notin known)
    BY <1>12, <1>13, <2>1, <2>2, <2>3
  <2> QED BY <2>4 DEF U
<1>17. previous = <<>> => (known # LinesOf(x) /\ Cardinality(known) = 0)
  <2> SUFFICES ASSUME previous = <<>> PROVE known # LinesOf(x) /\ Cardinality(known) = 0
    OBVIOUS
  <2>1. n = 0
    BY DEF n
  <2>2. known = {}
    <3>1. 1 .. n = {}
      BY ONLY <2>1
    <3>2. CoveredBy(parts, n) = {}
      BY ONLY <3>1 DEF CoveredBy
    <3> QED BY ONLY <1>8, <3>2, Zenon
  <2>3. x.from \in LinesOf(x)
    BY <1>2 DEF LinesOf
  <2> QED BY <2>2, <2>3, FS_EmptySet
<1> DEFINE due == \/ known = LinesOf(x)
                  \/ 2 * Cardinality(known) >= Size(x) /\ Cardinality(known) >= MinimumOverlap
<1>18. due <=> /\ previous # <<>>
               /\ missing = <<>> \/ (2 * overlap >= Size(x) /\ overlap >= MinimumOverlap)
  BY <1>11, <1>15, <1>17 DEF MinimumOverlap
<1>19. due => advisory = [previous |-> previous, missing |-> missing, overlap |-> overlap]
  <2> HIDE DEF due
  <2> QED BY <1>0, <1>18
<1>20. due => (advisory.missing = missing /\ advisory.overlap = overlap)
  <2> HIDE DEF due
  <2> QED BY <1>19
<1>21. ~due => advisory = NoAdvisory
  <2> HIDE DEF due
  <2> QED BY <1>0, <1>18
<1>22. due => /\ UNION {LinesOf(m) : m \in ToSet(advisory.missing)} = LinesOf(x) \ known
              /\ advisory.overlap = Cardinality(known)
  <2> HIDE DEF due
  <2> QED BY <1>11, <1>16, <1>20
<1> QED BY <1>21, <1>22 DEF Tells

-----------------------------------------------------------------------------
(* The specification.                                                      *)

BatchInv == Inv /\ TurnInv

LEMMA TurnNext == TurnInv /\ [BatchNext]_allVars => TurnInv'
<1> SUFFICES ASSUME TurnInv, [BatchNext]_allVars PROVE TurnInv'
  OBVIOUS
<1>1. ASSUME NEW c \in Inspections, OperationEnds(c) \/ Answer(c) PROVE TurnInv'
  BY <1>1, OperationEndsInv, AnswerActionInv
<1>2. ASSUME NEW r \in Runs, RunStarts(r) PROVE TurnInv'
  <2>1. UNCHANGED <<turn, batch, coverage, provider>>
    BY <1>2 DEF RunStarts
  <2> QED BY <2>1, QuietInv
<1>3. ASSUME NEW r \in Others, OtherAsks(r) \/ OtherSettles(r) PROVE TurnInv'
  <2>1. UNCHANGED <<turn, batch, coverage, provider>>
    BY <1>3 DEF OtherAsks, OtherSettles
  <2> QED BY <2>1, QuietInv
<1>4. CASE Interrupt
  <2>1. UNCHANGED <<turn, batch, coverage, provider>>
    BY <1>4 DEF Interrupt
  <2> QED BY <2>1, QuietInv
<1>5. CASE UNCHANGED allVars
  <2>1. UNCHANGED <<turn, batch, coverage, provider>>
    BY <1>5 DEF allVars
  <2> QED BY <2>1, QuietInv
<1>6. CASE StartBatch \/ StartCall \/ Loop \/ BatchEnds
  BY <1>6, StartBatchInv, StartCallInv, LoopInv, BatchEndsInv
<1>7. CASE Change \/ BuildRequest \/ EndInterrupted
  BY <1>7, ChangeInv, BuildRequestInv, EndInterruptedInv
<1> QED BY <1>1, <1>2, <1>3, <1>4, <1>5, <1>6, <1>7 DEF BatchNext

\* Every step of the turn is one of the limiter's, or leaves the limiter alone.
LEMMA LimiterNext == TurnInv /\ [BatchNext]_allVars => [Next]_vars
<1> SUFFICES ASSUME TurnInv, [BatchNext]_allVars PROVE [Next]_vars
  OBVIOUS
<1>1. Inspections \subseteq Runs /\ Others \subseteq Runs
  BY CallsAssumption
<1>2. \A r \in Runs : Acquire(r) \/ Enqueue(r) \/ Start(r) \/ Settle(r) => Next
  BY DEF Next
<1>3. UNCHANGED limiter => UNCHANGED vars
  BY DEF limiter, vars
<1>4. CASE StartCall
  <2>1. NextToStart \in Runs
    BY <1>1, <1>4, StartCallInv
  <2>2. Acquire(NextToStart) \/ Enqueue(NextToStart)
    BY <1>4 DEF StartCall
  <2> QED BY ONLY <1>2, <2>1, <2>2
<1>5. ASSUME NEW c \in Inspections, OperationEnds(c) PROVE Next
  <2>1. Settle(c)
    BY <1>5 DEF OperationEnds
  <2> QED BY ONLY <1>1, <1>2, <2>1, <1>5
<1>6. ASSUME NEW r \in Runs, RunStarts(r) PROVE Next
  <2>1. Start(r)
    BY <1>6 DEF RunStarts
  <2> QED BY ONLY <1>2, <2>1, <1>6
<1>7. ASSUME NEW r \in Others, OtherAsks(r) \/ OtherSettles(r) PROVE Next
  <2>1. Acquire(r) \/ Enqueue(r) \/ Settle(r)
    BY <1>7 DEF OtherAsks, OtherSettles
  <2> QED BY ONLY <1>1, <1>2, <2>1, <1>7
<1>8. ASSUME NEW c \in Inspections, Answer(c) PROVE UNCHANGED limiter
  BY <1>8 DEF Answer
<1>9. CASE StartBatch \/ Loop \/ BatchEnds \/ Change \/ BuildRequest
  <2>1. UNCHANGED limiter
    BY <1>9 DEF StartBatch, Loop, BatchEnds, Change, BuildRequest
  <2> QED BY <1>3, <2>1
<1>10. CASE Interrupt \/ EndInterrupted \/ UNCHANGED allVars
  <2>1. UNCHANGED limiter
    BY <1>10 DEF Interrupt, EndInterrupted, allVars
  <2> QED BY <1>3, <2>1
<1> QED BY <1>3, <1>4, <1>5, <1>6, <1>7, <1>8, <1>9, <1>10 DEF BatchNext

LEMMA TurnInvariance == BatchSpec => []TurnInv
BY BatchInitInv, TurnNext, PTL DEF BatchSpec

\* The batches use the limiter as it is meant to be used: what holds of the
\* limiter with any calls holds of it with the batches of a turn, for any steps
\* the model asks for and whatever the calls of subagents do meanwhile.
THEOREM BatchesUseTheLimiter == BatchSpec => Spec
<1>1. BatchInit => Init
  BY DEF BatchInit
<1> QED BY <1>1, LimiterNext, TurnInvariance, PTL DEF BatchSpec, Spec

LEMMA BatchInvariance == BatchSpec => []BatchInv
<1>1. Inv /\ TurnInv => BatchInv
  BY DEF BatchInv
<1> QED BY <1>1, BatchesUseTheLimiter, Invariance, TurnInvariance, PTL

\* The types of a turn's batches, for any steps, calls and limits: in particular
\* no call is answered before an operation of its key has ended.
THEOREM BatchTypesCorrect == BatchSpec => []BatchTypeOK
<1> SUFFICES BatchInv => BatchTypeOK
  BY BatchInvariance, PTL
<1> SUFFICES ASSUME BatchInv PROVE BatchTypeOK
  OBVIOUS
<1>1. TypeOK /\ PlaceInv
  BY DEF BatchInv, TurnInv, Inv
<1>2. DOMAIN Asked = 1 .. Len(Asked)
  BY AskedAssumption
<1>3. toStart \subseteq Inspections
  BY <1>1 DEF PlaceInv, BatchPhases
<1>4. ASSUME NEW i \in DOMAIN coverage
      PROVE  coverage[i].call \in Inspections /\ coverage[i].from <= coverage[i].to
  <2>1. coverage[i] \in Reads
    BY DEF BatchInv, TurnInv, CoverageInv
  <2>2. PICK c \in Inspections : \E x \in Finds[c] : x.lines # NoLines /\ coverage[i] = ReadBy(c, x.lines)
    BY <2>1 DEF Reads
  <2> QED BY <2>2, FindsAssumption DEF ReadBy
<1>5. \A c \in Inspections : answer[c] # Nothing => \E d \in Inspections : KeyOf[d] = KeyOf[c] /\ found[d] # Nothing
  BY DEF BatchInv, TurnInv, SourceInv
<1>6. Len(request) = Len(items) /\ counts[Len(counts)] = Len(items)
  BY DEF BatchInv, TurnInv, RequestInv, ItemsInv
<1> QED BY <1>1, <1>2, <1>3, <1>4, <1>5, <1>6 DEF BatchTypeOK, PlaceInv

\* The steps whose results the provider has are behind the turn.
LEMMA SentIsBehind ==
    ASSUME PlaceInv, NEW s \in Sent, NEW c \in ToSet(Asked[s])
    PROVE  s \in 1 .. Len(Asked) /\ c \in Behind
<1>1. /\ step \in 1 .. Len(Asked) /\ step \in Nat /\ Len(Asked) \in Nat /\ Len(StepGroups) \in Nat
      /\ StepGroups = Groups(Asked[step])
  BY PlaceFacts DEF PlaceInv
<1>2. CASE s \in 1 .. step - 1
  BY <1>1, <1>2 DEF Behind, CallsOfSteps
<1>3. CASE s \notin 1 .. step - 1
  <2>1. phase = "ended" /\ s = step /\ step = Len(Asked) /\ group - 1 = Len(StepGroups)
    BY <1>1, <1>3 DEF Sent, PlaceInv
  <2>2. PICK g \in 1 .. Len(Groups(Asked[step])) : c \in ToSet(Groups(Asked[step])[g])
    BY <1>1, <2>1, GroupsCover
  <2>3. c \in CallsOfGroups(step, group - 1)
    BY <1>1, <2>1, <2>2 DEF CallsOfGroups
  <2> QED BY <1>1, <2>1, <2>3 DEF Behind
<1> QED BY <1>2, <1>3

\* The model can get at what every completed call found, from any request, for
\* any steps, calls, keys and findings, with references across steps or without.
THEOREM EvidenceReachable == BatchSpec => []EvidenceIsReachable
<1> SUFFICES BatchInv => EvidenceIsReachable
  BY BatchInvariance, PTL
<1> SUFFICES ASSUME BatchInv, NEW i \in DOMAIN request
             PROVE  /\ answer[items[i].call] # Nothing /\ ReachedAt(i)
                    /\ answer[items[i].call].kind = "duplicate" =>
                         \E j \in DOMAIN request :
                            /\ items[j].call = answer[items[i].call].of
                            /\ answer[answer[items[i].call].of].kind \in {"completed", "over_budget"}
                            /\ ReachedAt(j)
  BY Zenon DEF EvidenceIsReachable, ReachedAt
<1> DEFINE c == items[i].call
           a == answer[c]
<1>1. PlaceInv /\ AnswerInv /\ SourceInv /\ ItemsInv /\ RequestInv
  BY DEF BatchInv, TurnInv
<1>2. DOMAIN request = 1 .. Len(items) /\ \A j \in DOMAIN request : ReachedAt(j)
  BY <1>1 DEF RequestInv
<1>3. PICK s \in Sent : c \in ToSet(Asked[s])
  BY <1>1, <1>2 DEF ItemsInv
<1>4. s \in 1 .. Len(Asked) /\ c \in Behind
  BY <1>1, <1>3, SentIsBehind
<1>5. a # Nothing
  BY <1>1, <1>4 DEF AnswerInv
<1>6. ASSUME a.kind = "duplicate"
      PROVE  \E j \in DOMAIN request :
                items[j].call = a.of /\ answer[a.of].kind \in {"completed", "over_budget"} /\ ReachedAt(j)
  <2>1. c \in Calls
    BY <1>1, <1>4, BehindCalls
  <2>2. PICK t \in 1 .. Len(Asked) : /\ c \in ToSet(Asked[t]) /\ a.of \in ToSet(Asked[t])
                                    /\ answer[a.of].kind \in {"completed", "over_budget"}
    BY <1>1, <1>6, <2>1 DEF SourceInv
  <2>3. t = s
    BY <1>3, <1>4, <2>2, StepsApart
  <2>4. PICK j \in 1 .. Len(items) : items[j].call = a.of
    BY <1>1, <2>2, <2>3 DEF ItemsInv
  <2> QED BY <1>2, <2>2, <2>4
<1> QED BY <1>2, <1>5, <1>6

\* No slot is lost or idle while batches of a turn and calls of subagents
\* compete, an operation fails or the turn is interrupted.
THEOREM BatchesLeakNoSlot == BatchSpec => []SlotsAreUsed
BY BatchesUseTheLimiter, SlotsStayUsed, PTL

\* A batch's calls get their slots in the order in which they asked, and none
\* passes an older one of its category.
THEOREM BatchesKeepOrder == BatchSpec => FirstComeFirstServed
BY BatchesUseTheLimiter, OrderIsKept, PTL

-----------------------------------------------------------------------------
(* The lines the turn has been shown, and the advisories.                   *)

\* The lines the turn has been shown are those the tracker's ranges cover.
SeenInv ==
    seen = UNION {{<<coverage[i].file, l>> : l \in LinesOf(coverage[i])} : i \in 1 .. Len(coverage)}

\* A step that changes neither leaves that so.
LEMMA SeenStays == ASSUME SeenInv, UNCHANGED <<coverage, seen>> PROVE SeenInv'
BY DEF SeenInv

\* The lines of a read that shows any are a range of its file.
LEMMA FoundLines ==
    ASSUME NEW c \in Inspections, NEW x \in Finds[c], x.lines # NoLines
    PROVE  x.lines \in RangesOf(x.lines.file)
BY FindsAssumption DEF RangesOf

\* So are the ranges of the tracker.
LEMMA ReadLines ==
    ASSUME CoverageInv
    PROVE  \A i \in 1 .. Len(coverage) : /\ coverage[i].from \in Int /\ coverage[i].to \in Int
                                         /\ coverage[i].from <= coverage[i].to
<1> SUFFICES ASSUME NEW i \in 1 .. Len(coverage)
             PROVE  coverage[i].from \in Int /\ coverage[i].to \in Int /\ coverage[i].from <= coverage[i].to
  OBVIOUS
<1>1. coverage[i] \in Reads
  BY DEF CoverageInv
<1>2. PICK c \in Inspections : \E x \in Finds[c] : x.lines # NoLines /\ coverage[i] = ReadBy(c, x.lines)
  BY <1>1 DEF Reads
<1>3. PICK x \in Finds[c] : x.lines # NoLines /\ coverage[i] = ReadBy(c, x.lines)
  BY <1>2
<1>4. x.lines \in RangesOf(x.lines.file)
  BY <1>3, FoundLines
<1>5. x.lines.from \in Int /\ x.lines.to \in Int /\ x.lines.from <= x.lines.to
  BY <1>4, RangeFacts
<1> QED BY <1>3, <1>5 DEF ReadBy

\* The answer to a covering read adds its range and its lines.
LEMMA AnswerSeen == ASSUME TurnInv, SeenInv, NEW c \in Inspections, Answer(c) PROVE SeenInv'
<1> DEFINE lines == found[c].content.lines
           r == ReadBy(c, lines)
           n == Len(coverage)
<1>1. CASE UNCHANGED <<coverage, seen>>
  BY <1>1, SeenStays
<1>2. CASE ~UNCHANGED <<coverage, seen>>
  <2>1. coverage' = Append(coverage, r) /\ seen' = seen \union {<<lines.file, l>> : l \in LinesOf(lines)}
    BY <1>2 DEF Answer
  <2>2. coverage \in Seq(Reads)
    BY DEF TurnInv, CoverageInv
  <2>3. r.file = lines.file /\ LinesOf(r) = LinesOf(lines)
    BY DEF ReadBy, LinesOf
  <2> HIDE DEF r
  <2>4. /\ n \in Nat /\ Len(coverage') = n + 1 /\ coverage'[n + 1] = r
        /\ \A i \in 1 .. n : coverage'[i] = coverage[i]
    BY <2>1, <2>2
  <2> HIDE DEF n
  <2>5. 1 .. n + 1 = (1 .. n) \union {n + 1}
    BY <2>4
  <2> DEFINE At(q, i) == {<<q[i].file, l>> : l \in LinesOf(q[i])}
  <2>6. \A i \in 1 .. n : At(coverage', i) = At(coverage, i)
    BY <2>4
  <2>7. At(coverage', n + 1) = {<<lines.file, l>> : l \in LinesOf(lines)}
    BY <2>3, <2>4
  <2>8. seen = UNION {At(coverage, i) : i \in 1 .. n}
    BY DEF SeenInv, n
  <2> HIDE DEF At
  <2>9. seen' = UNION {At(coverage', i) : i \in 1 .. n + 1}
    BY <2>1, <2>5, <2>6, <2>7, <2>8
  <2> QED BY <2>4, <2>9 DEF At, SeenInv
<1> QED BY <1>1, <1>2

\* No other action but a change has to do with either, and that one empties both.
LEMMA SeenNext == TurnInv /\ SeenInv /\ [BatchNext]_allVars => SeenInv'
<1> SUFFICES ASSUME TurnInv, SeenInv, [BatchNext]_allVars PROVE SeenInv'
  OBVIOUS
<1>1. ASSUME NEW c \in Inspections, OperationEnds(c) PROVE SeenInv'
  BY <1>1, SeenStays DEF OperationEnds
<1>2. ASSUME NEW c \in Inspections, Answer(c) PROVE SeenInv'
  BY <1>2, AnswerSeen
<1>3. ASSUME NEW r \in Runs, RunStarts(r) PROVE SeenInv'
  BY <1>3, SeenStays DEF RunStarts
<1>4. ASSUME NEW r \in Others, OtherAsks(r) \/ OtherSettles(r) PROVE SeenInv'
  BY <1>4, SeenStays DEF OtherAsks, OtherSettles
<1>5. CASE StartBatch \/ StartCall \/ Loop \/ BatchEnds
  BY <1>5, SeenStays DEF StartBatch, StartCall, Loop, BatchEnds
<1>6. CASE BuildRequest \/ Interrupt \/ EndInterrupted
  BY <1>6, SeenStays DEF BuildRequest, Interrupt, EndInterrupted
<1>7. CASE Change
  <2>1. coverage' = <<>> /\ seen' = {}
    BY <1>7 DEF Change
  <2>2. 1 .. Len(<<>>) = {}
    OBVIOUS
  <2> QED BY <2>1, <2>2 DEF SeenInv
<1>8. CASE UNCHANGED allVars
  BY <1>8, SeenStays DEF allVars
<1> QED BY <1>1, <1>2, <1>3, <1>4, <1>5, <1>6, <1>7, <1>8 DEF BatchNext

\* Hence it is always so.
LEMMA SeenInvariance == BatchSpec => []SeenInv
<1>1. BatchInit => SeenInv
  <2>1. 1 .. Len(<<>>) = {}
    OBVIOUS
  <2> QED BY <2>1 DEF BatchInit, SeenInv
<1> QED BY <1>1, SeenNext, TurnInvariance, PTL DEF BatchSpec

\* What AdvisoriesAreTrue says of the answer to c in a step.
Advised(c) ==
    LET lines == answer'[c].content.lines
        known == {l \in LinesOf(lines) : <<lines.file, l>> \in seen}
    IN Tells(lines, known, answer'[c].advisory)
NewlyRead(c) == answer[c] = Nothing /\ answer'[c].kind = "completed" /\ answer'[c].content.lines # NoLines

\* A result is advised about when a call is answered with what it found.
LEMMA AnswerIsAdvised ==
    ASSUME TurnInv, SeenInv, NEW c \in Inspections, Answer(c), NEW d \in Inspections, NewlyRead(d)
    PROVE  Advised(d)
<1> DEFINE f == found[c]
           x == f.content
           lines == x.lines
           known == {l \in LinesOf(lines) : <<lines.file, l>> \in seen}
<1>1. FoundInv /\ CoverageInv
  BY DEF TurnInv
<1>2. f.kind # "thrown" /\ f # Nothing /\ answer' # answer
  BY DEF Answer, NewlyRead, Nothing
<1>3. answer'[d] = IF d = c THEN ResultOf(c, f)
                   ELSE IF d \in DuplicatesOf(c) THEN DuplicateResult(c, f) ELSE answer[d]
  <2>1. d \in Calls
    BY DEF Inspections
  <2>2. answer' = [e \in Calls |-> IF e = c THEN ResultOf(c, f)
                                   ELSE IF e \in {c} \union DuplicatesOf(c) THEN DuplicateResult(c, f)
                                   ELSE answer[e]]
    BY <1>2 DEF Answer
  <2> HIDE DEF f
  <2>3. answer'[d] = IF d = c THEN ResultOf(c, f)
                     ELSE IF d \in {c} \union DuplicatesOf(c) THEN DuplicateResult(c, f) ELSE answer[d]
    BY <2>1, <2>2
  <2> QED BY <2>3
<1>4. f.kind = "failed" \/ (f.kind = "completed" /\ x \in Finds[c])
  BY <1>1, <1>2 DEF FoundInv
<1>5. d = c
  <2>1. d # c => (answer'[d] = DuplicateResult(c, f) \/ answer'[d] = answer[d])
    BY <1>3
  <2>2. answer'[d] # answer[d]
    BY DEF NewlyRead, Nothing
  <2>3. DuplicateResult(c, f).kind # "completed"
    BY <1>4 DEF DuplicateResult
  <2> QED BY <2>1, <2>2, <2>3 DEF NewlyRead
<1>6. f.kind = "completed" /\ f.content.length # "over_budget"
  <2>1. ResultOf(c, f).kind = "completed"
    BY <1>3, <1>5 DEF NewlyRead
  <2>2. f.kind = "failed" => ResultOf(c, f) = f
    BY DEF ResultOf
  <2>3. (f.kind = "completed" /\ f.content.length = "over_budget") => ResultOf(c, f).kind = "over_budget"
    BY DEF ResultOf
  <2> HIDE DEF f
  <2> QED BY <1>4, <2>1, <2>2, <2>3
<1>7. answer'[d] = [kind |-> "completed", content |-> x, version |-> f.version,
                    advisory |-> IF IsCovering(f) THEN Advisory(lines, coverage) ELSE NoAdvisory, of |-> c]
  BY <1>3, <1>5, <1>6 DEF ResultOf
<1>8. answer'[d].content = x /\ lines # NoLines
  BY <1>7 DEF NewlyRead
<1>9. IsCovering(f)
  BY <1>6, <1>8 DEF IsCovering
<1>10. answer'[d].advisory = Advisory(lines, coverage)
  BY <1>7, <1>9
<1>11. lines \in RangesOf(lines.file)
  BY <1>4, <1>6, <1>8, FoundLines
<1>12. known = {l \in LinesOf(lines) : \E i \in 1 .. Len(coverage) :
                  coverage[i].file = lines.file /\ l \in LinesOf(coverage[i])}
  <2> HIDE DEF lines
  <2>1. \A l : <<lines.file, l>> \in seen <=>
                 \E i \in 1 .. Len(coverage) : coverage[i].file = lines.file /\ l \in LinesOf(coverage[i])
    BY DEF SeenInv
  <2> QED BY <2>1
<1> DEFINE advisory == Advisory(lines, coverage)
<1>13. Tells(lines, known, advisory)
  <2>1. coverage \in Seq(Reads)
    BY <1>1 DEF CoverageInv
  <2>2. \A i \in 1 .. Len(coverage) : /\ coverage[i].from \in Int /\ coverage[i].to \in Int
                                      /\ coverage[i].from <= coverage[i].to
    BY <1>1, ReadLines
  <2> DEFINE file == lines.file
  <2>3. lines \in RangesOf(file)
    BY <1>11
  <2> HIDE DEF lines, known, file
  <2>4. advisory = Advisory(lines, coverage)
    OBVIOUS
  <2> HIDE DEF advisory
  <2> QED BY ONLY <1>12, <2>1, <2>2, <2>3, <2>4, AdvisoryTells
<1>14. answer'[d].content.lines = lines
  BY <1>8
<1>15. answer'[d].advisory = advisory
  BY <1>10
<1> HIDE DEF lines, advisory
<1> QED BY <1>13, <1>14, <1>15 DEF Advised

\* An advisory tells the truth, for any steps, calls and findings and any number of
\* reads: the lines it does not name as missing are lines the turn was shown since
\* it last changed the workspace, and it is given exactly when it is due.
THEOREM AdvisoriesTellTheTruth == BatchSpec => AdvisoriesAreTrue
<1>1. ASSUME TurnInv, SeenInv, [BatchNext]_allVars, NEW d \in Inspections, NewlyRead(d) PROVE Advised(d)
  <2>1. answer'[d] # answer[d] /\ answer'[d].kind = "completed"
    BY <1>1 DEF NewlyRead, Nothing
  <2>2. ~UNCHANGED answer
    BY <2>1
  <2>3. ASSUME NEW c \in Inspections, Answer(c) PROVE Advised(d)
    BY <1>1, <2>3, AnswerIsAdvised
  <2>4. ~Change
    <3> SUFFICES ASSUME Change PROVE FALSE
      OBVIOUS
    <3>1. answer' = [answer EXCEPT ![Current[1]] = [kind |-> "done"]]
      BY DEF Change
    <3>2. answer'[d] = answer[d] \/ answer'[d] = [kind |-> "done"] \/ d \notin DOMAIN answer
      BY <3>1
    <3>3. d \in DOMAIN answer
      <4>1. answer = [c \in Calls |-> answer[c]]
        BY <1>1 DEF TurnInv, AnswerInv
      <4> QED BY <4>1 DEF Inspections
    <3> QED BY <2>1, <3>2, <3>3
  <2>5. \A c \in Inspections : OperationEnds(c) => UNCHANGED answer
    BY DEF OperationEnds
  <2>6. \A r \in Runs : RunStarts(r) => UNCHANGED answer
    BY DEF RunStarts, batch
  <2>7. \A r \in Others : (OtherAsks(r) \/ OtherSettles(r)) => UNCHANGED answer
    BY DEF OtherAsks, OtherSettles, batch
  <2>8. (StartBatch \/ StartCall \/ Loop \/ BatchEnds) => UNCHANGED answer
    BY DEF StartBatch, StartCall, Loop, BatchEnds, batch
  <2>9. (BuildRequest \/ Interrupt \/ EndInterrupted \/ UNCHANGED allVars) => UNCHANGED answer
    BY DEF BuildRequest, Interrupt, EndInterrupted, batch, allVars
  <2> QED BY <1>1, <2>2, <2>3, <2>4, <2>5, <2>6, <2>7, <2>8, <2>9 DEF BatchNext
<1>2. TurnInv /\ SeenInv /\ [BatchNext]_allVars => \A d \in Inspections : NewlyRead(d) => Advised(d)
  BY <1>1
<1>3. TurnInv /\ SeenInv /\ [BatchNext]_allVars =>
        [\A c \in Inspections :
            (answer[c] = Nothing /\ answer'[c].kind = "completed" /\ answer'[c].content.lines # NoLines) =>
                LET lines == answer'[c].content.lines
                    known == {l \in LinesOf(lines) : <<lines.file, l>> \in seen}
                    advisory == answer'[c].advisory
                    due == \/ known = LinesOf(lines)
                           \/ 2 * Cardinality(known) >= Size(lines) /\ Cardinality(known) >= MinimumOverlap
                IN IF due
                   THEN /\ UNION {LinesOf(m) : m \in ToSet(advisory.missing)} = LinesOf(lines) \ known
                        /\ advisory.overlap = Cardinality(known)
                   ELSE advisory = NoAdvisory]_allVars
  BY <1>2, Zenon DEF NewlyRead, Advised, Tells
<1> QED BY <1>3, TurnInvariance, SeenInvariance, PTL DEF BatchSpec, AdvisoriesAreTrue
=============================================================================
