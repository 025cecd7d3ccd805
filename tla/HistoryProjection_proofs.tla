---------------------- MODULE HistoryProjection_proofs ----------------------
(***************************************************************************)
(* What the request of a conversation session is, entry by entry: the pass *)
(* over the entries, which HistoryProjection states as a fold, goes one    *)
(* step further with each entry that is appended, and starts anew with a   *)
(* compaction summary.                                                     *)
(*                                                                         *)
(* A fold is a recursive function on the sets of positions.  That the      *)
(* function exists, and that its values depend on nothing but the entries, *)
(* is shown by induction; a property to prove by induction is given as the *)
(* set of the numbers that have it.                                        *)
(***************************************************************************)
EXTENDS HistoryProjection, FiniteSetTheorems, SequenceTheorems, WellFoundedInduction, TLAPS

-----------------------------------------------------------------------------
(* Natural numbers.                                                        *)

\* A set of natural numbers has a least one: Finite sets are well-founded by
\* strict inclusion.
LEMMA LeastExists ==
    ASSUME NEW S \in SUBSET Nat, S # {}
    PROVE  \E i \in S : \A j \in S : i <= j
<1> DEFINE Segments == {0 .. i : i \in S}
<1>1. Segments \subseteq FiniteSubsetsOf(Nat) /\ Segments # {}
  <2>1. \A i \in S : 0 .. i \in SUBSET Nat /\ IsFiniteSet(0 .. i)
    BY FS_Interval
  <2>2. Segments # {}
    OBVIOUS
  <2> QED BY <2>1, <2>2 DEF FiniteSubsetsOf
<1>2. PICK x \in Segments : \A y \in Segments : <<y, x>> \notin StrictSubsetOrdering(Nat)
  <2> HIDE DEF Segments
  <2> QED BY <1>1, FS_StrictSubsetOrderingWellFounded, WFMin, Zenon
<1>3. PICK i \in S : x = 0 .. i
  OBVIOUS
<1>4. ASSUME NEW j \in S, j < i PROVE FALSE
  <2>1. 0 .. j \in Segments /\ 0 .. j \in SUBSET Nat /\ 0 .. i \in SUBSET Nat
    OBVIOUS
  <2>2. 0 .. j \subseteq 0 .. i /\ i \in 0 .. i /\ i \notin 0 .. j
    BY <1>4
  <2>3. <<0 .. j, 0 .. i>> \in StrictSubsetOrdering(Nat)
    BY <2>1, <2>2 DEF StrictSubsetOrdering
  <2> QED BY <1>2, <1>3, <2>1, <2>3
<1>5. \A j \in S : i <= j
  BY <1>4
<1> QED BY <1>5

\* Induction over the natural numbers, about a set of them.
LEMMA AllNaturals ==
    ASSUME NEW S, 0 \in S, \A n \in Nat : n \in S => n + 1 \in S
    PROVE  Nat \subseteq S
<1> SUFFICES ASSUME Nat \ S # {} PROVE FALSE
  OBVIOUS
<1>1. PICK n \in Nat \ S : \A j \in Nat \ S : n <= j
  BY LeastExists
<1>2. n - 1 \in Nat /\ n - 1 + 1 = n /\ ~(n <= n - 1)
  BY <1>1
<1> QED BY <1>1, <1>2

-----------------------------------------------------------------------------
(* The fold.                                                               *)

Nowhere == [items |-> <<>>, pending |-> <<>>, after |-> <<>>]
Projected(entries) == FoldLeft(Project, Nowhere, entries)

\* f is what the pass over the first n of the entries comes to, for each set of
\* positions.
Folds(f, entries, n) ==
    f = [s \in SUBSET (1 .. n) |->
            IF s = {} THEN Nowhere ELSE Project(f[s \ {Max(s)}], entries[Max(s)])]

LEMMA Unfold ==
    ASSUME NEW E, NEW entries \in Seq(E)
    PROVE  Projected(entries) = (CHOOSE f : Folds(f, entries, Len(entries)))[1 .. Len(entries)]
<1>1. DOMAIN entries = 1 .. Len(entries)
  OBVIOUS
<1> QED BY <1>1 DEF FoldLeft, MapThenFoldSet, Folds, Projected, Nowhere

LEMMA FoldGoesOn ==
    ASSUME NEW entries, NEW n \in Nat, NEW f, Folds(f, entries, n)
    PROVE  \E g : Folds(g, entries, n + 1)
<1> DEFINE g == [s \in SUBSET (1 .. n + 1) |->
                   IF n + 1 \in s THEN Project(f[s \ {n + 1}], entries[n + 1]) ELSE f[s]]
           At(s) == IF s = {} THEN Nowhere ELSE Project(g[s \ {Max(s)}], entries[Max(s)])
<1>1. ASSUME NEW s \in SUBSET (1 .. n) PROVE g[s] = f[s]
  <2>1. s \in SUBSET (1 .. n + 1) /\ n + 1 \notin s
    OBVIOUS
  <2> QED BY <2>1
<1>2. ASSUME NEW s \in SUBSET (1 .. n + 1) PROVE g[s] = At(s)
  <2>1. CASE n + 1 \in s
    <3>1. Max(s) = n + 1
      <4>1. \A y \in s : n + 1 >= y
        OBVIOUS
      <4>2. \A x \in s : (\A y \in s : x >= y) => x = n + 1
        BY <2>1
      <4> QED BY <4>1, <4>2, <2>1 DEF Max
    <3>2. s \ {n + 1} \in SUBSET (1 .. n)
      OBVIOUS
    <3>3. g[s \ {n + 1}] = f[s \ {n + 1}]
      BY <1>1, <3>2
    <3>4. g[s] = Project(f[s \ {n + 1}], entries[n + 1])
      BY <2>1
    <3> HIDE DEF g
    <3> QED BY <3>1, <3>3, <3>4, <2>1
  <2>2. CASE n + 1 \notin s
    <3>1. s \in SUBSET (1 .. n) /\ s \ {Max(s)} \in SUBSET (1 .. n)
      <4>1. ASSUME NEW i \in s PROVE i \in 1 .. n
        BY <2>2
      <4> QED BY <4>1
    <3>2. g[s] = f[s] /\ g[s \ {Max(s)}] = f[s \ {Max(s)}]
      BY <3>1, <1>1
    <3>3. f[s] = IF s = {} THEN Nowhere ELSE Project(f[s \ {Max(s)}], entries[Max(s)])
      BY <3>1 DEF Folds
    <3> HIDE DEF g
    <3> QED BY <3>2, <3>3
  <2> QED BY <2>1, <2>2
<1>3. g = [s \in SUBSET (1 .. n + 1) |-> At(s)]
  <2>1. g = [s \in SUBSET (1 .. n + 1) |-> g[s]]
    OBVIOUS
  <2> HIDE DEF g, At
  <2> QED BY <2>1, <1>2
<1> HIDE DEF g
<1>4. Folds(g, entries, n + 1)
  BY <1>3 DEF Folds
<1> QED BY <1>4

LEMMA FoldExists ==
    ASSUME NEW entries, NEW n \in Nat
    PROVE  \E f : Folds(f, entries, n)
<1> DEFINE S == {k \in Nat : \E f : Folds(f, entries, k)}
<1>1. 0 \in S
  <2> DEFINE At(s) == Nowhere
             f == [s \in SUBSET (1 .. 0) |-> Nowhere]
  <2>1. \A s \in SUBSET (1 .. 0) : s = {}
    OBVIOUS
  <2>2. Folds(f, entries, 0)
    BY <2>1 DEF Folds
  <2> QED BY <2>2
<1>2. \A k \in Nat : k \in S => k + 1 \in S
  BY FoldGoesOn
<1> HIDE DEF S
<1>3. n \in S
  BY <1>1, <1>2, AllNaturals
<1> QED BY <1>3 DEF S

\* A step of the fold.
LEMMA FoldStep ==
    ASSUME NEW entries, NEW n, NEW f, Folds(f, entries, n), NEW k \in Nat,
           1 .. k + 1 \in SUBSET (1 .. n)
    PROVE  f[1 .. k + 1] = Project(f[1 .. k], entries[k + 1])
<1>1. (1 .. k + 1) \ {k + 1} = 1 .. k /\ 1 .. k + 1 # {}
  OBVIOUS
<1>2. Max(1 .. k + 1) = k + 1
  <2>1. k + 1 \in 1 .. k + 1 /\ \A y \in 1 .. k + 1 : k + 1 >= y
    OBVIOUS
  <2>2. \A x \in 1 .. k + 1 : (\A y \in 1 .. k + 1 : x >= y) => x = k + 1
    OBVIOUS
  <2> QED BY <2>1, <2>2 DEF Max
<1> DEFINE At(s) == IF s = {} THEN Nowhere ELSE Project(f[s \ {Max(s)}], entries[Max(s)])
<1>3. \A s \in SUBSET (1 .. n) : f[s] = At(s)
  BY DEF Folds
<1>4. f[1 .. k + 1] = At(1 .. k + 1)
  BY <1>3
<1> QED BY <1>1, <1>2, <1>4

\* What the fold comes to at a position depends on the entries up to there.
LEMMA FoldIsDetermined ==
    ASSUME NEW g, NEW h, NEW m \in Nat, NEW n \in Nat, m <= n,
           NEW f1, Folds(f1, g, m), NEW f2, Folds(f2, h, n),
           \A i \in 1 .. m : g[i] = h[i]
    PROVE  f1[1 .. m] = f2[1 .. m]
<1> DEFINE S == {k \in Nat : k <= m => f1[1 .. k] = f2[1 .. k]}
<1>0. 1 .. 0 = {}
  OBVIOUS
<1>1. 0 \in S
  <2>1. f1[{}] = Nowhere /\ f2[{}] = Nowhere
    BY DEF Folds
  <2> QED BY <2>1, <1>0
<1>2. ASSUME NEW k \in Nat, k \in S PROVE k + 1 \in S
  <2> SUFFICES ASSUME k + 1 <= m PROVE f1[1 .. k + 1] = f2[1 .. k + 1]
    OBVIOUS
  <2>1. k + 1 \in 1 .. m /\ 1 .. k + 1 \in SUBSET (1 .. m) /\ 1 .. k + 1 \in SUBSET (1 .. n)
    OBVIOUS
  <2>3. f1[1 .. k + 1] = Project(f1[1 .. k], g[k + 1]) /\ f2[1 .. k + 1] = Project(f2[1 .. k], h[k + 1])
    BY <2>1, FoldStep
  <2>4. f1[1 .. k] = f2[1 .. k]
    BY <1>2
  <2> QED BY <2>1, <2>3, <2>4
<1> HIDE DEF S
<1>3. m \in S
  BY <1>1, <1>2, AllNaturals
<1> QED BY <1>3 DEF S

LEMMA ProjectedNothing == Projected(<<>>) = Nowhere
<1>1. PICK f : Folds(f, <<>>, 0)
  BY FoldExists
<1>2. <<>> \in Seq({}) /\ Len(<<>>) = 0 /\ 1 .. 0 = {}
  OBVIOUS
<1>3. Projected(<<>>) = (CHOOSE g : Folds(g, <<>>, 0))[{}]
  BY <1>2, Unfold
<1>4. Folds(CHOOSE g : Folds(g, <<>>, 0), <<>>, 0)
  BY <1>1
<1>5. \A g : Folds(g, <<>>, 0) => g[{}] = Nowhere
  BY DEF Folds
<1> QED BY <1>3, <1>4, <1>5

LEMMA ProjectedAppend ==
    ASSUME NEW E, NEW h \in Seq(E), NEW e \in E
    PROVE  Projected(Append(h, e)) = Project(Projected(h), e)
<1> DEFINE n == Len(h)
           g == Append(h, e)
           F1 == CHOOSE f : Folds(f, h, n)
           F2 == CHOOSE f : Folds(f, g, n + 1)
<1>1. g \in Seq(E) /\ n \in Nat /\ Len(g) = n + 1 /\ g[n + 1] = e /\ \A i \in 1 .. n : h[i] = g[i]
  OBVIOUS
<1> HIDE DEF g
<1>2. Projected(h) = F1[1 .. n] /\ Projected(g) = F2[1 .. n + 1]
  BY <1>1, Unfold
<1> HIDE DEF n
<1>3. Folds(F1, h, n) /\ Folds(F2, g, n + 1)
  <2>1. \E f : Folds(f, h, n)
    BY <1>1, FoldExists
  <2>2. n + 1 \in Nat
    BY <1>1
  <2>3. \E f : Folds(f, g, n + 1)
    BY <2>2, FoldExists
  <2> QED BY <2>1, <2>3
<1> HIDE DEF F1, F2
<1>4. F1[1 .. n] = F2[1 .. n]
  BY <1>1, <1>3, FoldIsDetermined
<1>5. F2[1 .. n + 1] = Project(F2[1 .. n], g[n + 1])
  <2>1. 1 .. n + 1 \in SUBSET (1 .. n + 1)
    OBVIOUS
  <2> QED BY <1>1, <1>3, <2>1, FoldStep
<1> QED BY <1>1, <1>2, <1>4, <1>5 DEF g

-----------------------------------------------------------------------------
(* The entries since the latest summary.                                   *)

\* The state of the pass over what a request shows of the entries.
Told(entries) == Projected(VisibleEntries(entries))

IsSummary(e) == e.kind = "compaction_summary"

LEMMA GreatestExists ==
    ASSUME NEW n \in Nat, NEW S \in SUBSET (1 .. n), S # {}
    PROVE  Max(S) \in S /\ \A j \in S : Max(S) >= j
<1> DEFINE D == {n - i : i \in S}
<1>1. D \in SUBSET Nat /\ D # {}
  <2>1. \A i \in S : n - i \in Nat
    OBVIOUS
  <2> QED BY <2>1
<1>2. PICK d \in D : \A j \in D : d <= j
  BY <1>1, LeastExists
<1>3. PICK i \in S : d = n - i
  OBVIOUS
<1>4. \A j \in S : i >= j
  <2> TAKE j \in S
  <2>1. n - j \in D
    OBVIOUS
  <2>2. n - i <= n - j
    BY <1>2, <1>3, <2>1
  <2> QED BY <2>2
<1> QED BY <1>4 DEF Max

LEMMA SummaryStartsAnew ==
    ASSUME NEW E, NEW h \in Seq(E), NEW e \in E, IsSummary(e)
    PROVE  VisibleEntries(Append(h, e)) = <<e>>
<1> DEFINE g == Append(h, e)
           n == Len(h) + 1
           I == {i \in 1 .. n : g[i].kind = "compaction_summary"}
<1>1. g \in Seq(E) /\ n \in Nat /\ Len(g) = n /\ n >= 1 /\ g[n] = e
  OBVIOUS
<1> HIDE DEF g, n
<1>2. n \in I /\ I \in SUBSET (1 .. n)
  BY <1>1 DEF IsSummary
<1>3. Max(I) \in I /\ Max(I) >= n
  BY <1>1, <1>2, GreatestExists
<1>4. Max(I) = n /\ I # {} /\ n # 0
  BY <1>1, <1>2, <1>3
<1> HIDE DEF I
<1>5. VisibleEntries(g) = SubSeq(g, n, n)
  BY <1>1, <1>4 DEF VisibleEntries, SelectLastInSeq, I
<1>6. SubSeq(g, n, n) = <<g[n]>>
  <2> DEFINE a == SubSeq(g, n, n)
  <2>1. a \in Seq(E) /\ Len(a) = 1 /\ a[1] = g[n]
    BY <1>1
  <2>2. <<g[n]>> \in Seq(E) /\ Len(<<g[n]>>) = 1 /\ <<g[n]>>[1] = g[n]
    BY <1>1
  <2> HIDE DEF a
  <2>3. a = <<g[n]>>
    BY <2>1, <2>2, SeqEqual
  <2> QED BY <2>3 DEF a
<1> QED BY <1>1, <1>5, <1>6 DEF g

LEMMA OtherIsAppended ==
    ASSUME NEW E, NEW h \in Seq(E), NEW e \in E, ~IsSummary(e)
    PROVE  VisibleEntries(Append(h, e)) = Append(VisibleEntries(h), e)
<1> DEFINE g == Append(h, e)
           n == Len(h)
           I == {i \in 1 .. n : h[i].kind = "compaction_summary"}
           J == {i \in 1 .. n + 1 : g[i].kind = "compaction_summary"}
           start == IF I = {} THEN 1 ELSE Max(I)
<1>1. g \in Seq(E) /\ n \in Nat /\ Len(g) = n + 1 /\ g[n + 1] = e /\ \A i \in 1 .. n : g[i] = h[i]
  OBVIOUS
<1> HIDE DEF g, n
<1>2. J = I
  BY <1>1 DEF IsSummary
<1>3. start \in 1 .. n + 1 /\ (I # {} => start # 0)
  <2>1. I \in SUBSET (1 .. n)
    OBVIOUS
  <2>2. CASE I # {}
    <3>1. Max(I) \in I
      BY <1>1, <2>1, <2>2, GreatestExists
    <3> QED BY <3>1, <2>1, <2>2, <1>1
  <2>3. CASE I = {}
    BY <2>3, <1>1
  <2> QED BY <2>2, <2>3
<1>4. VisibleEntries(h) = SubSeq(h, start, n) /\ VisibleEntries(g) = SubSeq(g, start, n + 1)
  <2>1. VisibleEntries(h) = SubSeq(h, start, n)
    BY <1>3 DEF VisibleEntries, SelectLastInSeq, n
  <2>2. VisibleEntries(g) = SubSeq(g, IF (IF J # {} THEN Max(J) ELSE 0) = 0 THEN 1
                                      ELSE (IF J # {} THEN Max(J) ELSE 0), n + 1)
    BY <1>1 DEF VisibleEntries, SelectLastInSeq
  <2> HIDE DEF I, J
  <2> QED BY <1>2, <1>3, <2>1, <2>2
<1> HIDE DEF start
<1>5. SubSeq(g, start, n + 1) = Append(SubSeq(h, start, n), e)
  <2> DEFINE a == SubSeq(g, start, n + 1)
             b == SubSeq(h, start, n)
  <2>1. a \in Seq(E) /\ Len(a) = n + 2 - start /\ \A i \in 1 .. n + 2 - start : a[i] = g[start + i - 1]
    BY <1>1, <1>3
  <2>2. b \in Seq(E) /\ Len(b) = n + 1 - start /\ \A i \in 1 .. n + 1 - start : b[i] = h[start + i - 1]
    BY <1>1, <1>3 DEF n
  <2> HIDE DEF a, b
  <2> DEFINE c == Append(b, e)
  <2>3. /\ c \in Seq(E) /\ Len(c) = n + 2 - start /\ c[n + 2 - start] = e
        /\ \A i \in 1 .. n + 1 - start : c[i] = b[i]
    BY <1>1, <1>3, <2>2, AppendProperties
  <2> HIDE DEF c
  <2>4. ASSUME NEW i \in 1 .. n + 2 - start PROVE a[i] = c[i]
    <3>1. CASE i = n + 2 - start
      BY <1>1, <1>3, <2>1, <2>3, <3>1
    <3>2. CASE i # n + 2 - start
      <4>1. i \in 1 .. n + 1 - start /\ start + i - 1 \in 1 .. n
        BY <1>1, <1>3, <3>2
      <4> QED BY <4>1, <1>1, <2>1, <2>2, <2>3
    <3> QED BY <3>1, <3>2
  <2>5. a = c
    BY <2>1, <2>3, <2>4, SeqEqual
  <2> QED BY <2>5 DEF a, b, c
<1> QED BY <1>4, <1>5 DEF g

LEMMA VisibleIsSeq ==
    ASSUME NEW E, NEW h \in Seq(E)
    PROVE  VisibleEntries(h) \in Seq(E)
<1> DEFINE I == {i \in 1 .. Len(h) : h[i].kind = "compaction_summary"}
<1>1. Len(h) \in Nat /\ I \in SUBSET (1 .. Len(h))
  OBVIOUS
<1>2. I # {} => Max(I) \in 1 .. Len(h)
  BY <1>1, GreatestExists
<1>3. VisibleEntries(h) = SubSeq(h, IF (IF I # {} THEN Max(I) ELSE 0) = 0 THEN 1
                                    ELSE (IF I # {} THEN Max(I) ELSE 0), Len(h))
  BY DEF VisibleEntries, SelectLastInSeq
<1> HIDE DEF I
<1>4. CASE I = {}
  BY <1>1, <1>3, <1>4
<1>5. CASE I # {}
  <2>1. Max(I) \in 1 .. Len(h) /\ Max(I) # 0
    BY <1>1, <1>2, <1>5
  <2> QED BY <1>1, <1>3, <1>5, <2>1
<1> QED BY <1>4, <1>5

-----------------------------------------------------------------------------
(* What a request tells, as entries are appended.                          *)

LEMMA ToldNothing == Told(<<>>) = Nowhere
<1>1. VisibleEntries(<<>>) = <<>>
  BY DEF VisibleEntries, SelectLastInSeq
<1> QED BY <1>1, ProjectedNothing DEF Told

LEMMA ToldAppend ==
    ASSUME NEW E, NEW h \in Seq(E), NEW e \in E, ~IsSummary(e)
    PROVE  Told(Append(h, e)) = Project(Told(h), e)
BY OtherIsAppended, VisibleIsSeq, ProjectedAppend DEF Told

LEMMA ToldSummary ==
    ASSUME NEW E, NEW h \in Seq(E), NEW e \in E, IsSummary(e)
    PROVE  Told(Append(h, e)) = [items |-> <<e>>, pending |-> <<>>, after |-> <<>>]
<1>1. VisibleEntries(Append(h, e)) = <<e>> /\ <<>> \in Seq(E) /\ Append(<<>>, e) = <<e>>
  BY SummaryStartsAnew
<1>2. Projected(<<e>>) = Project(Nowhere, e)
  BY <1>1, ProjectedAppend, ProjectedNothing
<1>3. Project(Nowhere, e) = [items |-> Append(Nowhere.items, e), pending |-> <<>>, after |-> <<>>]
  BY DEF Project, IsSummary
<1>4. Nowhere.items = <<>>
  BY DEF Nowhere
<1> QED BY <1>1, <1>2, <1>3, <1>4 DEF Told

\* A state of the pass is a record of the three fields.
IsState(s) == s = [items |-> s.items, pending |-> s.pending, after |-> s.after]

LEMMA ProjectKeepsState ==
    ASSUME NEW s, IsState(s), NEW e
    PROVE  IsState(Project(s, e))
BY DEF IsState, Project

LEMMA ToldIsState ==
    ASSUME NEW E, NEW h \in Seq(E)
    PROVE  IsState(Told(h))
<1> DEFINE S == {n \in Nat : \A g \in Seq(E) : Len(g) = n => IsState(Told(g))}
<1>1. 0 \in S
  BY ToldNothing DEF IsState, Nowhere
<1>2. ASSUME NEW n \in Nat, n \in S PROVE n + 1 \in S
  <2> SUFFICES ASSUME NEW g \in Seq(E), Len(g) = n + 1 PROVE IsState(Told(g))
    OBVIOUS
  <2> DEFINE f == SubSeq(g, 1, n)
             e == g[n + 1]
  <2>1. f \in Seq(E) /\ Len(f) = n /\ e \in E /\ g = Append(f, e)
    OBVIOUS
  <2> HIDE DEF f, e
  <2>2. IsState(Told(f))
    BY <1>2, <2>1
  <2>3. CASE IsSummary(e)
    BY <2>1, <2>3, ToldSummary DEF IsState
  <2>4. CASE ~IsSummary(e)
    BY <2>1, <2>2, <2>4, ToldAppend, ProjectKeepsState
  <2> QED BY <2>3, <2>4
<1> HIDE DEF S
<1>3. Len(h) \in S
  BY <1>1, <1>2, AllNaturals
<1> QED BY <1>3 DEF S

\* The request is what the pass has made of the entries, and the prompt that waits
\* for its answer.
LEMMA RequestIsTold ==
    ASSUME NEW h
    PROVE  ModelContextItems(h) = IF Told(h).after = <<>> THEN Told(h).items \o Told(h).pending
                                  ELSE Told(h).items
BY DEF ModelContextItems, Told, Projected, Nowhere
-----------------------------------------------------------------------------
(* The tool entries of a turn that stopped.                                *)

\* f is defined by recursion on sets of positions, from the greatest down.
Recursion(f, base, step, k, B) ==
    /\ f \in [SUBSET (1 .. k) -> B]
    /\ \A s \in SUBSET (1 .. k) : f[s] = IF s = {} THEN base ELSE step[<<f[s \ {Max(s)}], Max(s)>>]

LEMMA MaxOfSegment ==
    ASSUME NEW k \in Nat
    PROVE  Max(1 .. k + 1) = k + 1 /\ (1 .. k + 1) \ {k + 1} = 1 .. k /\ 1 .. k + 1 # {}
<1>1. k + 1 \in 1 .. k + 1 /\ \A y \in 1 .. k + 1 : k + 1 >= y
  OBVIOUS
<1>2. \A x \in 1 .. k + 1 : (\A y \in 1 .. k + 1 : x >= y) => x = k + 1
  OBVIOUS
<1>3. (1 .. k + 1) \ {k + 1} = 1 .. k
  OBVIOUS
<1> QED BY <1>1, <1>2, <1>3 DEF Max

LEMMA RecursionGoesOn ==
    ASSUME NEW n \in Nat, NEW B, NEW base \in B, NEW step \in [B \X (1 .. n) -> B],
           NEW k \in Nat, k + 1 <= n, NEW f, Recursion(f, base, step, k, B)
    PROVE  \E g : Recursion(g, base, step, k + 1, B)
<1> DEFINE g == [s \in SUBSET (1 .. k + 1) |->
                   IF k + 1 \in s THEN step[<<f[s \ {k + 1}], k + 1>>] ELSE f[s]]
<1>1. ASSUME NEW s \in SUBSET (1 .. k) PROVE g[s] = f[s] /\ f[s] \in B
  <2>1. s \in SUBSET (1 .. k + 1) /\ k + 1 \notin s
    OBVIOUS
  <2>2. g[s] = f[s]
    BY <2>1
  <2> HIDE DEF g
  <2> QED BY <2>2 DEF Recursion
<1>2. ASSUME NEW s \in SUBSET (1 .. k + 1)
      PROVE  g[s] \in B /\ g[s] = IF s = {} THEN base ELSE step[<<g[s \ {Max(s)}], Max(s)>>]
  <2>1. CASE k + 1 \in s
    <3>1. Max(s) = k + 1
      <4>1. \A y \in s : k + 1 >= y
        OBVIOUS
      <4>2. \A x \in s : (\A y \in s : x >= y) => x = k + 1
        BY <2>1
      <4> QED BY <4>1, <4>2, <2>1 DEF Max
    <3>2. s \ {k + 1} \in SUBSET (1 .. k)
      OBVIOUS
    <3>3. g[s \ {k + 1}] = f[s \ {k + 1}] /\ f[s \ {k + 1}] \in B
      BY <1>1, <3>2
    <3>4. g[s] = step[<<f[s \ {k + 1}], k + 1>>]
      BY <2>1
    <3> HIDE DEF g
    <3>5. <<f[s \ {k + 1}], k + 1>> \in B \X (1 .. n)
      BY <3>3
    <3>6. step[<<f[s \ {k + 1}], k + 1>>] \in B
      BY <3>5
    <3> QED BY <3>1, <3>3, <3>4, <3>6, <2>1
  <2>2. CASE k + 1 \notin s
    <3>1. s \in SUBSET (1 .. k) /\ s \ {Max(s)} \in SUBSET (1 .. k)
      <4>1. ASSUME NEW i \in s PROVE i \in 1 .. k
        BY <2>2
      <4> QED BY <4>1
    <3>2. g[s] = f[s] /\ g[s \ {Max(s)}] = f[s \ {Max(s)}] /\ f[s] \in B
      BY <3>1, <1>1
    <3>3. f[s] = IF s = {} THEN base ELSE step[<<f[s \ {Max(s)}], Max(s)>>]
      BY <3>1 DEF Recursion
    <3> HIDE DEF g
    <3> QED BY <3>2, <3>3
  <2> QED BY <2>1, <2>2
<1>3. g = [s \in SUBSET (1 .. k + 1) |-> g[s]]
  OBVIOUS
<1> HIDE DEF g
<1>4. g \in [SUBSET (1 .. k + 1) -> B]
  BY <1>2, <1>3
<1> QED BY <1>2, <1>4 DEF Recursion

LEMMA RecursionExists ==
    ASSUME NEW n \in Nat, NEW B, NEW base \in B, NEW step \in [B \X (1 .. n) -> B]
    PROVE  \E f : Recursion(f, base, step, n, B)
<1> DEFINE S == {k \in Nat : k <= n => \E f : Recursion(f, base, step, k, B)}
<1>1. 0 \in S
  <2> DEFINE f == [s \in SUBSET (1 .. 0) |-> base]
  <2>1. \A s \in SUBSET (1 .. 0) : s = {}
    OBVIOUS
  <2>2. Recursion(f, base, step, 0, B)
    BY <2>1 DEF Recursion
  <2> QED BY <2>2
<1>2. ASSUME NEW k \in Nat, k \in S PROVE k + 1 \in S
  <2> SUFFICES ASSUME k + 1 <= n PROVE \E f : Recursion(f, base, step, k + 1, B)
    OBVIOUS
  <2>1. PICK f : Recursion(f, base, step, k, B)
    BY <1>2
  <2> QED BY <2>1, RecursionGoesOn
<1> HIDE DEF S
<1>3. n \in S
  BY <1>1, <1>2, AllNaturals
<1> QED BY <1>3 DEF S

FirstOf(entries, c) == SelectInSeq(entries, LAMBDA r : r.kind = "tool_result" /\ r.call = c)

\* One step of PairedTools.
PairStep(entries, items, e) ==
    IF /\ e.kind = "tool_call"
       /\ \A i \in DOMAIN items : items[i].call # e.call
       /\ \E i \in DOMAIN entries : entries[i].kind = "tool_result" /\ entries[i].call = e.call
    THEN items \o <<e, entries[FirstOf(entries, e.call)]>>
    ELSE items

PairFolds(f, entries) ==
    f = [s \in SUBSET (1 .. Len(entries)) |->
            IF s = {} THEN <<>> ELSE PairStep(entries, f[s \ {Max(s)}], entries[Max(s)])]

LEMMA PairUnfold ==
    ASSUME NEW E, NEW entries \in Seq(E)
    PROVE  PairedTools(entries) = (CHOOSE f : PairFolds(f, entries))[1 .. Len(entries)]
<1>1. DOMAIN entries = 1 .. Len(entries)
  OBVIOUS
<1> QED BY <1>1 DEF PairedTools, FoldLeft, MapThenFoldSet, PairFolds, PairStep, FirstOf

\* The first result of a call.
LEMMA FirstResult ==
    ASSUME NEW E, NEW A \in Seq(E), NEW c, NEW r \in 1 .. Len(A),
           A[r].kind = "tool_result" /\ A[r].call = c
    PROVE  FirstOf(A, c) \in 1 .. Len(A) /\ A[FirstOf(A, c)].kind = "tool_result" /\ A[FirstOf(A, c)].call = c
<1> DEFINE I == {i \in 1 .. Len(A) : A[i].kind = "tool_result" /\ A[i].call = c}
<1>1. I \in SUBSET Nat /\ I # {}
  OBVIOUS
<1>2. PICK m \in I : \A j \in I : m <= j
  BY <1>1, LeastExists
<1>3. Min(I) \in I
  BY <1>2 DEF Min
<1> QED BY <1>1, <1>3 DEF FirstOf, SelectInSeq

LEMMA PairStepIsSeq ==
    ASSUME NEW E, NEW A \in Seq(E), NEW items \in Seq(E), NEW e \in E
    PROVE  PairStep(A, items, e) \in Seq(E)
<1>1. CASE \E i \in 1 .. Len(A) : A[i].kind = "tool_result" /\ A[i].call = e.call
  <2>1. FirstOf(A, e.call) \in 1 .. Len(A)
    BY <1>1, FirstResult
  <2>2. A[FirstOf(A, e.call)] \in E
    BY <2>1
  <2>3. items \o <<e, A[FirstOf(A, e.call)]>> \in Seq(E)
    BY <2>2
  <2> QED BY <2>3 DEF PairStep
<1>2. CASE ~\E i \in 1 .. Len(A) : A[i].kind = "tool_result" /\ A[i].call = e.call
  BY <1>2 DEF PairStep
<1> QED BY <1>1, <1>2

LEMMA PairFoldExists ==
    ASSUME NEW E, NEW A \in Seq(E)
    PROVE  \E f : PairFolds(f, A)
<1> DEFINE B == Seq(E)
           n == Len(A)
           step == [x \in B \X (1 .. n) |-> PairStep(A, x[1], A[x[2]])]
<1>1. n \in Nat /\ <<>> \in B
  OBVIOUS
<1>2. step \in [B \X (1 .. n) -> B]
  <2>1. ASSUME NEW x \in B \X (1 .. n) PROVE PairStep(A, x[1], A[x[2]]) \in B
    <3>1. x[1] \in Seq(E) /\ A[x[2]] \in E
      OBVIOUS
    <3> QED BY <3>1, PairStepIsSeq
  <2> QED BY <2>1
<1>3. \A b \in B, i \in 1 .. n : step[<<b, i>>] = PairStep(A, b, A[i])
  OBVIOUS
<1> HIDE DEF step, B
<1>4. PICK f : Recursion(f, <<>>, step, n, B)
  <2> HIDE DEF n
  <2> QED BY <1>1, <1>2, RecursionExists
<1>5. ASSUME NEW s \in SUBSET (1 .. n), s # {}
      PROVE  f[s] = PairStep(A, f[s \ {Max(s)}], A[Max(s)])
  <2>1. Max(s) \in 1 .. n
    BY <1>1, <1>5, GreatestExists
  <2>2. f[s \ {Max(s)}] \in B
    BY <1>4 DEF Recursion
  <2>3. f[s] = step[<<f[s \ {Max(s)}], Max(s)>>]
    BY <1>4, <1>5 DEF Recursion
  <2> QED BY <1>3, <2>1, <2>2, <2>3
<1> DEFINE At(s) == IF s = {} THEN <<>> ELSE PairStep(A, f[s \ {Max(s)}], A[Max(s)])
<1>6. \A s \in SUBSET (1 .. n) : f[s] = At(s)
  BY <1>4, <1>5 DEF Recursion
<1>7. f = [s \in SUBSET (1 .. n) |-> f[s]]
  BY <1>4 DEF Recursion
<1> HIDE DEF At
<1>8. f = [s \in SUBSET (1 .. n) |-> At(s)]
  BY <1>6, <1>7
<1>9. PairFolds(f, A)
  BY <1>8 DEF PairFolds, At
<1> QED BY <1>9

\* Tool entries as a turn records them one call at a time: a result stands behind
\* its call, and another call behind a result.
Serial(A) ==
    \A i \in 1 .. Len(A) :
        /\ A[i].kind \in {"tool_call", "tool_result"}
        /\ A[i].kind = "tool_result" =>
              i > 1 /\ A[i - 1].kind = "tool_call" /\ A[i - 1].call = A[i].call
        /\ A[i].kind = "tool_call" =>
              /\ i > 1 => A[i - 1].kind = "tool_result"
              /\ \A j \in 1 .. i - 1 : A[j].call # A[i].call

\* The number of entries of a pass that the first k lead to be shown.
Reached(A, k) ==
    IF k = 0 THEN 0
    ELSE IF A[k].kind = "tool_result" THEN k
    ELSE IF k < Len(A) THEN k + 1 ELSE k - 1

LEMMA SerialStep ==
    ASSUME NEW E, NEW A \in Seq(E), Serial(A), NEW k \in Nat, k < Len(A)
    PROVE  PairStep(A, SubSeq(A, 1, Reached(A, k)), A[k + 1]) = SubSeq(A, 1, Reached(A, k + 1))
<1> DEFINE n == Len(A)
           e == A[k + 1]
           items == SubSeq(A, 1, Reached(A, k))
<1>1. n \in Nat /\ k + 1 \in 1 .. n /\ (k # 0 => k \in 1 .. n) /\ (k + 2 <= n => k + 2 \in 1 .. n)
  OBVIOUS
<1>2. CASE e.kind = "tool_result"
  <2>1. k + 1 > 1 /\ A[k].kind = "tool_call"
    BY <1>1, <1>2 DEF Serial
  <2>2. Reached(A, k) = k + 1 /\ Reached(A, k + 1) = k + 1
    BY <1>1, <1>2, <2>1 DEF Reached
  <2>3. PairStep(A, items, e) = items
    BY <1>2 DEF PairStep
  <2> HIDE DEF e, items
  <2> QED BY <2>2, <2>3 DEF items, e
<1>3. CASE e.kind # "tool_result"
  <2>1. e.kind = "tool_call" /\ (k # 0 => A[k].kind = "tool_result")
        /\ \A j \in 1 .. k : A[j].call # e.call
    BY <1>1, <1>3 DEF Serial
  <2>2. Reached(A, k) = k
    BY <2>1 DEF Reached
  <2>3. items = SubSeq(A, 1, k) /\ Len(items) = k /\ DOMAIN items = 1 .. k /\ \A j \in 1 .. k : items[j] = A[j]
    BY <1>1, <2>2
  <2>4. \A i \in DOMAIN items : items[i].call # e.call
    BY <2>1, <2>3
  <2>5. ASSUME NEW r \in 1 .. n, A[r].kind = "tool_result", A[r].call = e.call PROVE r = k + 2
    <3>1. r > 1 /\ r - 1 \in 1 .. n /\ A[r - 1].kind = "tool_call" /\ A[r - 1].call = e.call
      BY <1>1, <2>5 DEF Serial
    <3>2. ~(r - 1 < k + 1)
      BY <1>1, <2>1, <3>1
    <3>3. ~(k + 1 < r - 1)
      <4> SUFFICES ASSUME k + 1 < r - 1 PROVE FALSE
        OBVIOUS
      <4>1. \A j \in 1 .. (r - 1) - 1 : A[j].call # A[r - 1].call
        BY <3>1 DEF Serial
      <4>2. k + 1 \in 1 .. (r - 1) - 1
        BY <1>1, <3>1
      <4> QED BY <3>1, <4>1, <4>2
    <3> QED BY <1>1, <3>1, <3>2, <3>3
  <2>6. CASE k + 2 <= n
    <3>1. k + 2 \in 1 .. n /\ k + 2 > 1 /\ (k + 2) - 1 = k + 1
      BY <1>1, <2>6
    <3>2. A[k + 2].kind = "tool_result"
      BY <2>1, <3>1 DEF Serial
    <3>3. A[k + 2].call = e.call
      BY <3>1, <3>2 DEF Serial
    <3>4. FirstOf(A, e.call) = k + 2
      <4> HIDE DEF e
      <4>1. /\ FirstOf(A, e.call) \in 1 .. n
            /\ A[FirstOf(A, e.call)].kind = "tool_result" /\ A[FirstOf(A, e.call)].call = e.call
        BY <3>1, <3>2, <3>3, FirstResult
      <4> QED BY <2>5, <4>1
    <3>5. DOMAIN A = 1 .. n
      OBVIOUS
    <3>6. PairStep(A, items, e) = items \o <<e, A[k + 2]>>
      <4> HIDE DEF e, items, n
      <4> QED BY <2>1, <2>4, <3>1, <3>2, <3>3, <3>4, <3>5 DEF PairStep
    <3>7. Reached(A, k + 1) = k + 2
      BY <1>3, <3>1, <2>6 DEF Reached
    <3>8. SubSeq(A, 1, k) \o <<A[k + 1], A[k + 2]>> = SubSeq(A, 1, k + 2)
      BY <1>1, <3>1
    <3> QED BY <2>3, <3>6, <3>7, <3>8
  <2>7. CASE ~(k + 2 <= n)
    <3>1. ~\E i \in DOMAIN A : A[i].kind = "tool_result" /\ A[i].call = e.call
      <4>1. DOMAIN A = 1 .. n
        OBVIOUS
      <4> HIDE DEF e, n
      <4>2. ~\E r \in 1 .. n : r = k + 2
        BY <1>1, <2>7
      <4> QED BY <2>5, <4>1, <4>2
    <3>2. PairStep(A, items, e) = items
      BY <3>1 DEF PairStep
    <3>3. Reached(A, k + 1) = k
      BY <1>1, <1>3, <2>7 DEF Reached
    <3> QED BY <2>3, <3>2, <3>3
  <2> QED BY <2>6, <2>7
<1> QED BY <1>2, <1>3

\* Of serial tool entries all are shown but a call at the end.
LEMMA SerialIsShown ==
    ASSUME NEW E, NEW A \in Seq(E), Serial(A)
    PROVE  PairedTools(A) = SubSeq(A, 1, Reached(A, Len(A)))
<1> DEFINE n == Len(A)
           F == CHOOSE f : PairFolds(f, A)
           S == {k \in Nat : k <= n => F[1 .. k] = SubSeq(A, 1, Reached(A, k))}
           At(s) == IF s = {} THEN <<>> ELSE PairStep(A, F[s \ {Max(s)}], A[Max(s)])
<1>1. n \in Nat
  OBVIOUS
<1>2. PairFolds(F, A)
  BY PairFoldExists
<1>3. PairedTools(A) = F[1 .. n]
  BY PairUnfold
<1> HIDE DEF F
<1>4. \A s \in SUBSET (1 .. n) : F[s] = At(s)
  BY <1>2 DEF PairFolds
<1>5. 0 \in S
  <2>1. 1 .. 0 = {} /\ 1 .. 0 \in SUBSET (1 .. n) /\ SubSeq(A, 1, 0) = <<>> /\ Reached(A, 0) = 0
    BY DEF Reached
  <2> QED BY <1>4, <2>1
<1>6. ASSUME NEW k \in Nat, k \in S PROVE k + 1 \in S
  <2> SUFFICES ASSUME k + 1 <= n PROVE F[1 .. k + 1] = SubSeq(A, 1, Reached(A, k + 1))
    OBVIOUS
  <2>1. F[1 .. k] = SubSeq(A, 1, Reached(A, k))
    BY <1>1, <1>6
  <2>2. 1 .. k + 1 \in SUBSET (1 .. n)
    BY <1>1
  <2>3. F[1 .. k + 1] = PairStep(A, F[1 .. k], A[k + 1])
    BY <1>4, <2>2, MaxOfSegment
  <2>4. k < Len(A)
    BY <1>1
  <2> QED BY <2>1, <2>3, <2>4, SerialStep
<1> HIDE DEF S
<1>7. n \in S
  BY <1>1, <1>5, <1>6, AllNaturals
<1> QED BY <1>1, <1>3, <1>7 DEF S
=============================================================================
