----------------------- MODULE ConcurrentTasks_proofs -----------------------
(***************************************************************************)
(* Theorems about ConcurrentTasks, for any number of calls, slots and      *)
(* progress events.                                                        *)
(*                                                                         *)
(* The invariant says, of each call, where its generator can stand while   *)
(* its reader holds an event, waits or is done; of the limiter, that it    *)
(* counts the calls that run and lists the calls that wait; and of the     *)
(* merge, that every call is still to announce itself, is being read, or   *)
(* is done.                                                                *)
(***************************************************************************)
EXTENDS ConcurrentTasks, FiniteSetTheorems, SequenceTheorems, TLAPS

USE TasksAssumption, SlotsAssumption, ProgressAssumption

-----------------------------------------------------------------------------
\* No call stands twice in a line.
Distinct(s) == \A i, j \in 1 .. Len(s) : s[i] = s[j] => i = j

\* The limiter counts the calls that run and lists the calls that wait.
Holders == {t \in Tasks : HoldsSlot(t)}
LimiterInv ==
    /\ activeCount = Cardinality(Holders)
    /\ Distinct(waiters)
    /\ \A t \in Tasks : task[t] = "queued" <=> Contains(waiters, t)

\* Where a call stands, its reader and its events agree.
CallInv(t) ==
    /\ task[t] = "unstarted" <=> group = "new"
    /\ task[t] = "unstarted" => reading[t] = "none" /\ yielded[t] = 0 /\ delivered[t] = 0
    /\ task[t] = "announced" => yielded[t] = 1 /\ reading[t] = (IF t \in opening THEN "event" ELSE "none")
    /\ task[t] \in {"queued", "working", "concluded", "submitting"} => reading[t] = "pending"
    /\ task[t] \in {"progressed", "reported"} => reading[t] = "event"
    /\ task[t] \in {"queued", "working", "progressed", "concluded"} => yielded[t] <= MaxProgress + 1
    /\ reading[t] = "done" => task[t] = "ended" /\ answer[t] = "submitted"
    /\ reading[t] = "event" /\ group \notin {"closing", "closed"} => task[t] \in Suspended
    /\ delivered[t] <= yielded[t]
    /\ group = "finished" => reading[t] = "done"
    /\ GroupOver => task[t] = "ended"

\* Every call is still to announce itself, is read, or is done.
MergeInv ==
    /\ Distinct(active)
    /\ group = "new" => opening = Tasks
    /\ \A t \in Tasks : t \in opening => ~Contains(active, t)
    /\ \A t \in Tasks : t \in opening \/ Contains(active, t) \/ reading[t] = "done"
    /\ \A t \in Tasks : t \in opening => task[t] \in {"unstarted", "announced", "ended"}

IInv ==
    /\ TypeOK
    /\ LimiterInv
    /\ \A t \in Tasks : CallInv(t)
    /\ MergeInv
    /\ NoEventLost

-----------------------------------------------------------------------------
(* Lines of calls. *)

LEMMA AppendToLine ==
    ASSUME NEW s \in Seq(Tasks), Distinct(s), NEW t \in Tasks, ~Contains(s, t)
    PROVE  /\ Append(s, t) \in Seq(Tasks) /\ Distinct(Append(s, t))
           /\ \A u \in Tasks : Contains(Append(s, t), u) <=> Contains(s, u) \/ u = t
<1> DEFINE a == Append(s, t)
<1>1. /\ a \in Seq(Tasks) /\ Len(a) = Len(s) + 1 /\ a[Len(s) + 1] = t
      /\ \A i \in 1 .. Len(s) : a[i] = s[i]
  BY AppendProperties
<1> HIDE DEF a
<1>2. Len(s) \in Nat
  OBVIOUS
<1>3. Distinct(a)
  BY <1>1, <1>2 DEF Distinct, Contains
<1>4. ASSUME NEW u \in Tasks PROVE Contains(a, u) <=> Contains(s, u) \/ u = t
  <2>1. Len(s) + 1 \in 1 .. Len(a) /\ \A i \in 1 .. Len(s) : i \in 1 .. Len(a)
    BY <1>1, <1>2
  <2>2. \A i \in 1 .. Len(a) : i \in 1 .. Len(s) \/ i = Len(s) + 1
    BY <1>1, <1>2
  <2> QED BY <1>1, <2>1, <2>2 DEF Contains
<1> QED BY <1>1, <1>3, <1>4 DEF a

LEMMA TailOfLine ==
    ASSUME NEW s \in Seq(Tasks), Distinct(s), s # <<>>
    PROVE  /\ Head(s) \in Tasks /\ Contains(s, Head(s))
           /\ Tail(s) \in Seq(Tasks) /\ Distinct(Tail(s))
           /\ \A u \in Tasks : Contains(Tail(s), u) <=> Contains(s, u) /\ u # Head(s)
<1> DEFINE a == Tail(s)
<1>1. /\ a \in Seq(Tasks) /\ Len(a) = Len(s) - 1 /\ Len(s) \in Nat \ {0} /\ Head(s) = s[1]
      /\ \A i \in 1 .. Len(a) : a[i] = s[i + 1]
  BY HeadTailProperties, EmptySeq
<1> HIDE DEF a
<1>2. s[1] \in Tasks /\ Contains(s, s[1])
  BY <1>1 DEF Contains
<1>3. Distinct(a)
  BY <1>1 DEF Distinct
<1>4. ASSUME NEW u \in Tasks, Contains(a, u) PROVE Contains(s, u) /\ u # Head(s)
  BY <1>1, <1>4 DEF Distinct, Contains
<1>5. ASSUME NEW u \in Tasks, Contains(s, u), u # Head(s) PROVE Contains(a, u)
  <2>1. PICK i \in 1 .. Len(s) : s[i] = u
    BY <1>5 DEF Contains
  <2>2. i - 1 \in 1 .. Len(a) /\ a[i - 1] = u
    BY <1>1, <1>5, <2>1
  <2> QED BY <2>2 DEF Contains
<1> QED BY <1>1, <1>2, <1>3, <1>4, <1>5 DEF a

LEMMA RemoveFromLine ==
    ASSUME NEW s \in Seq(Tasks), Distinct(s), NEW i \in 1 .. Len(s)
    PROVE  /\ RemoveAt(s, i) \in Seq(Tasks) /\ Distinct(RemoveAt(s, i))
           /\ \A u \in Tasks : Contains(RemoveAt(s, i), u) <=> Contains(s, u) /\ u # s[i]
<1> DEFINE a == SubSeq(s, 1, i - 1)
           b == SubSeq(s, i + 1, Len(s))
           c == a \o b
<1>1. Len(s) \in Nat /\ \A j \in 1 .. Len(s) : s[j] \in Tasks
  OBVIOUS
<1>2. a \in Seq(Tasks) /\ Len(a) = i - 1 /\ \A j \in 1 .. i - 1 : a[j] = s[j]
  BY <1>1
<1>3. b \in Seq(Tasks) /\ Len(b) = Len(s) - i /\ \A j \in 1 .. Len(s) - i : b[j] = s[i + j]
  BY <1>1
<1> HIDE DEF a, b
<1>4. /\ c \in Seq(Tasks) /\ Len(c) = Len(s) - 1
      /\ \A j \in 1 .. Len(c) : c[j] = IF j < i THEN s[j] ELSE s[j + 1]
  <2>1. /\ c \in Seq(Tasks) /\ Len(c) = Len(a) + Len(b)
        /\ \A j \in 1 .. Len(a) + Len(b) : c[j] = IF j <= Len(a) THEN a[j] ELSE b[j - Len(a)]
    BY <1>2, <1>3, ConcatProperties
  <2> HIDE DEF c
  <2>2. Len(c) = Len(s) - 1 /\ i \in Int
    BY <1>1, <1>2, <1>3, <2>1
  <2>3. ASSUME NEW j \in 1 .. Len(c) PROVE c[j] = IF j < i THEN s[j] ELSE s[j + 1]
    <3>1. c[j] = IF j <= i - 1 THEN a[j] ELSE b[j - (i - 1)]
      BY <1>2, <1>3, <2>1
    <3>2. CASE j < i
      BY <1>1, <1>2, <2>2, <3>1, <3>2
    <3>3. CASE ~(j < i)
      <4>1. j - (i - 1) \in 1 .. Len(s) - i /\ i + (j - (i - 1)) = j + 1 /\ ~(j <= i - 1)
        BY <1>1, <2>2, <3>3
      <4>2. b[j - (i - 1)] = s[j + 1]
        BY <1>3, <4>1
      <4> QED BY <3>1, <3>3, <4>1, <4>2
    <3> QED BY <3>2, <3>3
  <2> QED BY <2>1, <2>2, <2>3
<1>5. c = RemoveAt(s, i)
  BY DEF a, b, RemoveAt
<1> HIDE DEF c
<1>6. Distinct(c)
  BY <1>1, <1>4 DEF Distinct
<1>7. ASSUME NEW u \in Tasks, Contains(c, u) PROVE Contains(s, u) /\ u # s[i]
  <2>1. PICK j \in 1 .. Len(c) : c[j] = u
    BY <1>7 DEF Contains
  <2>2. CASE j < i
    BY <1>1, <1>4, <2>1, <2>2 DEF Distinct, Contains
  <2>3. CASE ~(j < i)
    BY <1>1, <1>4, <2>1, <2>3 DEF Distinct, Contains
  <2> QED BY <2>2, <2>3
<1>8. ASSUME NEW u \in Tasks, Contains(s, u), u # s[i] PROVE Contains(c, u)
  <2>1. PICK j \in 1 .. Len(s) : s[j] = u
    BY <1>8 DEF Contains
  <2>2. CASE j < i
    <3>1. j \in 1 .. Len(c) /\ c[j] = u
      BY <1>1, <1>4, <2>1, <2>2
    <3> QED BY <3>1 DEF Contains
  <2>3. CASE ~(j < i)
    <3>1. j - 1 \in 1 .. Len(c) /\ c[j - 1] = u
      BY <1>1, <1>4, <1>8, <2>1, <2>3
    <3> QED BY <3>1 DEF Contains
  <2> QED BY <2>2, <2>3
<1> QED BY <1>4, <1>5, <1>6, <1>7, <1>8

LEMMA SplitLine ==
    ASSUME NEW s \in Seq(Tasks), Distinct(s), NEW n \in 0 .. Len(s)
    PROVE  LET first == SubSeq(s, 1, n)
               rest  == SubSeq(s, n + 1, Len(s))
           IN  /\ first \in Seq(Tasks) /\ rest \in Seq(Tasks) /\ Distinct(rest)
               /\ \A u \in Tasks : Contains(s, u) <=> Contains(first, u) \/ Contains(rest, u)
               /\ \A u \in Tasks : ~(Contains(first, u) /\ Contains(rest, u))
               /\ Cardinality({u \in Tasks : Contains(first, u)}) = n
<1> DEFINE first == SubSeq(s, 1, n)
           rest  == SubSeq(s, n + 1, Len(s))
           Firsts == {u \in Tasks : Contains(first, u)}
<1>1. Len(s) \in Nat /\ \A j \in 1 .. Len(s) : s[j] \in Tasks
  OBVIOUS
<1>2. first \in Seq(Tasks) /\ Len(first) = n /\ \A j \in 1 .. n : first[j] = s[j]
  BY <1>1
<1>3. rest \in Seq(Tasks) /\ Len(rest) = Len(s) - n /\ \A j \in 1 .. Len(s) - n : rest[j] = s[n + j]
  BY <1>1
<1> HIDE DEF first, rest
<1>4. Distinct(rest)
  BY <1>1, <1>3 DEF Distinct
<1>5. ASSUME NEW u \in Tasks PROVE Contains(s, u) <=> Contains(first, u) \/ Contains(rest, u)
  <2>1. ASSUME Contains(s, u) PROVE Contains(first, u) \/ Contains(rest, u)
    <3>1. PICK j \in 1 .. Len(s) : s[j] = u
      BY <2>1 DEF Contains
    <3>2. CASE j <= n
      BY <1>1, <1>2, <3>1, <3>2 DEF Contains
    <3>3. CASE j > n
      <4>1. j - n \in 1 .. Len(rest) /\ rest[j - n] = u
        BY <1>1, <1>3, <3>1, <3>3
      <4> QED BY <4>1 DEF Contains
    <3> QED BY <1>1, <3>1, <3>2, <3>3
  <2>2. ASSUME Contains(first, u) PROVE Contains(s, u)
    BY <1>1, <1>2, <2>2 DEF Contains
  <2>3. ASSUME Contains(rest, u) PROVE Contains(s, u)
    <3>1. PICK j \in 1 .. Len(rest) : rest[j] = u
      BY <2>3 DEF Contains
    <3>2. n + j \in 1 .. Len(s) /\ s[n + j] = u
      BY <1>1, <1>3, <3>1
    <3> QED BY <3>2 DEF Contains
  <2> QED BY <2>1, <2>2, <2>3
<1>6. ASSUME NEW u \in Tasks, Contains(first, u), Contains(rest, u) PROVE FALSE
  <2>1. PICK i \in 1 .. n : s[i] = u
    BY <1>2, <1>6 DEF Contains
  <2>2. PICK j \in 1 .. Len(rest) : rest[j] = u
    BY <1>6 DEF Contains
  <2>3. n + j \in 1 .. Len(s) /\ s[n + j] = u /\ i \in 1 .. Len(s) /\ i # n + j
    BY <1>1, <1>3, <2>1, <2>2
  <2> QED BY <2>1, <2>3 DEF Distinct
<1>7. Cardinality(Firsts) = n
  <2> DEFINE f == [i \in 1 .. n |-> s[i]]
  <2>1. f \in Bijection(1 .. n, Firsts)
    <3>1. f \in [1 .. n -> Firsts]
      BY <1>1, <1>2 DEF Contains
    <3>2. \A i, j \in 1 .. n : f[i] = f[j] => i = j
      BY <1>1 DEF Distinct
    <3>3. \A u \in Firsts : \E i \in 1 .. n : f[i] = u
      BY <1>2 DEF Contains
    <3> QED BY <3>1, <3>2, <3>3 DEF Bijection, Injection, Surjection, IsInjective
  <2>2. n \in Nat
    BY <1>1
  <2> HIDE DEF f, Firsts
  <2>3. ExistsBijection(1 .. n, Firsts)
    BY <2>1 DEF ExistsBijection
  <2> QED BY <2>2, <2>3, FS_CountingElements
<1> QED BY <1>2, <1>3, <1>4, <1>5, <1>6, <1>7 DEF first, rest
-----------------------------------------------------------------------------
(* The limiter. *)

\* A step that moves no call into or out of a slot or the line.
LEMMA LimiterUndisturbed ==
    ASSUME LimiterInv, UNCHANGED limiter,
           \A t \in Tasks : /\ HoldsSlot(t)' <=> HoldsSlot(t)
                            /\ task'[t] = "queued" <=> task[t] = "queued"
    PROVE  LimiterInv'
<1>1. Holders' = Holders
  BY DEF Holders
<1> QED BY <1>1 DEF LimiterInv, limiter, Contains, Distinct

\* A slot given back goes to the call that has waited longest, if any.
LEMMA ReleaseEffect ==
    ASSUME TypeOK, LimiterInv, NEW t \in Tasks, HoldsSlot(t),
           NEW next \in {"concluded", "ended"}, Release(t, next)
    PROVE  /\ activeCount' \in 0 .. MaxSlots /\ waiters' \in Seq(Tasks)
           /\ task' \in [Tasks -> Places]
           /\ LimiterInv'
           /\ task'[t] = next
           /\ \A u \in Tasks \ {t} : task'[u] = task[u] \/ (task[u] = "queued" /\ task'[u] = "working")
<1>1. /\ IsFiniteSet(Holders) /\ Cardinality(Holders) = activeCount
      /\ t \in Holders /\ task \in [Tasks -> Places]
      /\ activeCount \in 0 .. MaxSlots /\ waiters \in Seq(Tasks)
  BY FS_Subset DEF TypeOK, LimiterInv, Holders
<1>2. /\ IsFiniteSet(Holders \ {t}) /\ Cardinality(Holders \ {t}) = activeCount - 1
  BY <1>1, FS_RemoveElement
<1>3. CASE waiters = <<>>
  <2>1. /\ activeCount' = activeCount - 1 /\ task' = [task EXCEPT ![t] = next] /\ waiters' = waiters
    BY <1>3 DEF Release
  <2>2. Holders' = Holders \ {t}
    BY <1>1, <2>1 DEF Holders, HoldsSlot
  <2>3. activeCount - 1 \in Nat
    BY <1>2, FS_CardinalityType
  <2>4. \A u \in Tasks : task'[u] = "queued" <=> Contains(waiters', u)
    BY <1>1, <2>1 DEF LimiterInv, HoldsSlot, Contains
  <2> QED BY <1>1, <1>2, <2>1, <2>2, <2>3, <2>4 DEF LimiterInv, Places, Distinct
<1>4. CASE waiters # <<>>
  <2> DEFINE h == Head(waiters)
  <2>1. /\ activeCount' = activeCount /\ waiters' = Tail(waiters)
        /\ task' = [task EXCEPT ![t] = next, ![h] = "working"]
    BY <1>4 DEF Release
  <2>2. /\ h \in Tasks /\ Contains(waiters, h)
        /\ Tail(waiters) \in Seq(Tasks) /\ Distinct(Tail(waiters))
        /\ \A u \in Tasks : Contains(Tail(waiters), u) <=> Contains(waiters, u) /\ u # h
    BY <1>1, <1>4, TailOfLine DEF LimiterInv
  <2> HIDE DEF h
  <2>3. task[h] = "queued" /\ h # t /\ h \notin Holders
    BY <2>2 DEF LimiterInv, HoldsSlot, Holders
  <2>4. Holders' = (Holders \ {t}) \cup {h}
    BY <1>1, <2>1, <2>2, <2>3 DEF Holders, HoldsSlot
  <2>5. Cardinality(Holders') = activeCount
    <3>1. h \notin Holders \ {t} /\ activeCount \in Int
      BY <1>1, <2>3
    <3> QED BY <1>2, <2>4, <3>1, FS_AddElement
  <2>6. \A u \in Tasks : task'[u] = "queued" <=> Contains(waiters', u)
    <3>1. \A u \in Tasks : task'[u] = "queued" <=> task[u] = "queued" /\ u # h
      BY <1>1, <2>1, <2>2, <2>3 DEF HoldsSlot
    <3> QED BY <2>1, <2>2, <3>1 DEF LimiterInv
  <2> QED BY <1>1, <2>1, <2>2, <2>3, <2>5, <2>6 DEF LimiterInv, Places
<1> QED BY <1>3, <1>4

-----------------------------------------------------------------------------
LEMMA ProgressKeeps ==
    ASSUME IInv, NEW t \in Tasks, Progress(t)
    PROVE  IInv'
<1>1. TypeOK'
  BY DEF IInv, TypeOK, Progress, Yields, Places, EventCounts, limiter
<1>2. LimiterInv'
  BY LimiterUndisturbed DEF IInv, Progress, HoldsSlot
<1>3. \A u \in Tasks : CallInv(u)'
  BY DEF IInv, TypeOK, CallInv, Progress, Yields, GroupOver, EventCounts, Suspended
<1>4. MergeInv'
  BY DEF IInv, CallInv, MergeInv, Progress, Yields
<1>5. NoEventLost'
  BY DEF IInv, TypeOK, CallInv, NoEventLost, Progress, Yields, EventCounts
<1> QED BY <1>1, <1>2, <1>3, <1>4, <1>5 DEF IInv

LEMMA RecordKeeps ==
    ASSUME IInv, NEW t \in Tasks, Record(t)
    PROVE  IInv'
<1>1. TypeOK'
  <2>1. yielded[t] + 1 \in EventCounts
    BY DEF IInv, TypeOK, CallInv, Record, EventCounts
  <2>2. CASE interrupted
    BY <2>2 DEF IInv, TypeOK, Record, Throws, Places, limiter
  <2>3. CASE ~interrupted
    <3>1. /\ task' = [task EXCEPT ![t] = "reported"] /\ answer' = [answer EXCEPT ![t] = "recorded"]
          /\ yielded' = [yielded EXCEPT ![t] = @ + 1] /\ reading' = [reading EXCEPT ![t] = "event"]
          /\ UNCHANGED <<activeCount, waiters, group, opening, active, delivered, interrupted>>
      BY <2>3 DEF Record, Yields, limiter
    <3>2. yielded' \in [Tasks -> EventCounts]
      BY <2>1, <3>1 DEF IInv, TypeOK
    <3> QED BY <3>1, <3>2 DEF IInv, TypeOK, Places
  <2> QED BY <2>2, <2>3
<1>2. LimiterInv'
  BY LimiterUndisturbed DEF IInv, TypeOK, Record, HoldsSlot
<1>3. \A u \in Tasks : CallInv(u)'
  BY DEF IInv, TypeOK, CallInv, Record, Yields, Throws, GroupOver, EventCounts, Suspended
<1>4. MergeInv'
  <2>1. task[t] = "concluded" /\ t \notin opening /\ reading[t] # "done"
    BY DEF IInv, MergeInv, CallInv, Record
  <2>2. /\ UNCHANGED <<group, opening, active>>
        /\ \A u \in Tasks \ {t} : task'[u] = task[u] /\ reading'[u] = reading[u]
    BY DEF IInv, TypeOK, Record, Yields, Throws
  <2> QED BY <2>1, <2>2 DEF IInv, MergeInv, Distinct, Contains
<1>5. NoEventLost'
  BY DEF IInv, TypeOK, CallInv, NoEventLost, Record, Yields, Throws, EventCounts
<1> QED BY <1>1, <1>2, <1>3, <1>4, <1>5 DEF IInv

LEMMA SubmittedKeeps ==
    ASSUME IInv, NEW t \in Tasks, Submitted(t)
    PROVE  IInv'
<1>1. TypeOK'
  BY DEF IInv, TypeOK, Submitted, Places, limiter
<1>2. LimiterInv'
  BY LimiterUndisturbed DEF IInv, Submitted, HoldsSlot
<1>3. \A u \in Tasks : CallInv(u)'
  BY DEF IInv, TypeOK, CallInv, Submitted, GroupOver
<1>4. MergeInv'
  BY DEF IInv, MergeInv, Submitted
<1>5. NoEventLost'
  BY DEF IInv, CallInv, NoEventLost, Submitted
<1> QED BY <1>1, <1>2, <1>3, <1>4, <1>5 DEF IInv

LEMMA SubmissionFailsKeeps ==
    ASSUME IInv, NEW t \in Tasks, SubmissionFails(t)
    PROVE  IInv'
<1>1. TypeOK'
  BY DEF IInv, TypeOK, SubmissionFails, Throws, Places, limiter
<1>2. LimiterInv'
  BY LimiterUndisturbed DEF IInv, SubmissionFails, HoldsSlot
<1>3. \A u \in Tasks : CallInv(u)'
  BY DEF IInv, TypeOK, CallInv, SubmissionFails, Throws, GroupOver
<1>4. MergeInv'
  BY DEF IInv, CallInv, MergeInv, SubmissionFails, Throws
<1>5. NoEventLost'
  BY DEF IInv, CallInv, NoEventLost, SubmissionFails, Throws
<1> QED BY <1>1, <1>2, <1>3, <1>4, <1>5 DEF IInv

LEMMA OpenKeeps ==
    ASSUME IInv, Open
    PROVE  IInv'
<1>1. TypeOK'
  BY DEF IInv, TypeOK, Open, Places, EventCounts, limiter
<1>2. LimiterInv'
  BY LimiterUndisturbed DEF IInv, CallInv, Open, HoldsSlot
<1>3. \A u \in Tasks : CallInv(u)'
  BY DEF IInv, CallInv, MergeInv, Open, GroupOver, Suspended
<1>4. MergeInv'
  BY DEF IInv, MergeInv, Open
<1>5. NoEventLost'
  BY DEF IInv, CallInv, NoEventLost, Open
<1> QED BY <1>1, <1>2, <1>3, <1>4, <1>5 DEF IInv

LEMMA TakeFirstKeeps ==
    ASSUME IInv, NEW t \in Tasks, TakeFirst(t)
    PROVE  IInv'
<1>1. TypeOK'
  BY DEF IInv, TypeOK, NoEventLost, TakeFirst, limiter, calls
<1>2. LimiterInv'
  BY LimiterUndisturbed DEF IInv, TakeFirst, HoldsSlot, calls
<1>3. \A u \in Tasks : CallInv(u)'
  BY DEF IInv, TypeOK, CallInv, MergeInv, NoEventLost, TakeFirst, GroupOver, EventCounts, calls
<1>4. MergeInv'
  BY DEF IInv, MergeInv, TakeFirst, Distinct, Contains, calls
<1>5. NoEventLost'
  BY DEF IInv, TypeOK, CallInv, MergeInv, NoEventLost, TakeFirst, Suspended, calls
<1> QED BY <1>1, <1>2, <1>3, <1>4, <1>5 DEF IInv

LEMMA TakeNextKeeps ==
    ASSUME IInv, NEW t \in Tasks, TakeNext(t)
    PROVE  IInv'
<1>1. TypeOK'
  BY DEF IInv, TypeOK, NoEventLost, TakeNext, Resume, Places, limiter
<1>2. LimiterInv'
  BY LimiterUndisturbed DEF IInv, CallInv, TakeNext, Resume, HoldsSlot
<1>3. \A u \in Tasks : CallInv(u)'
  BY DEF IInv, TypeOK, CallInv, NoEventLost, TakeNext, Resume, GroupOver, EventCounts
<1>4. MergeInv'
  BY DEF IInv, MergeInv, TakeNext, Resume
<1>5. NoEventLost'
  BY DEF IInv, TypeOK, NoEventLost, TakeNext, Resume, EventCounts
<1> QED BY <1>1, <1>2, <1>3, <1>4, <1>5 DEF IInv

LEMMA TakeDoneKeeps ==
    ASSUME IInv, NEW t \in Tasks, TakeDone(t)
    PROVE  IInv'
<1>0. PICK i \in 1 .. Len(active) : active[i] = t /\ active' = RemoveAt(active, i)
  BY DEF IInv, TypeOK, TakeDone
<1>a. /\ active' \in Seq(Tasks) /\ Distinct(active')
      /\ \A u \in Tasks : Contains(active', u) <=> Contains(active, u) /\ u # t
  BY <1>0, RemoveFromLine DEF IInv, TypeOK, MergeInv
<1>b. /\ UNCHANGED <<limiter, calls, reading, opening, delivered, interrupted>>
      /\ group = "racing" /\ opening = {} /\ reading[t] = "done"
      /\ group' \in {"finished", "closing", "racing"}
      /\ group' = "finished" => active' = <<>>
  BY DEF TakeDone, RaceUnlessInterrupted
<1>c. ASSUME group' = "finished", NEW u \in Tasks PROVE reading[u] = "done"
  <2>1. ~Contains(active', u)
    BY <1>b, <1>c DEF Contains
  <2> QED BY <1>a, <1>b, <2>1 DEF IInv, MergeInv
<1>1. TypeOK'
  BY <1>a, <1>b DEF IInv, TypeOK, limiter, calls
<1>2. LimiterInv'
  BY LimiterUndisturbed DEF IInv, TakeDone, HoldsSlot, calls
<1>3. \A u \in Tasks : CallInv(u)'
  BY <1>b, <1>c DEF IInv, CallInv, GroupOver, calls
<1>4. MergeInv'
  BY <1>a, <1>b DEF IInv, MergeInv
<1>5. NoEventLost'
  BY DEF IInv, NoEventLost, TakeDone, calls
<1> QED BY <1>1, <1>2, <1>3, <1>4, <1>5 DEF IInv

LEMMA TakeErrorKeeps ==
    ASSUME IInv, NEW t \in Tasks, TakeError(t)
    PROVE  IInv'
<1>1. TypeOK'
  BY DEF IInv, TypeOK, TakeError, limiter, calls
<1>2. LimiterInv'
  BY LimiterUndisturbed DEF IInv, TakeError, HoldsSlot, calls
<1>3. \A u \in Tasks : CallInv(u)'
  BY DEF IInv, CallInv, TakeError, GroupOver, calls
<1>4. MergeInv'
  BY DEF IInv, MergeInv, TakeError
<1>5. NoEventLost'
  BY DEF NoEventLost, TakeError
<1> QED BY <1>1, <1>2, <1>3, <1>4, <1>5 DEF IInv

LEMMA ConsumerLeavesKeeps ==
    ASSUME IInv, ConsumerLeaves
    PROVE  IInv'
<1>1. TypeOK'
  BY DEF IInv, TypeOK, ConsumerLeaves, limiter, calls
<1>2. LimiterInv'
  BY LimiterUndisturbed DEF IInv, ConsumerLeaves, HoldsSlot, calls
<1>3. \A u \in Tasks : CallInv(u)'
  BY DEF IInv, CallInv, ConsumerLeaves, GroupOver, calls
<1>4. MergeInv'
  BY DEF IInv, MergeInv, ConsumerLeaves, calls
<1>5. NoEventLost'
  BY DEF NoEventLost, ConsumerLeaves
<1> QED BY <1>1, <1>2, <1>3, <1>4, <1>5 DEF IInv

LEMMA ClosedKeeps ==
    ASSUME IInv, Closed
    PROVE  IInv'
<1>1. TypeOK'
  BY DEF IInv, TypeOK, Closed, limiter, calls
<1>2. LimiterInv'
  BY LimiterUndisturbed DEF IInv, Closed, HoldsSlot, calls
<1>3. \A u \in Tasks : CallInv(u)'
  BY DEF IInv, CallInv, Closed, calls
<1>4. MergeInv'
  BY DEF IInv, MergeInv, Closed, calls
<1>5. NoEventLost'
  BY DEF NoEventLost, Closed
<1> QED BY <1>1, <1>2, <1>3, <1>4, <1>5 DEF IInv

LEMMA InterruptKeeps ==
    ASSUME IInv, Interrupt
    PROVE  IInv'
<1>1. TypeOK'
  BY DEF IInv, TypeOK, Interrupt, limiter, calls, merge
<1>2. LimiterInv'
  BY LimiterUndisturbed DEF IInv, Interrupt, HoldsSlot, calls
<1>3. \A u \in Tasks : CallInv(u)'
  BY DEF IInv, CallInv, Interrupt, GroupOver, calls, merge
<1>4. MergeInv'
  BY DEF IInv, MergeInv, Interrupt, calls, merge
<1>5. NoEventLost'
  BY DEF IInv, NoEventLost, Interrupt, calls, merge
<1> QED BY <1>1, <1>2, <1>3, <1>4, <1>5 DEF IInv

LEMMA NextGroupKeeps ==
    ASSUME IInv, NextGroup
    PROVE  IInv'
<1>1. TypeOK'
  <2>1. 0 \in EventCounts /\ <<>> \in Seq(Tasks)
    BY DEF EventCounts
  <2> QED BY <2>1 DEF IInv, TypeOK, NextGroup, Places, limiter
<1>2. LimiterInv'
  BY LimiterUndisturbed DEF IInv, CallInv, NextGroup, HoldsSlot
<1>3. \A u \in Tasks : CallInv(u)'
  BY DEF CallInv, NextGroup, GroupOver
<1>4. MergeInv'
  BY DEF MergeInv, NextGroup, Distinct, Contains
<1>5. NoEventLost'
  BY DEF NoEventLost, NextGroup
<1> QED BY <1>1, <1>2, <1>3, <1>4, <1>5 DEF IInv

LEMMA ConcludeKeeps ==
    ASSUME IInv, NEW t \in Tasks, Conclude(t)
    PROVE  IInv'
<1>0. /\ activeCount' \in 0 .. MaxSlots /\ waiters' \in Seq(Tasks)
      /\ task' \in [Tasks -> Places]
      /\ LimiterInv'
      /\ task'[t] = "concluded"
      /\ \A u \in Tasks \ {t} : task'[u] = task[u] \/ (task[u] = "queued" /\ task'[u] = "working")
  BY ReleaseEffect DEF IInv, Conclude, HoldsSlot
<1>a. /\ task[t] = "working"
      /\ UNCHANGED <<answer, yielded, group, reading, opening, active, delivered, interrupted>>
  BY DEF Conclude, merge
<1>1. TypeOK'
  BY <1>0, <1>a DEF IInv, TypeOK
<1>3. \A u \in Tasks : CallInv(u)'
  BY <1>0, <1>a DEF IInv, CallInv, GroupOver
<1>4. MergeInv'
  <2>1. /\ t \notin opening /\ reading[t] # "done"
        /\ \A u \in Tasks \ {t} : task'[u] = task[u] \/ u \notin opening
    BY <1>0, <1>a DEF IInv, MergeInv, CallInv
  <2> QED BY <1>0, <1>a, <2>1 DEF IInv, MergeInv
<1>5. NoEventLost'
  BY <1>0, <1>a DEF IInv, TypeOK, CallInv, NoEventLost
<1> QED BY <1>0, <1>1, <1>3, <1>4, <1>5 DEF IInv

LEMMA AbortKeeps ==
    ASSUME IInv, NEW t \in Tasks, Abort(t)
    PROVE  IInv'
<1>0. /\ activeCount' \in 0 .. MaxSlots /\ waiters' \in Seq(Tasks)
      /\ task' \in [Tasks -> Places]
      /\ LimiterInv'
      /\ task'[t] = "ended"
      /\ \A u \in Tasks \ {t} : task'[u] = task[u] \/ (task[u] = "queued" /\ task'[u] = "working")
  BY ReleaseEffect DEF IInv, Abort, HoldsSlot
<1>a. /\ task[t] = "working" /\ reading' = [reading EXCEPT ![t] = "error"]
      /\ UNCHANGED <<answer, yielded, group, opening, active, delivered, interrupted>>
  BY DEF Abort, Throws, merge
<1>1. TypeOK'
  BY <1>0, <1>a DEF IInv, TypeOK
<1>3. \A u \in Tasks : CallInv(u)'
  BY <1>0, <1>a DEF IInv, CallInv, GroupOver
<1>4. MergeInv'
  <2>1. /\ t \notin opening /\ reading[t] # "done"
        /\ \A u \in Tasks \ {t} : task'[u] = task[u] \/ u \notin opening
    BY <1>0, <1>a DEF IInv, MergeInv, CallInv
  <2> QED BY <1>0, <1>a, <2>1 DEF IInv, MergeInv, Contains
<1>5. NoEventLost'
  BY <1>0, <1>a DEF IInv, TypeOK, CallInv, NoEventLost
<1> QED BY <1>0, <1>1, <1>3, <1>4, <1>5 DEF IInv

LEMMA ReturnKeeps ==
    ASSUME IInv, NEW t \in Tasks, Return(t)
    PROVE  IInv'
<1>0. /\ activeCount' \in 0 .. MaxSlots /\ waiters' \in Seq(Tasks)
      /\ task' \in [Tasks -> Places]
      /\ LimiterInv'
      /\ task'[t] = "ended"
      /\ \A u \in Tasks \ {t} : task'[u] = task[u] \/ (task[u] = "queued" /\ task'[u] = "working")
  <2>1. CASE HoldsSlot(t)
    BY <2>1, ReleaseEffect DEF IInv, Return
  <2>2. CASE ~HoldsSlot(t)
    <3>1. /\ task' = [task EXCEPT ![t] = "ended"] /\ UNCHANGED limiter
          /\ task[t] \in Suspended
      BY <2>2 DEF Return
    <3>2. LimiterInv'
      BY <2>2, <3>1, LimiterUndisturbed DEF IInv, TypeOK, HoldsSlot, Suspended
    <3> QED BY <3>1, <3>2 DEF IInv, TypeOK, Places, limiter
  <2> QED BY <2>1, <2>2
<1>a. /\ group = "closing" /\ task[t] \in Suspended
      /\ UNCHANGED <<answer, yielded, group, reading, opening, active, delivered, interrupted>>
  BY DEF Return, merge
<1>1. TypeOK'
  BY <1>0, <1>a DEF IInv, TypeOK
<1>3. \A u \in Tasks : CallInv(u)'
  BY <1>0, <1>a DEF IInv, CallInv, GroupOver
<1>4. MergeInv'
  BY <1>0, <1>a DEF IInv, MergeInv
<1>5. NoEventLost'
  BY <1>a DEF NoEventLost
<1> QED BY <1>0, <1>1, <1>3, <1>4, <1>5 DEF IInv

\* When the second phase begins the calls are all active, and nothing holds
\* or awaits a slot.
LEMMA AllAreActive ==
    ASSUME IInv, group = "consumer", opening = {}, \A t \in Tasks : task[t] = "announced"
    PROVE  /\ \A t \in Tasks : Contains(active, t) /\ reading[t] = "none" /\ yielded[t] = 1
           /\ activeCount = 0 /\ waiters = <<>>
<1>1. \A t \in Tasks : reading[t] = "none" /\ yielded[t] = 1
  BY DEF IInv, CallInv
<1>2. \A t \in Tasks : Contains(active, t)
  BY <1>1 DEF IInv, MergeInv
<1>3. Holders = {}
  BY DEF Holders, HoldsSlot
<1>4. activeCount = 0
  BY <1>3, FS_EmptySet DEF IInv, LimiterInv
<1>5. \A t \in Tasks : ~Contains(waiters, t)
  BY DEF IInv, LimiterInv
<1>6. waiters \in Seq(Tasks)
  BY DEF IInv, TypeOK
<1>7. waiters = <<>>
  BY <1>5, <1>6 DEF Contains
<1> QED BY <1>1, <1>2, <1>4, <1>7

\* The first MaxSlots calls get a slot, the others wait in their order.
LEMMA SlotsAreGiven ==
    ASSUME IInv, group = "consumer", opening = {}, \A t \in Tasks : task[t] = "announced",
           AskForSlots(active), ~interrupted
    PROVE  /\ activeCount' \in 0 .. MaxSlots /\ waiters' \in Seq(Tasks)
           /\ LimiterInv'
           /\ task' \in [Tasks -> Places] /\ \A t \in Tasks : task'[t] \in {"working", "queued"}
           /\ reading' = [t \in Tasks |-> "pending"]
<1> DEFINE free  == MaxSlots - activeCount
           count == IF free < Len(active) THEN free ELSE Len(active)
           first == SubSeq(active, 1, count)
           rest  == SubSeq(active, count + 1, Len(active))
<1>1. /\ activeCount = 0 /\ waiters = <<>> /\ \A t \in Tasks : Contains(active, t)
      /\ active \in Seq(Tasks) /\ Distinct(active)
  BY AllAreActive DEF IInv, TypeOK, MergeInv
<1>2. count \in 0 .. Len(active) /\ count \in 0 .. MaxSlots
  BY <1>1
<1>3. /\ activeCount' = activeCount + count
      /\ waiters' = waiters \o rest
      /\ task' = [t \in Tasks |-> CASE Contains(first, t) -> "working"
                                    [] Contains(rest, t)  -> "queued"
                                    [] OTHER              -> task[t]]
      /\ reading' = [t \in Tasks |-> IF Contains(active, t) THEN "pending" ELSE reading[t]]
  BY DEF AskForSlots
<1> HIDE DEF free, count
<1>4. /\ first \in Seq(Tasks) /\ rest \in Seq(Tasks) /\ Distinct(rest)
      /\ \A u \in Tasks : Contains(active, u) <=> Contains(first, u) \/ Contains(rest, u)
      /\ \A u \in Tasks : ~(Contains(first, u) /\ Contains(rest, u))
      /\ Cardinality({u \in Tasks : Contains(first, u)}) = count
  BY <1>1, <1>2, SplitLine
<1> HIDE DEF first, rest
<1>5. activeCount' = count /\ waiters' = rest
  BY <1>1, <1>2, <1>3, <1>4
<1>6. ASSUME NEW u \in Tasks
      PROVE  /\ task'[u] = IF Contains(first, u) THEN "working" ELSE "queued"
             /\ task'[u] = "queued" <=> Contains(rest, u)
  BY <1>1, <1>3, <1>4
<1>7. Holders' = {u \in Tasks : Contains(first, u)}
  BY <1>6 DEF Holders, HoldsSlot
<1>8. LimiterInv'
  BY <1>4, <1>5, <1>6, <1>7 DEF LimiterInv
<1>9. \A t \in Tasks : task'[t] \in {"working", "queued"}
  BY <1>6
<1>10. task' \in [Tasks -> Places]
  BY <1>3, <1>9 DEF Places
<1> QED BY <1>1, <1>2, <1>3, <1>4, <1>5, <1>8, <1>9, <1>10

LEMMA ConsumerNextKeeps ==
    ASSUME IInv, ConsumerNext
    PROVE  IInv'
<1>0. /\ group = "consumer" /\ group' = (IF interrupted THEN "closing" ELSE "racing")
      /\ UNCHANGED <<answer, yielded, opening, active, delivered, interrupted>>
  BY DEF ConsumerNext, RaceUnlessInterrupted
<1>1. CASE opening = {} /\ \A t \in Tasks : task[t] = "announced"
  <2>1. AskForSlots(active)
    BY <1>1 DEF ConsumerNext
  <2>2. /\ \A t \in Tasks : Contains(active, t) /\ reading[t] = "none" /\ yielded[t] = 1
        /\ activeCount = 0 /\ waiters = <<>>
    BY <1>0, <1>1, AllAreActive
  <2>3. CASE interrupted
    <3>1. /\ task' = [t \in Tasks |-> "ended"] /\ reading' = [t \in Tasks |-> "error"]
          /\ UNCHANGED limiter /\ group' = "closing"
      BY <1>0, <2>1, <2>2, <2>3 DEF AskForSlots
    <3>2. TypeOK'
      BY <1>0, <3>1 DEF IInv, TypeOK, Places, limiter
    <3>3. LimiterInv'
      BY <1>1, <3>1, LimiterUndisturbed DEF IInv, HoldsSlot
    <3>4. \A u \in Tasks : CallInv(u)'
      BY <1>0, <3>1 DEF IInv, CallInv, GroupOver
    <3>5. MergeInv'
      BY <1>0, <1>1, <2>2, <3>1 DEF IInv, MergeInv
    <3>6. NoEventLost'
      BY <3>1 DEF NoEventLost
    <3> QED BY <3>2, <3>3, <3>4, <3>5, <3>6 DEF IInv
  <2>4. CASE ~interrupted
    <3>1. /\ activeCount' \in 0 .. MaxSlots /\ waiters' \in Seq(Tasks)
          /\ LimiterInv'
          /\ task' \in [Tasks -> Places] /\ \A t \in Tasks : task'[t] \in {"working", "queued"}
          /\ reading' = [t \in Tasks |-> "pending"]
      BY <1>0, <1>1, <2>1, <2>4, SlotsAreGiven
    <3>2. TypeOK'
      BY <1>0, <3>1 DEF IInv, TypeOK
    <3>4. \A u \in Tasks : CallInv(u)'
      BY <1>0, <2>2, <3>1 DEF IInv, TypeOK, CallInv, GroupOver
    <3>5. MergeInv'
      BY <1>0, <1>1, <2>2, <3>1 DEF IInv, MergeInv
    <3>6. NoEventLost'
      BY <1>0, <2>2, <3>1 DEF IInv, NoEventLost
    <3> QED BY <3>1, <3>2, <3>4, <3>5, <3>6 DEF IInv
  <2> QED BY <2>3, <2>4
<1>2. CASE ~(opening = {} /\ \A t \in Tasks : task[t] = "announced")
  <2>1. UNCHANGED <<limiter, task, reading>>
    BY <1>2 DEF ConsumerNext
  <2>2. TypeOK'
    BY <1>0, <2>1 DEF IInv, TypeOK, limiter
  <2>3. LimiterInv'
    BY <2>1, LimiterUndisturbed DEF IInv, HoldsSlot
  <2>4. \A u \in Tasks : CallInv(u)'
    BY <1>0, <2>1 DEF IInv, CallInv, GroupOver
  <2>5. MergeInv'
    BY <1>0, <2>1 DEF IInv, MergeInv
  <2>6. NoEventLost'
    BY <1>0, <2>1 DEF IInv, NoEventLost
  <2> QED BY <2>2, <2>3, <2>4, <2>5, <2>6 DEF IInv
<1> QED BY <1>1, <1>2

-----------------------------------------------------------------------------
LEMMA InitEstablishes == Init => IInv
<1> SUFFICES ASSUME Init PROVE IInv
  OBVIOUS
<1>1. TypeOK
  <2>1. 0 \in EventCounts /\ <<>> \in Seq(Tasks)
    BY DEF EventCounts
  <2>2. /\ task \in [Tasks -> Places] /\ yielded \in [Tasks -> EventCounts]
        /\ delivered \in [Tasks -> EventCounts]
    BY <2>1 DEF Init, Places
  <2>3. /\ activeCount \in 0 .. MaxSlots /\ waiters \in Seq(Tasks) /\ active \in Seq(Tasks)
        /\ opening \in SUBSET Tasks
    BY <2>1 DEF Init
  <2>4. /\ answer \in [Tasks -> {"none", "recorded", "submitted"}]
        /\ reading \in [Tasks -> {"none", "pending", "event", "done", "error"}]
    BY DEF Init
  <2>5. /\ group \in {"new", "racing", "consumer", "closing", "finished", "closed"}
        /\ interrupted \in BOOLEAN
    BY DEF Init
  <2> QED BY <2>2, <2>3, <2>4, <2>5 DEF TypeOK
<1>2. LimiterInv
  <2>1. Holders = {}
    BY DEF Init, Holders, HoldsSlot
  <2> QED BY <2>1, FS_EmptySet DEF Init, LimiterInv, Distinct, Contains
<1>3. \A t \in Tasks : CallInv(t)
  BY DEF Init, CallInv, GroupOver
<1>4. MergeInv
  BY DEF Init, MergeInv, Distinct, Contains
<1>5. NoEventLost
  BY DEF Init, NoEventLost
<1> QED BY <1>1, <1>2, <1>3, <1>4, <1>5 DEF IInv

LEMMA StepKeeps == IInv /\ [Next]_vars => IInv'
<1> SUFFICES ASSUME IInv, [Next]_vars PROVE IInv'
  OBVIOUS
<1>1. CASE \E t \in Tasks : Call(t)
  BY <1>1, ProgressKeeps, ConcludeKeeps, AbortKeeps, RecordKeeps, SubmittedKeeps, SubmissionFailsKeeps
  DEF Call
<1>2. CASE \E t \in Tasks : Merge(t)
  BY <1>2, TakeFirstKeeps, TakeNextKeeps, TakeDoneKeeps, TakeErrorKeeps, ReturnKeeps DEF Merge
<1>3. CASE Open \/ ConsumerNext \/ ConsumerLeaves \/ Closed \/ Interrupt \/ NextGroup
  BY <1>3, OpenKeeps, ConsumerNextKeeps, ConsumerLeavesKeeps, ClosedKeeps, InterruptKeeps, NextGroupKeeps
<1>4. CASE UNCHANGED vars
  <2>1. UNCHANGED <<activeCount, waiters, task, answer, yielded, group, reading, opening, active, delivered, interrupted>>
    BY <1>4 DEF vars, limiter, calls, merge
  <2>2. LimiterInv'
    BY <2>1, LimiterUndisturbed DEF IInv, HoldsSlot, limiter
  <2> QED BY <2>1, <2>2 DEF IInv, TypeOK, CallInv, MergeInv, NoEventLost, GroupOver
<1> QED BY <1>1, <1>2, <1>3, <1>4 DEF Next

LEMMA IInvHolds == Spec => []IInv
<1> QED BY InitEstablishes, StepKeeps, PTL DEF Spec

-----------------------------------------------------------------------------
\* The limiter, the calls and the merge stay within their types: never more
\* subagent conversations run than there are slots, and no call yields more
\* events than its progress, its announcement and its result.
THEOREM TypeCorrect == Spec => []TypeOK
<1>1. IInv => TypeOK
  BY DEF IInv
<1> QED BY <1>1, IInvHolds, PTL

\* Until the group is closed the consumer gets every event of every call, once
\* and in order, although the merge reads each call ahead of it.
THEOREM EventsReachTheConsumer == Spec => []NoEventLost
<1>1. IInv => NoEventLost
  BY DEF IInv
<1> QED BY <1>1, IInvHolds, PTL

\* A group that has ended, in order, by an error, by an interruption or because
\* its consumer left, has given back every slot and left no call running or
\* waiting; one that ended in order has submitted and shown every result.
THEOREM GroupsLeaveNothingBehind == Spec => []GroupsEndSettled
<1>1. IInv => GroupsEndSettled
  <2> SUFFICES ASSUME IInv PROVE GroupsEndSettled
    OBVIOUS
  <2>1. ASSUME GroupOver PROVE activeCount = 0 /\ waiters = <<>> /\ \A t \in Tasks : task[t] = "ended"
    <3>1. \A t \in Tasks : task[t] = "ended"
      BY <2>1 DEF IInv, CallInv
    <3>2. Holders = {}
      BY <3>1 DEF Holders, HoldsSlot
    <3>3. activeCount = 0
      BY <3>2, FS_EmptySet DEF IInv, LimiterInv
    <3>4. (\A t \in Tasks : ~Contains(waiters, t)) /\ waiters \in Seq(Tasks)
      BY <3>1 DEF IInv, LimiterInv, TypeOK
    <3>5. waiters = <<>>
      BY <3>4 DEF Contains
    <3> QED BY <3>1, <3>3, <3>5
  <2>2. ASSUME group = "finished", NEW t \in Tasks PROVE answer[t] = "submitted" /\ delivered[t] = yielded[t]
    <3>1. reading[t] = "done" /\ answer[t] = "submitted"
      BY <2>2 DEF IInv, CallInv
    <3>2. yielded[t] = delivered[t] + 0 /\ delivered[t] \in Int
      BY <2>2, <3>1 DEF IInv, TypeOK, NoEventLost, EventCounts
    <3> QED BY <3>1, <3>2
  <2> QED BY <2>1, <2>2 DEF GroupsEndSettled, GroupLeavesNothingBehind, FinishedGroupIsAnswered
<1> QED BY <1>1, IInvHolds, PTL
=============================================================================
