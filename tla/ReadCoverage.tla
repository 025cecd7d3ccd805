---------------------------- MODULE ReadCoverage ----------------------------
(***************************************************************************)
(* The arithmetic of SameTurnReadCoverageTracker: which lines of a file a  *)
(* read returns that the turn has been shown before, and whether that is   *)
(* worth an advisory.  A range is a file with its first and last line.     *)
(***************************************************************************)
EXTENDS Integers, SequencesExt

MinimumOverlap == 5   \* MINIMUM_PARTIAL_OVERLAP_LINE_COUNT_FOR_ADVISORY

LinesOf(range) == range.from .. range.to
Size(range) == range.to - range.from + 1
Between(range, from, to) == [range EXCEPT !.from = from, !.to = to]

Overlaps(left, right) ==
    left.file = right.file /\ left.from <= right.to /\ right.from <= left.to

Intersection(left, right) ==
    Between(left, Max({left.from, right.from}), Min({left.to, right.to}))

\* Where the sort puts them: by first line, then by last line.
Before(left, right) == left.from < right.from \/ (left.from = right.from /\ left.to < right.to)

Insert(sorted, r) ==
    LET notAfter == {i \in DOMAIN sorted : ~Before(r, sorted[i])} IN
    InsertAt(sorted, Max({0} \union notAfter) + 1, r)

Sorted(ranges) == FoldLeft(Insert, <<>>, ranges)

\* The next range in the order is added to the last one, if it overlaps or touches it.
Add(merged, r) ==
    IF merged = <<>> \/ r.from > Last(merged).to + 1 THEN Append(merged, r)
    ELSE [merged EXCEPT ![Len(merged)].to = Max({@, r.to})]

\* Ranges of one file, sorted, with those that overlap or touch made one.
Merge(ranges) == FoldLeft(Add, <<>>, Sorted(ranges))

\* The gap before the covered range c, if there is one.  state.next is the first
\* line that is still to be looked at.
Pass(source, margin, state, c) ==
    IF c.to < state.next \/ c.from > source.to THEN state
    ELSE [next |-> Max({state.next, c.to + 1}),
          missing |-> IF c.from > state.next
                      THEN Append(state.missing, Between(source, state.next, Min({c.from - margin, source.to})))
                      ELSE state.missing]

\* What of source the covered ranges leave, each gap ending margin lines before
\* the range that follows it.
SubtractWith(source, covered, margin) ==
    LET end == FoldLeft(LAMBDA state, c : Pass(source, margin, state, c),
                        [next |-> source.from, missing |-> <<>>], Merge(covered))
    IN IF end.next <= source.to THEN Append(end.missing, Between(source, end.next, source.to))
       ELSE end.missing

\* Seeded fault: a gap takes in the first line that is covered.
SubtractTooLittle(source, covered) == SubtractWith(source, covered, 0)

Subtract(source, covered) == SubtractWith(source, covered, 1)

Overlapping(range, coverage) ==
    FoldLeft(LAMBDA kept, p : IF Overlaps(range, p) THEN Append(kept, p) ELSE kept, <<>>, coverage)

LinesIn(ranges) == FoldLeft(LAMBDA n, r : n + Size(r), 0, ranges)

NoAdvisory == [previous |-> <<>>, missing |-> <<>>, overlap |-> 0]

\* createReadOverlapAdvisory, coverage being the ranges shown so far.
Advisory(current, coverage) ==
    LET previous == Overlapping(current, coverage)
        visible  == Merge([i \in DOMAIN previous |-> Intersection(current, previous[i])])
        overlap  == LinesIn(visible)
        missing  == Subtract(current, visible)
    IN IF /\ previous # <<>>
          /\ missing = <<>> \/ (2 * overlap >= Size(current) /\ overlap >= MinimumOverlap)
       THEN [previous |-> previous, missing |-> missing, overlap |-> overlap]
       ELSE NoAdvisory
=============================================================================
