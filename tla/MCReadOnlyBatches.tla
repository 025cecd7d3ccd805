-------------------------- MODULE MCReadOnlyBatches --------------------------
(* Values for model checking ReadOnlyBatches. *)
EXTENDS ReadOnlyBatches

MCToolOf ==
    [a |-> "read", b |-> "read", c |-> "search", d |-> "read", e |-> "read",
     x |-> "change", f |-> "read", g |-> "search"]

\* b asks for what a asks for.
MCKeyOf == [MCToolOf EXCEPT !.a = 1, !.b = 1, !.c = 2, !.d = 3, !.e = 4, !.x = 5, !.f = 6, !.g = 7]

MCAsked == <<<<"a", "b", "c", "d">>, <<"e", "x", "f">>, <<"g">>>>

MCOthers == {"other"}
MCRuns == (DOMAIN MCToolOf \ {"x"}) \union MCOthers
MCCategoryOf == [r \in MCRuns |-> IF r = "other" THEN "search" ELSE MCToolOf[r]]

File(from, to) == [file |-> "file", from |-> from, to |-> to]

Short(lines) == [lines |-> lines, length |-> "short"]
Long(lines) == [lines |-> lines, length |-> "long"]
OverBudget(lines) == [lines |-> lines, length |-> "over_budget"]

\* What a read finds depends on the file, which only the request is known of.
MCFinds ==
    [a |-> {Short(File(1, 4)), OverBudget(File(1, 20))}, b |-> {},
     d |-> {Short(File(5, 9)), Long(File(1, 10))},
     e |-> {Long(File(1, 10)), Short(File(3, 6))},
     f |-> {Long(File(1, 10)), Short(File(1, 4))},
     c |-> {Long(NoLines)}, g |-> {Long(NoLines)}]
=============================================================================
