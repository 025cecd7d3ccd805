--------------------------- MODULE ReadOnlyBatches ---------------------------
(***************************************************************************)
(* The read-only tool calls of one turn: the groups its steps are executed *)
(* in, the batches of calls that run through the limiter (which calls of   *)
(* subagents use at the same time), calls that are not executed because an *)
(* identical one is, the advisory added to a read of lines that have been  *)
(* shown, and the requests in which the results come back to the model.    *)
(*                                                                         *)
(* The code runs on one thread: a step goes from one wait to the next.     *)
(* Starting a batch asks for the slots of all its calls without a wait in  *)
(* between; here it is one step per call, and nothing else moves until the *)
(* batch has started.                                                      *)
(***************************************************************************)
EXTENDS ReadOnlyToolCallLimiter, ReadCoverage, ToolResultReplay

CONSTANTS
    Others,     \* the limiter's runs that belong to subagents
    Asked,      \* for each step of the turn, the calls the model asks for
    ToolOf,     \* the tool of each call: "read", "search" or "change"
    KeyOf,      \* createReadOnlyToolCallExecutionKey
    Finds       \* what each inspection may find: a range of lines, or none, and how long it is

Calls == DOMAIN ToolOf
Inspections == {c \in Calls : ToolOf[c] # "change"}

Nothing == [kind |-> "none"]
NoLines == [file |-> "none", from |-> 1, to |-> 0]

ASSUME CallsAssumption ==
    /\ Runs = Inspections \union Others
    /\ Inspections \intersect Others = {}
    /\ \A c \in Inspections : CategoryOf[c] = ToolOf[c]

\* A call has an id of its own, within its step and in the turn.
ASSUME AskedAssumption ==
    /\ Asked \in Seq(Seq(Calls)) /\ Asked # <<>>
    /\ \A s \in DOMAIN Asked : IsInjective(Asked[s])
    /\ \A s, t \in DOMAIN Asked : s # t => ToSet(Asked[s]) \intersect ToSet(Asked[t]) = {}

\* The lines of a read that shows any.
ASSUME FindsAssumption ==
    \A c \in Inspections : \A x \in Finds[c] :
        x.lines # NoLines =>
            x.lines \in [file : {x.lines.file}, from : Nat, to : Nat] /\ x.lines.from <= x.lines.to

VARIABLES
    step,        \* index of the response step
    group,       \* index of the execution group in it
    phase,       \* where the turn stands
    toStart,     \* the calls of the batch that are still to ask for a slot
    found,       \* what the operation of each call came to, before it is answered
    answer,      \* the result of each call as the model gets it
    coverage,    \* SameTurnReadCoverageTracker: ranges with their calls
    version,     \* how often the turn has changed the workspace
    interrupted,
    \* the provider's side
    crossStep,   \* BULI_OPENAI_CROSS_STEP_TOOL_RESULT_REFERENCES
    items,       \* the tool results of the turn so far
    counts,      \* inputItemCountByBuiltRequestIndex
    request,     \* the tool results as the last request shows them
    \* history variables
    seen,        \* lines the turn has been shown since it last changed the workspace
    told         \* in how many requests the text of each call's result was

turn     == <<step, group, phase>>
batch    == <<toStart, found, answer>>
provider == <<items, counts, request, told>>
limiter  == <<stage, activeCount, activeOf, pending>>
allVars  == <<limiter, turn, batch, coverage, version, interrupted, crossStep, provider, seen>>

BatchInit ==
    /\ Init
    /\ step = 1 /\ group = 1 /\ phase = "group"
    /\ toStart = {}
    /\ found = [c \in Calls |-> Nothing]
    /\ answer = [c \in Calls |-> Nothing]
    /\ coverage = <<>>
    /\ version = 0
    /\ interrupted = FALSE
    /\ crossStep \in BOOLEAN
    /\ items = <<>> /\ counts = <<0>> /\ request = <<>>
    /\ seen = {}
    /\ told = [c \in Calls |-> 0]

-----------------------------------------------------------------------------
(* Groups, and the calls that stand for their duplicates.                  *)

\* groupRequestedToolCallsForExecution: a change is a group of its own, the
\* inspections between two changes are one.
Groups(calls) ==
    LET Put(groups, c) ==
            IF /\ groups # <<>>
               /\ ToolOf[c] # "change"
               /\ ToolOf[Last(Last(groups))] # "change"
            THEN [groups EXCEPT ![Len(groups)] = Append(@, c)]
            ELSE Append(groups, <<c>>)
    IN FoldLeft(Put, <<>>, calls)

StepGroups == Groups(Asked[step])
Current == StepGroups[group]

\* The call of the batch that is executed for c.
Canonical(c) == Current[SelectInSeq(Current, LAMBDA d : KeyOf[d] = KeyOf[c])]
Canonicals == {c \in ToSet(Current) : Canonical(c) = c}
DuplicatesOf(c) == {d \in ToSet(Current) : d # c /\ Canonical(d) = c}

-----------------------------------------------------------------------------
(* A batch.                                                                *)

StartBatch ==
    /\ phase = "group"
    /\ group <= Len(StepGroups)
    /\ ToolOf[Current[1]] # "change"
    /\ ~interrupted
    /\ phase' = "starting"
    /\ toStart' = Canonicals
    /\ UNCHANGED <<limiter, step, group, found, answer, coverage, version,
                   interrupted, crossStep, provider, seen>>

\* They ask in the order in which the model has asked for them.
NextToStart == Current[SelectInSeq(Current, LAMBDA c : c \in toStart)]

StartCall ==
    /\ phase = "starting"
    /\ Acquire(NextToStart) \/ Enqueue(NextToStart)
    /\ toStart' = toStart \ {NextToStart}
    /\ phase' = IF toStart' = {} THEN "looping" ELSE "starting"
    /\ UNCHANGED <<step, group, found, answer, coverage, version,
                   interrupted, crossStep, provider, seen>>

\* A call goes on with its slot, one of this turn or of another.
RunStarts(r) ==
    /\ phase # "starting"
    /\ Start(r)
    /\ UNCHANGED <<turn, batch, coverage, version, interrupted, crossStep, provider, seen>>

\* What the operation of c can come to: an aborted one throws.
Findings(c) ==
    {[kind |-> "completed", content |-> x, version |-> version] : x \in Finds[c]}
    \union (IF interrupted THEN {[kind |-> "failed"], [kind |-> "thrown"]} ELSE {[kind |-> "failed"]})

OperationEnds(c) ==
    /\ phase # "starting"
    /\ Settle(c)
    /\ found' \in {[found EXCEPT ![c] = f] : f \in Findings(c)}
    /\ UNCHANGED <<turn, toStart, answer, coverage, version, interrupted, crossStep,
                   provider, seen>>

\* The top of the loop: with calls to wait for it looks for an interruption and
\* waits, without them it waits for the submissions.
Loop ==
    /\ phase = "looping"
    /\ phase' = IF \A c \in Canonicals : answer[c] # Nothing THEN "submitting"
                ELSE IF interrupted THEN "throwing" ELSE "racing"
    /\ UNCHANGED <<limiter, step, group, batch, coverage, version, interrupted, crossStep, provider, seen>>

\* The text of a result that fits the provider's budget is what was found; of one
\* that does not, a note that it was too long.
IsCovering(f) == f.kind = "completed" /\ f.content.length # "over_budget" /\ f.content.lines # NoLines

ReadBy(c, lines) == [file |-> lines.file, from |-> lines.from, to |-> lines.to, call |-> c]

ResultOf(c, f) ==
    CASE f.kind = "failed" -> f
      [] f.kind = "completed" /\ f.content.length = "over_budget" -> [kind |-> "over_budget", of |-> c]
      [] OTHER -> [kind |-> "completed", content |-> f.content, version |-> f.version,
                   advisory |-> IF IsCovering(f) THEN Advisory(f.content.lines, coverage) ELSE NoAdvisory,
                   of |-> c]

\* A duplicate of a completed call is told to use its result.
DuplicateResult(c, f) == IF f.kind = "completed" THEN [kind |-> "duplicate", of |-> c] ELSE f

\* One of the settled calls won the race: its result and those of its duplicates
\* are recorded, shown and submitted, one after the other.
Answer(c) ==
    LET f == found[c]
        answered == {c} \union DuplicatesOf(c)
    IN /\ phase = "racing"
       /\ c \in Canonicals
       /\ f # Nothing
       /\ answer[c] = Nothing
       /\ \/ /\ interrupted \/ f.kind = "thrown"
             /\ phase' = "throwing"
             /\ UNCHANGED <<answer, coverage, seen>>
          \/ /\ ~interrupted /\ f.kind # "thrown"
             /\ phase' = "looping"
             /\ answer' = [d \in Calls |-> IF d = c THEN ResultOf(c, f)
                                           ELSE IF d \in answered THEN DuplicateResult(c, f)
                                           ELSE answer[d]]
             /\ IF IsCovering(f)
                THEN /\ coverage' = Append(coverage, ReadBy(c, f.content.lines))
                     /\ seen' = seen \union {<<f.content.lines.file, l>> : l \in LinesOf(f.content.lines)}
                ELSE UNCHANGED <<coverage, seen>>
       /\ UNCHANGED <<limiter, step, group, toStart, found, version, interrupted, crossStep, provider>>

\* All submissions of the batch have settled, which is all it waits for: it ends,
\* or throws the error of one the provider has refused or the one it has caught.
BatchEnds ==
    /\ phase \in {"submitting", "throwing"}
    /\ \/ phase' = "failed" /\ UNCHANGED group
       \/ phase = "submitting" /\ phase' = "group" /\ group' = group + 1
    /\ UNCHANGED <<limiter, step, batch, coverage, version, interrupted, crossStep, provider, seen>>

-----------------------------------------------------------------------------
(* A call that may change the workspace, and the next request.             *)

\* Seeded fault: the ranges stay.
ChangeKeepingCoverage ==
    /\ phase = "group"
    /\ group <= Len(StepGroups)
    /\ ToolOf[Current[1]] = "change"
    /\ ~interrupted
    /\ group' = group + 1
    /\ answer' = [answer EXCEPT ![Current[1]] = [kind |-> "done"]]
    /\ seen' = {}
    /\ \E changed \in {0, 1} : version' = version + changed
    /\ UNCHANGED <<limiter, step, phase, toStart, found, coverage, interrupted, crossStep, provider>>

\* The tracker is cleared first, whatever the call then does.
Change ==
    /\ phase = "group"
    /\ group <= Len(StepGroups)
    /\ ToolOf[Current[1]] = "change"
    /\ ~interrupted
    /\ coverage' = <<>>
    /\ group' = group + 1
    /\ answer' = [answer EXCEPT ![Current[1]] = [kind |-> "done"]]
    /\ seen' = {}
    /\ \E changed \in {0, 1} : version' = version + changed
    /\ UNCHANGED <<limiter, step, phase, toStart, found, interrupted, crossStep, provider>>

\* Results with the same text have the same text here; those that name a call
\* are the ones that differ by it.
TextOf(a) ==
    IF a.kind = "completed" /\ a.advisory = NoAdvisory THEN <<"found", a.content, a.version>>
    ELSE <<"other", a>>
IsLong(a) == a.kind = "completed" /\ a.content.length = "long"

\* The provider has the results of the step: it appends them in the order of the
\* calls and builds the next request.
BuildRequest ==
    LET results == [i \in DOMAIN Asked[step] |->
                      [call |-> Asked[step][i], text |-> TextOf(answer[Asked[step][i]]),
                       long |-> IsLong(answer[Asked[step][i]])]]
        all == items \o results
        shown == Shown(all, counts, crossStep)
    IN /\ phase = "group"
       /\ group > Len(StepGroups)
       /\ ~interrupted
       /\ items' = all
       /\ counts' = Append(counts, Len(all))
       /\ request' = shown
       /\ told' = [c \in Calls |-> told[c] +
                     IF \E i \in DOMAIN all : all[i].call = c /\ shown[i].as # "cross_step" THEN 1 ELSE 0]
       /\ IF step = Len(Asked) THEN phase' = "ended" /\ UNCHANGED <<step, group>>
          ELSE step' = step + 1 /\ group' = 1 /\ UNCHANGED phase
       /\ UNCHANGED <<limiter, batch, coverage, version, interrupted, crossStep, seen>>

-----------------------------------------------------------------------------
(* The turn is interrupted; subagents' calls.                              *)

Interrupt ==
    /\ phase \notin {"starting", "ended", "failed"}
    /\ ~interrupted
    /\ interrupted' = TRUE
    /\ UNCHANGED <<limiter, turn, batch, coverage, version, crossStep, provider, seen>>

\* Between two groups an interruption ends the turn.
EndInterrupted ==
    /\ phase = "group"
    /\ interrupted
    /\ phase' = "failed"
    /\ UNCHANGED <<limiter, step, group, batch, coverage, version, interrupted, crossStep, provider, seen>>

OtherAsks(r) ==
    /\ phase # "starting"
    /\ Acquire(r) \/ Enqueue(r)
    /\ UNCHANGED <<turn, batch, coverage, version, interrupted, crossStep, provider, seen>>

OtherSettles(r) ==
    /\ phase # "starting"
    /\ Settle(r)
    /\ UNCHANGED <<turn, batch, coverage, version, interrupted, crossStep, provider, seen>>

BatchNext ==
    \/ StartBatch \/ StartCall \/ Loop \/ BatchEnds
    \/ \E c \in Inspections : OperationEnds(c) \/ Answer(c)
    \/ \E r \in Runs : RunStarts(r)
    \/ Change \/ BuildRequest \/ Interrupt \/ EndInterrupted
    \/ \E r \in Others : OtherAsks(r) \/ OtherSettles(r)

\* What the loop of a batch does next, without what it does to the results.
LoopMoves ==
    \/ phase = "starting" /\ toStart' \in {toStart \ {c} : c \in toStart} /\ phase' \in {"starting", "looping"}
    \/ phase = "looping" /\ phase' \in {"submitting", "throwing", "racing"} /\ UNCHANGED toStart
    \/ /\ phase = "racing"
       /\ \E c \in Inspections : found[c] # Nothing /\ answer[c] = Nothing
       /\ phase' \in {"looping", "throwing"} /\ UNCHANGED toStart
    \/ phase \in {"submitting", "throwing"} /\ phase' \in {"group", "failed"} /\ UNCHANGED toStart

\* Microtasks run, every operation settles (the limiter's assumption) and the
\* provider says what became of a result, so a loop that can move does.  Nobody
\* need ask for anything.
BatchFairness == WF_<<phase, toStart>>(LoopMoves) /\ Fairness

BatchSpec == BatchInit /\ [][BatchNext]_allVars /\ BatchFairness
-----------------------------------------------------------------------------
Phases == {"group", "starting", "looping", "racing", "submitting", "throwing", "ended", "failed"}

\* The types, and that no call is answered before an operation has ended.
BatchTypeOK ==
    /\ TypeOK
    /\ step \in DOMAIN Asked
    /\ group \in 1 .. Len(StepGroups) + 1
    /\ phase \in Phases
    /\ toStart \subseteq Inspections
    /\ \A c \in Inspections : answer[c] # Nothing =>
          \E d \in Inspections : KeyOf[d] = KeyOf[c] /\ found[d] # Nothing
    /\ \A i \in DOMAIN coverage : coverage[i].call \in Inspections /\ coverage[i].from <= coverage[i].to
    /\ Len(request) = Len(items)
    /\ counts[Len(counts)] = Len(items)

\* Every call a request shows has a result, and the model can get at what every
\* completed one found: the request shows the result exactly, or sends the model
\* to an earlier result of the same request with the very same text, or to a text
\* it was given in two requests before; and an unexecuted duplicate points to a
\* call of which this holds.
EvidenceIsReachable ==
    LET Reached(i) ==
            CASE request[i].as = "exact" -> TRUE
              [] request[i].as = "duplicate" ->
                    \E j \in 1 .. i - 1 : /\ items[j].call = request[i].of /\ request[j].as = "exact"
                                         /\ items[j].text = items[i].text
              [] request[i].as = "cross_step" -> told[items[i].call] >= 2
    IN \A i \in DOMAIN request :
        LET a == answer[items[i].call]
        IN /\ a # Nothing /\ Reached(i)
           /\ a.kind = "duplicate" =>
                \E j \in DOMAIN request :
                    items[j].call = a.of /\ answer[a.of].kind \in {"completed", "over_budget"} /\ Reached(j)

\* An advisory tells the truth: the lines it does not name as missing are lines the
\* turn was shown since it last changed the workspace, those it names were not,
\* and it is given when all lines were shown, or half of them and not too few.
AdvisoriesAreTrue ==
    [][\A c \in Inspections :
        (answer[c] = Nothing /\ answer'[c].kind = "completed" /\ answer'[c].content.lines # NoLines) =>
            LET lines == answer'[c].content.lines
                known == {l \in LinesOf(lines) : <<lines.file, l>> \in seen}
                advisory == answer'[c].advisory
                due == \/ known = LinesOf(lines)
                       \/ 2 * Cardinality(known) >= Size(lines) /\ Cardinality(known) >= MinimumOverlap
            IN IF due
               THEN /\ UNION {LinesOf(m) : m \in ToSet(advisory.missing)} = LinesOf(lines) \ known
                    /\ advisory.overlap = Cardinality(known)
               ELSE advisory = NoAdvisory]_allVars

\* A batch ends, whatever calls of subagents compete with its own, also when the
\* turn is interrupted or an operation fails; and theirs start.
EveryBatchEnds ==
    /\ phase = "starting" ~> phase \in {"group", "ended", "failed"}
    /\ \A r \in Others : CallStarts(r)
=============================================================================
