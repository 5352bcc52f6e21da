------------------------------ MODULE StepGraph ------------------------------
(***************************************************************************)
(* The graph of a definition's steps: ParseDAG of internal/engine, the     *)
(* check of internal/validation and the one of internal/expressions over   *)
(* the same steps.  A step id is a number, in the order of the ids; a step *)
(* lists the ids it depends on; Unknown is an id no step has.              *)
(***************************************************************************)
EXTENDS Integers, Sequences, FiniteSets, SequencesExt

CONSTANTS MaxSteps,   \* bound: steps of a definition with any list
          MaxLongest, \* bound: steps of one whose lists are sorted
          MaxDeps     \* bound: dependencies a step lists

Unknown == 0

ASSUME StepGraphAssumption ==
  MaxSteps \in Nat \ {0} /\ MaxLongest \in Nat \ {0} /\ MaxDeps \in Nat

VARIABLES
  definition, \* depends_on of each step
  dag,        \* what ParseDAG returned
  checked     \* what validateDAG returned

graphVars == <<definition, dag, checked>>

NotParsed == [error |-> "none", sorted |-> <<>>, levels |-> <<>>]
NotChecked == [done |-> FALSE, cycle |-> FALSE, unreachable |-> {}]

Lists(S) == UNION {[1..k -> S] : k \in 0..MaxDeps}
\* sortStrings, and the order in which a search goes through a set.
InOrder(S) ==
  [k \in 1..Cardinality(S) |-> CHOOSE x \in S : Cardinality({y \in S : y < x}) = k - 1]
Sorted(waits) == [i \in DOMAIN waits |-> InOrder(waits[i])]
Definitions ==
  (UNION {[1..n -> Lists(0..n)] : n \in 1..MaxSteps})
    \cup {Sorted(waits) : waits \in {w \in [1..MaxLongest -> SUBSET (1..MaxLongest)] :
                                      \A i \in 1..MaxLongest : i \notin w[i]}}

GraphInit ==
  /\ definition \in Definitions
  /\ dag = NotParsed /\ checked = NotChecked

-----------------------------------------------------------------------------
(* Kahn's algorithm, as ParseDAG runs it.  `pending' counts what a step    *)
(* still waits for; a dependent is queued when its count comes to zero.    *)

Dependents(d, n) == {i \in DOMAIN d : Contains(d[i], n)}

\* Faulty: every dependent is queued again each time.
DequeueEarly(d, s) ==
  LET n == Head(s.queue) IN
  [queue |-> Tail(s.queue) \o InOrder(Dependents(d, n)), pending |-> s.pending,
   sorted |-> Append(s.sorted, n)]

\* One step of the queue.
Dequeue(d, s) ==
  LET n == Head(s.queue)
      pending == [i \in DOMAIN d |->
                    s.pending[i] - (IF i \in Dependents(d, n) THEN 1 ELSE 0)]
  IN  [queue |-> Tail(s.queue)
                   \o InOrder({i \in Dependents(d, n) : pending[i] = 0}),
       pending |-> pending,
       sorted |-> Append(s.sorted, n)]

Turn(d, s) == IF s.queue = <<>> THEN s ELSE Dequeue(d, s)

Kahn(d) ==
  LET pending == [i \in DOMAIN d |-> Len(d[i])]
      run[k \in 0..Len(d)] ==
        IF k = 0
        THEN [queue |-> InOrder({i \in DOMAIN d : pending[i] = 0}),
              pending |-> pending, sorted |-> <<>>]
        ELSE Turn(d, run[k - 1])
  IN  run[Len(d)]

\* Faulty: the depth counts the dependencies.
DepthByCount(d, sorted) == [i \in DOMAIN d |-> Len(d[i])]

\* computeLevels: one more than the deepest dependency, in the order sorted.
Deepened(d, before, n) ==
  [before EXCEPT ![n] = Max({before[m] : m \in ToSet(d[n])} \cup {-1}) + 1]

Depth(d, sorted) ==
  LET upTo[k \in 0..Len(sorted)] ==
        IF k = 0 THEN [i \in DOMAIN d |-> 0] ELSE Deepened(d, upTo[k - 1], sorted[k])
  IN  upTo[Len(sorted)]

Levels(d, sorted) ==
  LET depth == Depth(d, sorted)
      filled[k \in 0..Len(sorted)] ==
        IF k = 0 THEN [l \in 1..(Max(ToSet(depth)) + 1) |-> <<>>]
        ELSE [filled[k - 1] EXCEPT ![depth[sorted[k]] + 1] = Append(@, sorted[k])]
  IN  filled[Len(sorted)]

\* The third pass: every reference is known, to another step, and once.  What is
\* told apart is that it refuses, not the code of the error: which of several it
\* meets first depends on the order of a map.
BadReference(d) ==
  \E i \in DOMAIN d : \/ Contains(d[i], Unknown) \/ Contains(d[i], i)
                      \/ \E j, k \in DOMAIN d[i] : j # k /\ d[i][j] = d[i][k]

ParseDAG(d) ==
  IF BadReference(d) THEN [NotParsed EXCEPT !.error = "reference"]
  ELSE LET sorted == Kahn(d).sorted IN
       IF Len(sorted) # Len(d) THEN [NotParsed EXCEPT !.error = "cycle"]
       ELSE [error |-> "none", sorted |-> sorted, levels |-> Levels(d, sorted)]

-----------------------------------------------------------------------------

\* validateDAG drops what it does not know or has seen, and keeps a step's
\* reference to itself, which makes a cycle.
Known(d) == Sorted([i \in DOMAIN d |-> ToSet(d[i]) \cap DOMAIN d])

\* The breadth-first search from the roots along the dependents.
Reached(d) ==
  LET grow[k \in 0..Len(d)] ==
        IF k = 0 THEN {i \in DOMAIN d : d[i] = <<>>}
        ELSE grow[k - 1] \cup UNION {Dependents(d, n) : n \in grow[k - 1]}
  IN  grow[Len(d)]

ValidateDAG(d) ==
  LET e == Known(d) IN
  IF Len(Kahn(e).sorted) # Len(d) THEN [done |-> TRUE, cycle |-> TRUE, unreachable |-> {}]
  ELSE [done |-> TRUE, cycle |-> FALSE, unreachable |-> DOMAIN d \ Reached(e)]

\* DetectCircularRefs, over the steps that each step's params name: a search
\* in depth that meets a step it has not left yet.  The code starts and goes
\* on in any order, the least first here.
Searches(refs) ==
  [color : [DOMAIN refs -> {"white", "gray", "black"}], circular : BOOLEAN]
Visits(refs) == [step : DOMAIN refs, search : Searches(refs)]

Colored(s, n, as) == [s EXCEPT !.color[n] = as]

\* A step that another one names: `visit' is the call for it.
Meet(s, m, visit) ==
  IF s.circular \/ s.color[m] = "black" THEN s
  ELSE IF s.color[m] = "gray" THEN [s EXCEPT !.circular = TRUE]
  ELSE visit[[step |-> m, search |-> s]]

\* A call, for a step and the search so far.
Visit(refs, c, visit) ==
  LET through[k \in 0..Len(refs[c.step])] ==
        IF k = 0 THEN Colored(c.search, c.step, "gray")
        ELSE Meet(through[k - 1], refs[c.step][k], visit)
      end == through[Len(refs[c.step])]
  IN  IF end.circular THEN end ELSE Colored(end, c.step, "black")

\* A call that goes at most k deep.  A search goes down through steps it has
\* not seen, so no deeper than there are steps.
DetectCircularRefs(refs) ==
  LET visit[k \in 0..Len(refs)] ==
        [c \in Visits(refs) |-> IF k = 0 THEN c.search ELSE Visit(refs, c, visit[k - 1])]
      upTo[k \in 0..Len(refs)] ==
        IF k = 0 THEN [color |-> [n \in DOMAIN refs |-> "white"], circular |-> FALSE]
        ELSE LET s == upTo[k - 1] IN
             IF s.circular \/ s.color[k] # "white" THEN s
             ELSE visit[Len(refs)][[step |-> k, search |-> s]]
  IN  upTo[Len(refs)].circular

-----------------------------------------------------------------------------

\* Run, Resume and the diagrams parse the definition every time ...
Parse == dag' = ParseDAG(definition) /\ UNCHANGED <<definition, checked>>

\* ... and the validator looks at one.
Validate == checked' = ValidateDAG(definition) /\ UNCHANGED <<definition, dag>>

GraphNext == Parse \/ Validate

GraphSpec == GraphInit /\ [][GraphNext]_graphVars

-----------------------------------------------------------------------------
(* The reference: what a step waits for is in every set of steps that has  *)
(* its dependencies and those of the members.                              *)

WaitsFor(d, i) ==
  {j \in DOMAIN d : \A C \in SUBSET DOMAIN d :
                      (\A c \in C \cup {i} : ToSet(d[c]) \subseteq C) => j \in C}

Cyclic(d) == \E i \in DOMAIN d : i \in WaitsFor(d, i)

Parsed == dag # NotParsed

\* ParseDAG accepts exactly the definitions whose references are good and in
\* which no step waits for itself (dag.go:81-142): the executor never runs a
\* graph that cannot end, and refuses none that can.
AcceptsAcyclic ==
  Parsed => CASE BadReference(definition) -> dag.error = "reference"
              [] ~BadReference(definition) /\ Cyclic(definition) -> dag.error = "cycle"
              [] OTHER -> dag.error = "none"

\* Every step is in one level, the levels before it hold all it waits for, and
\* one of them is in the level just before (dag.go:152-184): a level runs when
\* it can and not later.
LevelsRespectWaits ==
  Parsed /\ dag.error = "none" =>
    LET in(i) == {l \in DOMAIN dag.levels : Contains(dag.levels[l], i)}
        level(i) == CHOOSE l \in in(i) : TRUE
    IN  \A i \in DOMAIN definition :
          /\ Cardinality(in(i)) = 1
          /\ \A j \in WaitsFor(definition, i) : level(j) < level(i)
          /\ level(i) # 1 =>
               \E j \in WaitsFor(definition, i) : level(j) = level(i) - 1

\* The validator's verdict on cycles is the engine's wherever the engine gets
\* that far, and nothing it accepts is unreachable from a root: the warning
\* for steps that are (dag_check.go:96-102) cannot be given.
CheckAgrees ==
  checked.done => /\ checked.cycle = Cyclic(Known(definition))
                  /\ checked.unreachable = {}

\* The search for circular references finds one exactly if a step's params
\* lead back to it (interpolation.go:412-462).
CircularMeansCycle ==
  DetectCircularRefs(Known(definition)) <=> Cyclic(Known(definition))

\* The three searches for cycles, the engine's, the validator's and the one
\* over params, find those there are and no other.
CyclesAreFound == AcceptsAcyclic /\ CheckAgrees /\ CircularMeansCycle
=============================================================================
