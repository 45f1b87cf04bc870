------------------------------ MODULE DagOrder ------------------------------
(***************************************************************************)
(* _topological_order of backend/app/main.py, the check every submission   *)
(* passes and the order the executor walks.  A request's nodes are a       *)
(* sequence of records [node, deps]: a name and the sequence dependsOn, as *)
(* the client wrote it, so names may repeat and dependencies may repeat,   *)
(* be unknown or name the node itself.                                     *)
(***************************************************************************)
EXTENDS Integers, Sequences, FiniteSets

CONSTANT NoOrder   \* the answer None

ASSUME NoOrderAssumption == NoOrder \notin Seq(Nat)

DuplicateNode(steps) ==
    \E p, q \in DOMAIN steps : p # q /\ steps[p].node = steps[q].node

UnknownDependency(steps) ==
    \E q \in DOMAIN steps : \E i \in DOMAIN steps[q].deps :
        \A p \in DOMAIN steps : steps[p].node # steps[q].deps[i]

\* How often step p is in dependents for step q: once per entry of q's
\* dependsOn that names p.
Edges(steps, p, q) ==
    Cardinality({i \in DOMAIN steps[q].deps : steps[q].deps[i] = steps[p].node})

\* Mutant of Indegree: a repeated dependency is counted once.
IndegreeDistinct(steps) ==
    [q \in DOMAIN steps |-> Cardinality({steps[q].deps[i] : i \in DOMAIN steps[q].deps})]

Indegree(steps) == [q \in DOMAIN steps |-> Len(steps[q].deps)]

\* The positions in S, ascending, as both loops of the code visit them.
Ascending(S) ==
    CHOOSE seq \in [1 .. Cardinality(S) -> S] :
        \A i, j \in DOMAIN seq : i < j => seq[i] < seq[j]

\* Mutant of Place: a step is freed while one dependency is still open.
PlaceEarly(steps, s) ==
    LET p == Head(s.ready)
        open == [q \in DOMAIN steps |-> s.open[q] - Edges(steps, p, q)]
        freed == {q \in DOMAIN steps : Edges(steps, p, q) > 0 /\ open[q] <= 1}
    IN  [ready |-> Tail(s.ready) \o Ascending(freed),
         open  |-> open,
         order |-> Append(s.order, p)]

\* One round of the while loop: the head of ready is placed, and the steps
\* whose last open dependency it was become ready.
Place(steps, s) ==
    LET p == Head(s.ready)
        open == [q \in DOMAIN steps |-> s.open[q] - Edges(steps, p, q)]
        freed == {q \in DOMAIN steps : Edges(steps, p, q) > 0 /\ open[q] = 0}
    IN  [ready |-> Tail(s.ready) \o Ascending(freed),
         open  |-> open,
         order |-> Append(s.order, p)]

\* The loop begins with the steps that depend on nothing ...
Begin(steps) ==
    [ready |-> Ascending({q \in DOMAIN steps : Indegree(steps)[q] = 0}),
     open  |-> Indegree(steps),
     order |-> << >>]

\* ... and ends when no step is ready.
Round(steps, s) == IF s.ready = << >> THEN s ELSE Place(steps, s)

\* The state of the loop after so many rounds.
After(steps) ==
    LET after[n \in 0 .. Len(steps)] ==
            IF n = 0 THEN Begin(steps) ELSE Round(steps, after[n - 1])
    IN  after

_topological_order(steps) ==
    LET order == After(steps)[Len(steps)].order
    IN  IF \/ DuplicateNode(steps)
           \/ UnknownDependency(steps)
           \/ Len(order) # Len(steps)
        THEN NoOrder
        ELSE order

=============================================================================
