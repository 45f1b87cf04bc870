---------------------------- MODULE DagValidation ----------------------------
(***************************************************************************)
(* validateDAG of controllers/agentrun_controller.go, the operator's check *)
(* of spec.dag before it submits a run, on a workflow that was written     *)
(* node by node.  It searches depth first for a cycle.  A call of visit    *)
(* that has not returned is a frame [node, next] of the stack: next is the *)
(* entry of the node's dependsOn that the loop comes to next.              *)
(***************************************************************************)
EXTENDS WorkflowSubmission

VARIABLES verdict,    \* "none", "searching", "valid", or "invalid": an error
          todo,       \* the nodes that the range over the map has still to yield
          stack,      \* the calls of visit under way, the innermost last
          visiting,   \* the two maps of the search
          visited

search == <<verdict, todo, stack, visiting, visited>>

vars == <<nodes, search>>

\* The keys of dependencies, and dependencies[name] for the only node of that
\* name.
Known(dag) == {dag[p].node : p \in DOMAIN dag}

dependencies(dag, name) == dag[CHOOSE p \in DOMAIN dag : dag[p].node = name].deps

\* The two loops before the search: no name is there twice, and every dependency
\* is a name.
WellFormed(dag) ==
    /\ \A p, q \in DOMAIN dag : dag[p].node = dag[q].node => p = q
    /\ \A p \in DOMAIN dag : \A i \in DOMAIN dag[p].deps : dag[p].deps[i] \in Known(dag)

-----------------------------------------------------------------------------
\* validateDAG up to its search.
validateDAG ==
    /\ verdict = "none"
    /\ \/ nodes = << >> /\ verdict' = "valid" /\ UNCHANGED todo
       \/ nodes # << >> /\ ~WellFormed(nodes) /\ verdict' = "invalid" /\ UNCHANGED todo
       \/ nodes # << >> /\ WellFormed(nodes) /\ verdict' = "searching" /\ todo' = Known(nodes)
    /\ UNCHANGED <<nodes, stack, visiting, visited>>

\* Mutant of visit: a node that is being visited is visited again.
VisitAgain(name, calls) ==
    \/ /\ name \in visited
       /\ stack' = calls
       /\ UNCHANGED <<verdict, visiting, visited>>
    \/ /\ name \notin visited
       /\ stack' = Append(calls, [node |-> name, next |-> 1])
       /\ visiting' = visiting \cup {name}
       /\ UNCHANGED <<verdict, visited>>

\* A call of visit by the last of calls, or by the range over the map.  An
\* error returns through all of them.
visit(name, calls) ==
    \/ /\ name \in visiting
       /\ verdict' = "invalid"
       /\ stack' = << >>
       /\ UNCHANGED <<visiting, visited>>
    \/ /\ name \notin visiting
       /\ name \in visited
       /\ stack' = calls
       /\ UNCHANGED <<verdict, visiting, visited>>
    \/ /\ name \notin visiting
       /\ name \notin visited
       /\ stack' = Append(calls, [node |-> name, next |-> 1])
       /\ visiting' = visiting \cup {name}
       /\ UNCHANGED <<verdict, visited>>

\* The range over the map yields a node; the order is Go's.
VisitNode ==
    /\ verdict = "searching" /\ stack = << >>
    /\ \E name \in todo : todo' = todo \ {name} /\ visit(name, stack)
    /\ UNCHANGED nodes

\* Mutant of VisitDependency: the loop does not go on to the next entry.
VisitSameDependency ==
    /\ verdict = "searching" /\ stack # << >>
    /\ LET call == stack[Len(stack)]
       IN  /\ call.next <= Len(dependencies(nodes, call.node))
           /\ visit(dependencies(nodes, call.node)[call.next], stack)
    /\ UNCHANGED <<nodes, todo>>

\* The loop of the innermost call comes to a dependency ...
VisitDependency ==
    /\ verdict = "searching" /\ stack # << >>
    /\ LET call == stack[Len(stack)]
       IN  /\ call.next <= Len(dependencies(nodes, call.node))
           /\ visit(dependencies(nodes, call.node)[call.next],
                    [stack EXCEPT ![Len(stack)].next = @ + 1])
    /\ UNCHANGED <<nodes, todo>>

\* Mutant of Return: visiting[node] stays true.
ReturnVisiting ==
    /\ verdict = "searching" /\ stack # << >>
    /\ LET call == stack[Len(stack)]
       IN  /\ call.next > Len(dependencies(nodes, call.node))
           /\ stack' = SubSeq(stack, 1, Len(stack) - 1)
           /\ visited' = visited \cup {call.node}
    /\ UNCHANGED <<nodes, verdict, todo, visiting>>

\* ... or has passed the last one, and the call returns nil.
Return ==
    /\ verdict = "searching" /\ stack # << >>
    /\ LET call == stack[Len(stack)]
       IN  /\ call.next > Len(dependencies(nodes, call.node))
           /\ stack' = SubSeq(stack, 1, Len(stack) - 1)
           /\ visiting' = visiting \ {call.node}
           /\ visited' = visited \cup {call.node}
    /\ UNCHANGED <<nodes, verdict, todo>>

\* Every node was visited, and no cycle was met.
Accept ==
    /\ verdict = "searching" /\ stack = << >> /\ todo = {}
    /\ verdict' = "valid"
    /\ UNCHANGED <<nodes, todo, stack, visiting, visited>>

-----------------------------------------------------------------------------
ValidationInit ==
    /\ Init
    /\ verdict = "none"
    /\ todo = {} /\ stack = << >> /\ visiting = {} /\ visited = {}

Search == VisitNode \/ VisitDependency \/ Return \/ Accept

ValidationNext ==
    \/ verdict = "none" /\ Next /\ UNCHANGED search
    \/ validateDAG
    \/ Search

\* The reconcile that runs the search goes on.
ValidationSpec == ValidationInit /\ [][ValidationNext]_vars /\ WF_vars(Search)

-----------------------------------------------------------------------------
\* Whatever order Go's map iteration takes, the operator and the API agree on
\* which workflows are DAGs, although their algorithms have nothing in common.
OperatorAgreesWithApi ==
    verdict \in {"valid", "invalid"} =>
        (verdict = "valid" <=> _topological_order(nodes) # NoOrder)

\* The recursion of visit is never deeper than the workflow has nodes, on
\* cyclic workflows too.
RecursionIsBounded == Len(stack) <= Len(nodes)

\* The search comes to a verdict on every workflow.
SearchEnds == verdict = "searching" ~> verdict \in {"valid", "invalid"}

=============================================================================
