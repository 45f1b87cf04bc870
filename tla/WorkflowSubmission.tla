------------------------- MODULE WorkflowSubmission -------------------------
(***************************************************************************)
(* A workflow is written node by node into an AgentRun, and after every    *)
(* node the API is asked for its verdict: after the projection of          *)
(* RunProjection, the schema and _topological_order.                       *)
(***************************************************************************)
EXTENDS DagOrder, RunProjection

CONSTANTS Names,      \* node names
          MaxNodes,   \* the most nodes the CRD takes
          MaxDeps,    \* bound on the entries of a node's dependsOn
          Tokens      \* spec.model.maxTokens, or 0: the CRD has no largest value

ASSUME WorkflowAssumption == MaxNodes \in Nat /\ MaxDeps \in Nat /\ Tokens \subseteq Nat

VARIABLE nodes

Init == nodes = << >>

AddNode(name, deps) ==
    /\ Len(nodes) < MaxNodes
    /\ nodes' = Append(nodes, [node |-> name, deps |-> deps])

Next == \E name \in Names, n \in 0 .. MaxDeps :
            \E deps \in [1 .. n -> Names] : AddNode(name, deps)

Spec == Init /\ [][Next]_nodes

-----------------------------------------------------------------------------
\* A reference for "is a DAG" that has no algorithm in it: names are unique,
\* dependencies exist, and no set of nodes is closed under "waits for another
\* node of the set", which in a finite graph is to say that there is no cycle.
WaitsFor(steps, p) ==
    {q \in DOMAIN steps : \E i \in DOMAIN steps[p].deps : steps[p].deps[i] = steps[q].node}

IsWorkflow(steps) ==
    /\ \A p, q \in DOMAIN steps : p # q => steps[p].node # steps[q].node
    /\ \A p \in DOMAIN steps : \A i \in DOMAIN steps[p].deps :
           \E q \in DOMAIN steps : steps[q].node = steps[p].deps[i]
    /\ ~\E S \in SUBSET DOMAIN steps :
           S # {} /\ \A p \in S : WaitsFor(steps, p) \cap S # {}

\* submit_run accepts exactly the workflows that are DAGs: Kahn's algorithm as
\* written, with its counters bumped once per repeated dependency, neither
\* gets stuck on a legal workflow nor drains a cyclic one.
AcceptsExactlyWorkflows == (_topological_order(nodes) # NoOrder) <=> IsWorkflow(nodes)

\* The order that execute_run walks names every step once and a step only after
\* all the steps it depends on.
OrderRespectsDependencies ==
    LET order == _topological_order(nodes)
    IN  order # NoOrder =>
            /\ Len(order) = Len(nodes)
            /\ \A p \in DOMAIN nodes : \E i \in DOMAIN order : order[i] = p
            /\ \A i \in DOMAIN order : \A q \in WaitsFor(nodes, order[i]) :
                   \E j \in 1 .. i - 1 : order[j] = q

Request(attempts, tokens) == Marshal(Nodes(nodes, attempts, tokens))

Accepted(request) == InSchema(request) /\ _topological_order(StepSpecs(request)) # NoOrder

\* An AgentRun that the CRD admits and whose references are valid is refused by
\* the API, and then submitted again for ever, only where the CRD is wider than
\* the schema of the API: in the number of nodes, a name's length or maxTokens.
RefusedOnlyBeyondLimits ==
    \A attempts \in Attempts, tokens \in Tokens :
        IsWorkflow(nodes) =>
            \/ Accepted(Request(attempts, tokens))
            \/ Len(nodes) > ApiMaxNodes
            \/ \E p \in DOMAIN nodes : nodes[p].node \in LongNames
            \/ tokens > ApiMaxTokens

\* "MaxAttempts caps execution attempts (1 = no retry)": on the way through two
\* optional fields a DAG keeps its nodes and dependencies, and every step gets
\* exactly the attempts of the retry policy.  A run without a DAG gets one
\* attempt whatever its retry policy says.
WorkflowSurvivesProjection ==
    \A attempts \in Attempts, tokens \in Tokens :
        LET steps == StepSpecs(Request(attempts, tokens))
        IN  IF nodes = << >>
            THEN Len(steps) = 1 /\ steps[1].deps = << >> /\ steps[1].max_retries = 0
            ELSE /\ DOMAIN steps = DOMAIN nodes
                 /\ \A p \in DOMAIN nodes :
                        /\ steps[p].node = nodes[p].node /\ steps[p].deps = nodes[p].deps
                        /\ steps[p].max_retries + 1 = attempts

=============================================================================
