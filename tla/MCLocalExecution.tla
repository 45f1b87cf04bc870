-------------------------- MODULE MCLocalExecution --------------------------
(***************************************************************************)
(* Instances of LocalExecution for TLC.  The plans are requests as a client*)
(* writes them; the orders are what _topological_order makes of them.      *)
(***************************************************************************)
EXTENDS LocalExecution, TLC

D == INSTANCE DagOrder

Node(name, deps) == [node |-> name, deps |-> deps]

\* "reversed" lists a node before the one it depends on, "flat" has no
\* dependencies, and "cyclic" is refused.
Request == [reversed |-> <<Node("review", <<"draft">>), Node("draft", << >>)>>,
            flat     |-> <<Node("draft", << >>), Node("review", << >>)>>,
            cyclic   |-> <<Node("draft", <<"review">>), Node("review", <<"draft">>)>>]

MCPlans == DOMAIN Request
MCOrder == [pl \in MCPlans |-> D!_topological_order(Request[pl])]
MCDependsOn ==
    [pl \in MCPlans |-> [p \in 1 .. 2 |->
        {q \in 1 .. 2 : D!Edges(Request[pl], q, p) > 0}]]

\* The first step of "reversed" and the second of "flat" may be retried once.
MCMaxRetries ==
    [reversed |-> <<1, 0>>, flat |-> <<0, 1>>, cyclic |-> <<0, 0>>]

Symmetry == Permutations(RunIds)

=============================================================================
