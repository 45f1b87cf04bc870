--------------------------- MODULE RunProjection ----------------------------
(***************************************************************************)
(* How a workflow travels from an AgentRun to the steps of the ledger:     *)
(* reconcileSubmit projects spec.dag and the Agent into the nodes of a     *)
(* submission, the gateway encodes them as JSON, and submit_run of the API *)
(* checks them against its schema and turns them into step specs.  A field *)
(* that the encoding omits is Absent for the API.  Task, prompt, role and  *)
(* model decide nothing on the way and are left out.                       *)
(***************************************************************************)
EXTENDS Integers, Sequences

CONSTANTS LongNames,     \* names of 64 characters, one more than the API takes
          ApiMaxNodes,   \* the most nodes the API takes
          ApiMaxTokens,  \* the largest maxTokens the API takes
          Absent         \* a field that is not in the JSON document

\* The node of a run without a DAG has a short name, and is one node.
ASSUME LimitsAssumption ==
    /\ "main" \notin LongNames
    /\ ApiMaxNodes \in Nat \ {0}
    /\ ApiMaxTokens \in Nat
    /\ Absent \notin Nat

\* spec.retryPolicy.maxAttempts, as the CRD bounds it, and what the API takes.
Attempts == 1 .. 5
ApiRetries == 0 .. 5

\* Mutant of Nodes: every attempt is counted as a retry.
NodesRetryOnceMore(dag, attempts, tokens) ==
    IF dag = << >>
    THEN <<[node |-> "main", deps |-> << >>, maxTokens |-> tokens, maxRetries |-> Absent]>>
    ELSE [p \in DOMAIN dag |->
             [node |-> dag[p].node, deps |-> dag[p].deps, maxTokens |-> tokens,
              maxRetries |-> IF attempts > 1 THEN attempts ELSE Absent]]

\* The nodes of a submission: those of spec.dag with the retry policy, or one
\* node that stands for the whole run and has no retry policy.
Nodes(dag, attempts, tokens) ==
    IF dag = << >>
    THEN <<[node |-> "main", deps |-> << >>, maxTokens |-> tokens, maxRetries |-> Absent]>>
    ELSE [p \in DOMAIN dag |->
             [node |-> dag[p].node, deps |-> dag[p].deps, maxTokens |-> tokens,
              maxRetries |-> IF attempts > 1 THEN attempts - 1 ELSE Absent]]

\* Mutant of Marshal: maxTokens has no omitempty.
MarshalZero(nodes) == nodes

\* json.Marshal with omitempty: no maxTokens is written for an Agent without
\* one.  maxRetries is a pointer, and an empty dependsOn is the API's default.
Marshal(nodes) ==
    [p \in DOMAIN nodes |->
        [nodes[p] EXCEPT !.maxTokens = IF @ = 0 THEN Absent ELSE @]]

\* The schema of RunNode and SubmitRun.
InSchema(request) ==
    /\ Len(request) <= ApiMaxNodes
    /\ \A p \in DOMAIN request :
           /\ request[p].node \notin LongNames
           /\ request[p].maxTokens \in {Absent} \cup 1 .. ApiMaxTokens
           /\ request[p].maxRetries \in {Absent} \cup ApiRetries

\* The step specs that submit_run makes of a request.
StepSpecs(request) ==
    IF request = << >> THEN <<[node |-> "run", deps |-> << >>, max_retries |-> 0]>>
    ELSE [p \in DOMAIN request |->
             [node |-> request[p].node, deps |-> request[p].deps,
              max_retries |-> IF request[p].maxRetries = Absent THEN 0
                              ELSE request[p].maxRetries]]

=============================================================================
