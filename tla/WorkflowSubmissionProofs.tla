---------------------- MODULE WorkflowSubmissionProofs ----------------------
(***************************************************************************)
(* What becomes of a workflow on its way to the ledger, for any number of  *)
(* nodes, names and dependencies and any limits.                           *)
(***************************************************************************)
EXTENDS WorkflowSubmission, DagOrderProofs

-----------------------------------------------------------------------------
(***************************************************************************)
(* _topological_order, for any request.                                    *)
(***************************************************************************)
\* A list of positions in which every one is behind the ones it depends on.
Sound(steps, order) ==
    /\ order \in Seq(DOMAIN steps) /\ Once(order)
    /\ \A k \in 1 .. Len(order) : \A i \in DOMAIN steps[order[k]].deps :
           \E j \in 1 .. k - 1 : steps[order[j]].node = steps[order[k]].deps[i]

\* The answer is such a list, and has all positions.
LEMMA OrderShape ==
    ASSUME NEW steps, IsRequest(steps), NEW order, order = _topological_order(steps),
           order # NoOrder
    PROVE  /\ ~DuplicateNode(steps) /\ ~UnknownDependency(steps)
           /\ Sound(steps, order) /\ Len(order) = Len(steps)
<1> PICK s : s = After(steps)[Len(steps)]
  OBVIOUS
<1>1. /\ ~DuplicateNode(steps) /\ ~UnknownDependency(steps)
      /\ order = s.order /\ Len(order) = Len(steps)
  BY DEF _topological_order
<1>2. LoopInv(steps, s, Len(steps))
  <2>1. Len(steps) \in 0 .. Len(steps)
    BY DEF IsRequest
  <2> QED
    BY <1>1, <2>1, LoopInvariant
<1> QED
  BY <1>1, <1>2 DEF LoopInv, Sound

\* A list as long as the request that has no position twice has them all.
LEMMA OrderCovers ==
    ASSUME NEW n \in Nat, NEW order \in Seq(1 .. n), Len(order) = n, Once(order)
    PROVE  \A p \in 1 .. n : \E i \in 1 .. n : order[i] = p
<1>1. order \in Injection(1 .. n, 1 .. n)
  <2>1. order \in [1 .. n -> 1 .. n]
    OBVIOUS
  <2> QED
    BY <2>1 DEF Injection, IsInjective, Once
<1>2. order \in Surjection(1 .. n, 1 .. n)
  BY <1>1, IntervalCounts, FS_Injection
<1> QED
  BY <1>2 DEF Surjection

\* The same in terms of positions, where no name is that of two of them.
Behind(steps, order) ==
    \A k \in 1 .. Len(order) : \A q \in WaitsFor(steps, order[k]) :
        \E j \in 1 .. k - 1 : order[j] = q

LEMMA OrderPrecedes ==
    ASSUME NEW steps, ~DuplicateNode(steps), NEW order, Sound(steps, order)
    PROVE  Behind(steps, order)
<1> SUFFICES ASSUME NEW k \in 1 .. Len(order), NEW q \in WaitsFor(steps, order[k])
             PROVE  \E j \in 1 .. k - 1 : order[j] = q
  BY DEF Behind
<1>1. /\ order \in Seq(DOMAIN steps)
      /\ \A i \in DOMAIN steps[order[k]].deps :
             \E j \in 1 .. k - 1 : steps[order[j]].node = steps[order[k]].deps[i]
  BY DEF Sound
<1>2. PICK i \in DOMAIN steps[order[k]].deps : steps[order[k]].deps[i] = steps[q].node
  BY DEF WaitsFor
<1>3. PICK j \in 1 .. k - 1 : steps[order[j]].node = steps[q].node
  BY <1>1, <1>2
<1>4. order[j] \in DOMAIN steps /\ q \in DOMAIN steps
  <2>1. j \in 1 .. Len(order)
    BY <1>1
  <2> QED
    BY <1>1, <2>1 DEF WaitsFor
<1> QED
  BY <1>1, <1>3, <1>4 DEF DuplicateNode

\* An accepted request is a workflow: a set of steps that wait for each other
\* would have a first one in the order.
LEMMA AcceptedIsWorkflow ==
    ASSUME NEW steps, IsRequest(steps), _topological_order(steps) # NoOrder
    PROVE  IsWorkflow(steps)
<1> PICK order : order = _topological_order(steps)
  OBVIOUS
<1> PICK n : n = Len(steps)
  OBVIOUS
<1>0. order # NoOrder
  OBVIOUS
<1>1. /\ ~DuplicateNode(steps) /\ ~UnknownDependency(steps)
      /\ Sound(steps, order) /\ Len(order) = n /\ n \in Nat /\ DOMAIN steps = 1 .. n
  BY <1>0, OrderShape DEF IsRequest
<1>2. \A p \in 1 .. n : \E i \in 1 .. n : order[i] = p
  <2>1. n \in Nat /\ order \in Seq(1 .. n) /\ Len(order) = n /\ Once(order)
    BY <1>1 DEF Sound
  <2> QED
    BY ONLY <2>1, OrderCovers
<1>3. ASSUME NEW S \in SUBSET DOMAIN steps, S # {}, \A p \in S : WaitsFor(steps, p) \cap S # {}
      PROVE  FALSE
  <2> DEFINE I == {i \in 1 .. n : order[i] \in S}
  <2>1. I # {} /\ I \in SUBSET Nat
    <3>1. PICK p \in 1 .. n : p \in S
      BY <1>1, <1>3
    <3>2. PICK i \in 1 .. n : order[i] = p
      BY <1>2
    <3>3. i \in I
      BY <3>1, <3>2
    <3>4. \A x \in I : x \in Nat
      BY <1>1
    <3> QED
      BY <3>3, <3>4
  <2>2. PICK k \in I : \A i \in I : k <= i
    BY ONLY <2>1, LeastElement
  <2>3. PICK q \in WaitsFor(steps, order[k]) : q \in S
    BY <1>3, <2>2
  <2>4. k \in 1 .. Len(order)
    BY <1>1, <2>2
  <2>5. PICK j \in 1 .. k - 1 : order[j] = q
    <3>1. Behind(steps, order)
      BY <1>1, OrderPrecedes
    <3> QED
      BY <2>3, <2>4, <3>1 DEF Behind
  <2>6. j \in I
    BY <1>1, <2>3, <2>4, <2>5
  <2> QED
    BY <2>2, <2>4, <2>5, <2>6
<1>4. \A p, q \in DOMAIN steps : p # q => steps[p].node # steps[q].node
  BY <1>1 DEF DuplicateNode
<1>5. \A p \in DOMAIN steps : \A i \in DOMAIN steps[p].deps :
          \E q \in DOMAIN steps : steps[q].node = steps[p].deps[i]
  BY <1>1 DEF UnknownDependency
<1> QED
  BY <1>3, <1>4, <1>5 DEF IsWorkflow

\* A workflow is accepted: if the loop ends early, the steps that it has not
\* placed wait for each other.
LEMMA WorkflowIsAccepted ==
    ASSUME NEW steps, IsRequest(steps), IsWorkflow(steps)
    PROVE  _topological_order(steps) # NoOrder
<1> PICK n : n = Len(steps)
  OBVIOUS
<1> PICK s : s = After(steps)[n]
  OBVIOUS
<1> PICK order : order = s.order
  OBVIOUS
<1>1. n \in Nat /\ DOMAIN steps = 1 .. n
  BY DEF IsRequest
<1>2. ~DuplicateNode(steps) /\ ~UnknownDependency(steps)
  BY DEF IsWorkflow, DuplicateNode, UnknownDependency
<1>3. LoopInv(steps, s, n)
  <2>1. n \in 0 .. n
    BY <1>1
  <2> QED
    BY <1>2, <2>1, LoopInvariant
<1>4. order \in Seq(1 .. n) /\ Len(order) \in Nat /\ Len(order) <= n
  BY <1>1, <1>3 DEF LoopInv
<1>5. ASSUME Len(order) # n PROVE FALSE
  <2> DEFINE S == DOMAIN steps \ Listed(order)
  <2>1. s.ready = << >> /\ Len(order) < n
    BY <1>3, <1>5 DEF LoopInv
  <2>2. S # {}
    <3> SUFFICES ASSUME S = {} PROVE FALSE
      OBVIOUS
    <3>1. order \in [1 .. Len(order) -> 1 .. n]
      BY <1>4
    <3>2. \A p \in 1 .. n : \E i \in 1 .. Len(order) : order[i] = p
      BY <1>1 DEF Listed
    <3>3. order \in Surjection(1 .. Len(order), 1 .. n)
      BY <3>1, <3>2 DEF Surjection
    <3>4. Cardinality(1 .. n) <= Len(order)
      BY <1>4, <3>3, FS_SurjCardinalityBound DEF ExistsSurjection
    <3> QED
      BY <1>1, <1>4, <2>1, <3>4, IntervalCounts
  <2>3. ASSUME NEW p \in S PROVE WaitsFor(steps, p) \cap S # {}
    <3>1. Listed(s.ready) = {}
      BY <2>1 DEF Listed
    <3>2. Pending(steps, Listed(order), p) # {}
      <4>1. s.open[p] # 0 /\ s.open[p] = Cardinality(Pending(steps, Listed(order), p))
        BY <1>3, <3>1 DEF LoopInv
      <4>2. p \in DOMAIN steps
        OBVIOUS
      <4> QED
        BY <4>1, <4>2, PendingCounts
    <3>3. PICK i \in DOMAIN steps[p].deps : \A r \in Listed(order) : steps[r].node # steps[p].deps[i]
      BY <3>2 DEF Pending
    <3>4. PICK q \in DOMAIN steps : steps[q].node = steps[p].deps[i]
      BY DEF IsWorkflow
    <3>5. q \in S /\ q \in WaitsFor(steps, p)
      BY <3>3, <3>4 DEF WaitsFor
    <3> QED
      BY <3>5
  <2> QED
    BY <2>2, <2>3 DEF IsWorkflow
<1>6. order # NoOrder
  <2>1. order \in Seq(Nat)
    BY <1>4
  <2> QED
    BY <2>1, NoOrderAssumption
<1> QED
  BY <1>2, <1>5, <1>6 DEF _topological_order

\* What RunLedger assumes of the order of an accepted plan (OrderAssumption) is
\* true of what _topological_order computes: every step once, and each behind
\* the steps it depends on.
THEOREM OrderSuitsLedger ==
    ASSUME NEW steps, IsRequest(steps), _topological_order(steps) # NoOrder
    PROVE  LET order == _topological_order(steps)
           IN  /\ \A i, j \in 1 .. Len(steps) : order[i] = order[j] => i = j
               /\ \A p \in 1 .. Len(steps) : \E i \in 1 .. Len(steps) : order[i] = p
               /\ \A i \in 1 .. Len(steps) : \A d \in WaitsFor(steps, order[i]) :
                      \E j \in 1 .. i - 1 : order[j] = d
<1> PICK order : order = _topological_order(steps)
  OBVIOUS
<1>1. order # NoOrder
  OBVIOUS
<1>2. /\ ~DuplicateNode(steps) /\ Sound(steps, order) /\ Len(order) = Len(steps)
      /\ Len(steps) \in Nat /\ DOMAIN steps = 1 .. Len(steps)
  BY <1>1, OrderShape DEF IsRequest
<1>3. order \in Seq(1 .. Len(steps)) /\ Once(order)
  BY <1>2 DEF Sound
<1>4. \A i, j \in 1 .. Len(steps) : order[i] = order[j] => i = j
  BY <1>2, <1>3 DEF Once
<1>5. \A p \in 1 .. Len(steps) : \E i \in 1 .. Len(steps) : order[i] = p
  BY ONLY <1>2, <1>3, OrderCovers
<1>6. Behind(steps, order)
  BY <1>2, OrderPrecedes
<1>7. \A i \in 1 .. Len(steps) : \A d \in WaitsFor(steps, order[i]) :
          \E j \in 1 .. i - 1 : order[j] = d
  BY <1>2, <1>6 DEF Behind
<1> QED
  BY <1>4, <1>5, <1>7

-----------------------------------------------------------------------------
(***************************************************************************)
(* The nodes as they are written.                                          *)
(***************************************************************************)
Typed == nodes \in Seq([node : Names, deps : Seq(Names)])

LEMMA TypedInit == Init => Typed
BY DEF Init, Typed

LEMMA TypedNext == Typed /\ [Next]_nodes => Typed'
<1> SUFFICES ASSUME Typed, [Next]_nodes PROVE Typed'
  OBVIOUS
<1>1. CASE Next
  <2>1. PICK name \in Names, n \in 0 .. MaxDeps : \E deps \in [1 .. n -> Names] : AddNode(name, deps)
    BY <1>1 DEF Next
  <2>2. PICK deps \in [1 .. n -> Names] : AddNode(name, deps)
    BY <2>1
  <2>3. deps \in Seq(Names)
    BY WorkflowAssumption
  <2>4. [node |-> name, deps |-> deps] \in [node : Names, deps : Seq(Names)]
    BY <2>3
  <2> QED
    BY <2>2, <2>4 DEF Typed, AddNode
<1>2. CASE nodes' = nodes
  BY <1>2 DEF Typed
<1> QED
  BY <1>1, <1>2

LEMMA TypedIsRequest == Typed => IsRequest(nodes)
<1> SUFFICES ASSUME Typed PROVE IsRequest(nodes)
  OBVIOUS
<1>1. Len(nodes) \in Nat /\ DOMAIN nodes = 1 .. Len(nodes)
  BY DEF Typed
<1>2. ASSUME NEW q \in DOMAIN nodes
      PROVE  Len(nodes[q].deps) \in Nat /\ DOMAIN nodes[q].deps = 1 .. Len(nodes[q].deps)
  <2> PICK R : R = [node : Names, deps : Seq(Names)]
    OBVIOUS
  <2>1. nodes[q] \in R
    <3>1. nodes \in Seq(R)
      BY DEF Typed
    <3> QED
      BY ONLY <3>1
  <2>2. nodes[q].deps \in Seq(Names)
    BY <2>1
  <2> QED
    BY <2>2
<1> QED
  BY <1>1, <1>2 DEF IsRequest

LEMMA AlwaysRequest == Spec => [](Typed /\ IsRequest(nodes))
<1>1. Spec => []Typed
  BY TypedInit, TypedNext, PTL DEF Spec
<1> QED
  BY <1>1, TypedIsRequest, PTL

-----------------------------------------------------------------------------
(***************************************************************************)
(* The verdict on them.                                                    *)
(***************************************************************************)
\* submit_run accepts exactly the workflows that are DAGs, and
\* _topological_order neither gets stuck on a legal workflow nor drains a
\* cyclic one, for workflows of any size.
THEOREM AcceptsWorkflows == Spec => []AcceptsExactlyWorkflows
<1>1. IsRequest(nodes) => AcceptsExactlyWorkflows
  BY AcceptedIsWorkflow, WorkflowIsAccepted DEF AcceptsExactlyWorkflows
<1> QED
  BY <1>1, AlwaysRequest, PTL

\* The order that execute_run walks has every step, each behind all the steps
\* it depends on, for workflows of any size.
THEOREM OrderRespects == Spec => []OrderRespectsDependencies
<1>1. IsRequest(nodes) => OrderRespectsDependencies
  <2> SUFFICES ASSUME IsRequest(nodes), NEW CONSTANT order, order = _topological_order(nodes),
                      order # NoOrder
               PROVE  /\ Len(order) = Len(nodes)
                      /\ \A p \in DOMAIN nodes : \E i \in DOMAIN order : order[i] = p
                      /\ \A i \in DOMAIN order : \A q \in WaitsFor(nodes, order[i]) :
                             \E j \in 1 .. i - 1 : order[j] = q
    BY DEF OrderRespectsDependencies
  <2> PICK steps : steps = nodes
    OBVIOUS
  <2>1. /\ ~DuplicateNode(steps) /\ Sound(steps, order) /\ Len(order) = Len(steps)
        /\ Len(steps) \in Nat /\ DOMAIN steps = 1 .. Len(steps)
    BY OrderShape DEF IsRequest
  <2>2. order \in Seq(1 .. Len(steps)) /\ Once(order) /\ DOMAIN order = 1 .. Len(steps)
    BY <2>1 DEF Sound
  <2>3. \A p \in 1 .. Len(steps) : \E i \in 1 .. Len(steps) : order[i] = p
    BY ONLY <2>1, <2>2, OrderCovers
  <2>4. Behind(steps, order)
    BY <2>1, OrderPrecedes
  <2> QED
    BY <2>1, <2>2, <2>3, <2>4 DEF Behind
<1> QED
  BY <1>1, AlwaysRequest, PTL

-----------------------------------------------------------------------------
(***************************************************************************)
(* The way through the projection.                                         *)
(***************************************************************************)
\* A workflow whose nodes keep their names and dependencies stays one.
LEMMA SameWorkflow ==
    ASSUME NEW dag, NEW steps, DOMAIN steps = DOMAIN dag,
           \A p \in DOMAIN dag : steps[p].node = dag[p].node /\ steps[p].deps = dag[p].deps
    PROVE  IsWorkflow(dag) => IsWorkflow(steps)
<1>1. \A p \in DOMAIN dag : WaitsFor(steps, p) = WaitsFor(dag, p)
  BY DEF WaitsFor
<1> SUFFICES ASSUME IsWorkflow(dag) PROVE IsWorkflow(steps)
  OBVIOUS
<1>2. \A p, q \in DOMAIN steps : p # q => steps[p].node # steps[q].node
  BY DEF IsWorkflow
<1>3. \A p \in DOMAIN steps : \A i \in DOMAIN steps[p].deps :
          \E q \in DOMAIN steps : steps[q].node = steps[p].deps[i]
  BY DEF IsWorkflow
<1>4. ASSUME NEW S \in SUBSET DOMAIN steps, S # {}, \A p \in S : WaitsFor(steps, p) \cap S # {}
      PROVE  FALSE
  <2>1. \A p \in S : WaitsFor(dag, p) \cap S # {}
    BY <1>1, <1>4
  <2> QED
    BY <1>4, <2>1 DEF IsWorkflow
<1> QED
  BY <1>2, <1>3, <1>4 DEF IsWorkflow

\* What arrives at submit_run of a DAG and of a run without one.
LEMMA RequestOfDag ==
    ASSUME Typed, nodes # << >>, NEW attempts \in Attempts, NEW tokens \in Tokens,
           NEW request, request = Request(attempts, tokens)
    PROVE  /\ request # << >> /\ Len(request) = Len(nodes) /\ DOMAIN request = DOMAIN nodes
           /\ \A p \in DOMAIN nodes :
                  /\ request[p].node = nodes[p].node /\ request[p].deps = nodes[p].deps
                  /\ request[p].maxTokens = (IF tokens = 0 THEN Absent ELSE tokens)
                  /\ request[p].maxRetries = (IF attempts > 1 THEN attempts - 1 ELSE Absent)
<1>1. Len(nodes) \in Nat /\ DOMAIN nodes = 1 .. Len(nodes) /\ Len(nodes) # 0
  BY DEF Typed
<1> DEFINE raw == Nodes(nodes, attempts, tokens)
<1>2. raw = [p \in 1 .. Len(nodes) |->
                [node |-> nodes[p].node, deps |-> nodes[p].deps, maxTokens |-> tokens,
                 maxRetries |-> IF attempts > 1 THEN attempts - 1 ELSE Absent]]
  BY <1>1 DEF Nodes
<1>3. request = [p \in DOMAIN raw |->
                    [raw[p] EXCEPT !.maxTokens = IF @ = 0 THEN Absent ELSE @]]
  BY DEF Request, Marshal
<1>4. DOMAIN raw = 1 .. Len(nodes)
  BY <1>2
<1>5. DOMAIN request = 1 .. Len(nodes) /\ Len(request) = Len(nodes) /\ request # << >>
  <2> PICK f, n : /\ n = Len(nodes)
                  /\ f = [p \in 1 .. n |-> [raw[p] EXCEPT !.maxTokens = IF @ = 0 THEN Absent ELSE @]]
    OBVIOUS
  <2>1. request = f
    BY <1>3, <1>4
  <2>2. n \in Nat /\ n # 0
    BY <1>1
  <2> HIDE DEF raw
  <2>3. DOMAIN f = 1 .. n
    OBVIOUS
  <2>4. Len(f) = n
    BY <2>2
  <2> QED
    BY <2>1, <2>2, <2>3, <2>4
<1>6. ASSUME NEW p \in DOMAIN nodes
      PROVE  /\ request[p].node = nodes[p].node /\ request[p].deps = nodes[p].deps
             /\ request[p].maxTokens = (IF tokens = 0 THEN Absent ELSE tokens)
             /\ request[p].maxRetries = (IF attempts > 1 THEN attempts - 1 ELSE Absent)
  <2>1. raw[p] = [node |-> nodes[p].node, deps |-> nodes[p].deps, maxTokens |-> tokens,
                  maxRetries |-> IF attempts > 1 THEN attempts - 1 ELSE Absent]
    BY <1>1, <1>2
  <2>2. request[p] = [raw[p] EXCEPT !.maxTokens = IF @ = 0 THEN Absent ELSE @]
    BY <1>1, <1>3, <1>4
  <2> QED
    BY <2>1, <2>2
<1> QED
  BY <1>1, <1>5, <1>6

LEMMA RequestOfRun ==
    ASSUME nodes = << >>, NEW attempts, NEW tokens,
           NEW request, request = Request(attempts, tokens)
    PROVE  request = <<[node |-> "main", deps |-> << >>, maxRetries |-> Absent,
                        maxTokens |-> IF tokens = 0 THEN Absent ELSE tokens]>>
<1>1. Nodes(nodes, attempts, tokens) =
          <<[node |-> "main", deps |-> << >>, maxTokens |-> tokens, maxRetries |-> Absent]>>
  BY DEF Nodes
<1> QED
  BY <1>1 DEF Request, Marshal

\* The step specs of a DAG are its nodes, with the retry policy of the run.
LEMMA StepsOfDag ==
    ASSUME Typed, nodes # << >>, NEW attempts \in Attempts, NEW tokens \in Tokens,
           NEW steps, steps = StepSpecs(Request(attempts, tokens))
    PROVE  /\ IsRequest(steps) /\ DOMAIN steps = DOMAIN nodes
           /\ \A p \in DOMAIN nodes :
                  /\ steps[p].node = nodes[p].node /\ steps[p].deps = nodes[p].deps
                  /\ steps[p].max_retries + 1 = attempts
<1> PICK request : request = Request(attempts, tokens)
  OBVIOUS
<1>1. /\ request # << >> /\ Len(request) = Len(nodes) /\ DOMAIN request = DOMAIN nodes
      /\ \A p \in DOMAIN nodes :
             /\ request[p].node = nodes[p].node /\ request[p].deps = nodes[p].deps
             /\ request[p].maxRetries = (IF attempts > 1 THEN attempts - 1 ELSE Absent)
  BY RequestOfDag
<1>2. IsRequest(nodes)
  BY TypedIsRequest
<1>3. steps = [p \in DOMAIN nodes |->
                  [node |-> request[p].node, deps |-> request[p].deps,
                   max_retries |-> IF request[p].maxRetries = Absent THEN 0
                                   ELSE request[p].maxRetries]]
  BY <1>1 DEF StepSpecs
<1>4. DOMAIN steps = DOMAIN nodes /\ Len(steps) = Len(nodes)
  <2> PICK n : n = Len(nodes)
    OBVIOUS
  <2>1. n \in Nat /\ DOMAIN nodes = 1 .. n
    BY <1>2 DEF IsRequest
  <2>2. PICK f : f = [p \in 1 .. n |->
                         [node |-> request[p].node, deps |-> request[p].deps,
                          max_retries |-> IF request[p].maxRetries = Absent THEN 0
                                          ELSE request[p].maxRetries]]
    OBVIOUS
  <2>3. steps = f
    BY <1>3, <2>1, <2>2
  <2>4. DOMAIN f = 1 .. n /\ Len(f) = n
    BY ONLY <2>1, <2>2
  <2> QED
    BY <2>1, <2>3, <2>4
<1>5. ASSUME NEW p \in DOMAIN nodes
      PROVE  /\ steps[p].node = nodes[p].node /\ steps[p].deps = nodes[p].deps
             /\ steps[p].max_retries + 1 = attempts
  <2>1. /\ steps[p].node = request[p].node /\ steps[p].deps = request[p].deps
        /\ steps[p].max_retries = (IF request[p].maxRetries = Absent THEN 0
                                   ELSE request[p].maxRetries)
    BY <1>3
  <2>2. attempts \in Nat /\ attempts >= 1
    BY DEF Attempts
  <2>3. steps[p].max_retries + 1 = attempts
    <3>1. CASE attempts > 1
      BY <1>1, <2>1, <2>2, <3>1, LimitsAssumption
    <3>2. CASE attempts = 1
      BY <1>1, <2>1, <2>2, <3>2
    <3> QED
      BY <2>2, <3>1, <3>2
  <2> QED
    BY <1>1, <2>1, <2>3
<1>6. IsRequest(steps)
  BY <1>2, <1>4, <1>5 DEF IsRequest
<1> QED
  BY <1>4, <1>5, <1>6

LEMMA StepsOfRun ==
    ASSUME nodes = << >>, NEW attempts, NEW tokens
    PROVE  StepSpecs(Request(attempts, tokens)) =
               <<[node |-> "main", deps |-> << >>, max_retries |-> 0]>>
<1> PICK request : request = Request(attempts, tokens)
  OBVIOUS
<1>1. request = <<[node |-> "main", deps |-> << >>, maxRetries |-> Absent,
                   maxTokens |-> IF tokens = 0 THEN Absent ELSE tokens]>>
  BY RequestOfRun
<1> QED
  BY <1>1 DEF StepSpecs

\* On the way from the AgentRun to the ledger a DAG keeps its nodes and
\* dependencies and every step gets exactly the attempts of the retry policy; a
\* run without a DAG becomes one step with one attempt.
THEOREM ProjectionFaithful == Spec => []WorkflowSurvivesProjection
<1>1. Typed => WorkflowSurvivesProjection
  <2> SUFFICES ASSUME Typed, NEW attempts \in Attempts, NEW tokens \in Tokens,
                      NEW CONSTANT steps, steps = StepSpecs(Request(attempts, tokens))
               PROVE  IF nodes = << >>
                      THEN Len(steps) = 1 /\ steps[1].deps = << >> /\ steps[1].max_retries = 0
                      ELSE /\ DOMAIN steps = DOMAIN nodes
                           /\ \A p \in DOMAIN nodes :
                                  /\ steps[p].node = nodes[p].node /\ steps[p].deps = nodes[p].deps
                                  /\ steps[p].max_retries + 1 = attempts
    BY DEF WorkflowSurvivesProjection
  <2>1. CASE nodes = << >>
    <3>1. steps = <<[node |-> "main", deps |-> << >>, max_retries |-> 0]>>
      BY <2>1, StepsOfRun
    <3> QED
      BY <2>1, <3>1
  <2>2. CASE nodes # << >>
    BY <2>2, StepsOfDag
  <2> QED
    BY <2>1, <2>2
<1> QED
  BY <1>1, AlwaysRequest, PTL

LEMMA DagAccepted ==
    ASSUME Typed, nodes # << >>, IsWorkflow(nodes), NEW attempts \in Attempts, NEW tokens \in Tokens,
           Len(nodes) <= ApiMaxNodes, \A p \in DOMAIN nodes : nodes[p].node \notin LongNames,
           tokens <= ApiMaxTokens
    PROVE  Accepted(Request(attempts, tokens))
<1> PICK request : request = Request(attempts, tokens)
  OBVIOUS
<1> PICK steps : steps = StepSpecs(Request(attempts, tokens))
  OBVIOUS
<1>1. InSchema(request)
  <2>1. /\ Len(request) = Len(nodes) /\ DOMAIN request = DOMAIN nodes
        /\ \A p \in DOMAIN nodes :
               /\ request[p].node = nodes[p].node
               /\ request[p].maxTokens = (IF tokens = 0 THEN Absent ELSE tokens)
               /\ request[p].maxRetries = (IF attempts > 1 THEN attempts - 1 ELSE Absent)
    BY RequestOfDag
  <2>2. tokens = 0 \/ tokens \in 1 .. ApiMaxTokens
    BY LimitsAssumption, WorkflowAssumption
  <2>3. attempts = 1 \/ (attempts > 1 /\ attempts - 1 \in ApiRetries)
    BY DEF Attempts, ApiRetries
  <2>4. ASSUME NEW p \in DOMAIN request
        PROVE  /\ request[p].node \notin LongNames
               /\ request[p].maxTokens \in {Absent} \cup 1 .. ApiMaxTokens
               /\ request[p].maxRetries \in {Absent} \cup ApiRetries
    BY <2>1, <2>2, <2>3
  <2> QED
    BY <2>1, <2>4 DEF InSchema
<1>2. /\ IsRequest(steps) /\ DOMAIN steps = DOMAIN nodes
      /\ \A p \in DOMAIN nodes : steps[p].node = nodes[p].node /\ steps[p].deps = nodes[p].deps
  BY StepsOfDag
<1>3. IsWorkflow(steps)
  BY <1>2, SameWorkflow
<1>4. _topological_order(steps) # NoOrder
  BY <1>2, <1>3, WorkflowIsAccepted
<1> QED
  BY <1>1, <1>4 DEF Accepted

LEMMA RunAccepted ==
    ASSUME nodes = << >>, NEW attempts \in Attempts, NEW tokens \in Tokens, tokens <= ApiMaxTokens
    PROVE  Accepted(Request(attempts, tokens))
<1> PICK request : request = Request(attempts, tokens)
  OBVIOUS
<1> PICK steps : steps = StepSpecs(request)
  OBVIOUS
<1>1. InSchema(request)
  <2>1. request = <<[node |-> "main", deps |-> << >>, maxRetries |-> Absent,
                     maxTokens |-> IF tokens = 0 THEN Absent ELSE tokens]>>
    BY RequestOfRun
  <2>2. tokens = 0 \/ tokens \in 1 .. ApiMaxTokens
    BY LimitsAssumption, WorkflowAssumption
  <2>3. Len(request) = 1 /\ DOMAIN request = {1}
    BY <2>1
  <2>4. /\ request[1].node = "main" /\ request[1].maxRetries = Absent
        /\ request[1].maxTokens \in {Absent} \cup 1 .. ApiMaxTokens
    BY <2>1, <2>2
  <2>5. 1 <= ApiMaxNodes
    BY LimitsAssumption
  <2> QED
    BY <2>3, <2>4, <2>5, LimitsAssumption DEF InSchema
<1>2. steps = <<[node |-> "main", deps |-> << >>, max_retries |-> 0]>>
  BY StepsOfRun
<1>3. Len(steps) = 1 /\ DOMAIN steps = {1} /\ steps[1].deps = << >>
  BY <1>2
<1>4. IsRequest(steps)
  BY <1>3 DEF IsRequest
<1>5. IsWorkflow(steps)
  <2>1. WaitsFor(steps, 1) = {}
    BY <1>3 DEF WaitsFor
  <2> QED
    BY <1>3, <2>1 DEF IsWorkflow
<1>6. _topological_order(steps) # NoOrder
  BY <1>4, <1>5, WorkflowIsAccepted
<1> QED
  BY <1>1, <1>6 DEF Accepted

\* An AgentRun that the CRD admits and whose references are valid is refused by
\* the API only where the CRD is wider than the API's schema: in the number of
\* nodes, a name's length or maxTokens.
THEOREM RefusedBeyondLimits == Spec => []RefusedOnlyBeyondLimits
<1>1. Typed => RefusedOnlyBeyondLimits
  <2> SUFFICES ASSUME Typed, NEW attempts \in Attempts, NEW tokens \in Tokens, IsWorkflow(nodes),
                      ~(Len(nodes) > ApiMaxNodes),
                      \A p \in DOMAIN nodes : nodes[p].node \notin LongNames,
                      ~(tokens > ApiMaxTokens)
               PROVE  Accepted(Request(attempts, tokens))
    BY DEF RefusedOnlyBeyondLimits
  <2>1. Len(nodes) <= ApiMaxNodes
    <3>1. Len(nodes) \in Nat
      BY DEF Typed
    <3> QED
      BY <3>1, LimitsAssumption
  <2>2. tokens <= ApiMaxTokens
    BY LimitsAssumption, WorkflowAssumption
  <2>3. CASE nodes = << >>
    BY <2>2, <2>3, RunAccepted
  <2>4. CASE nodes # << >>
    BY <2>1, <2>2, <2>4, DagAccepted
  <2> QED
    BY <2>3, <2>4
<1> QED
  BY <1>1, AlwaysRequest, PTL

=============================================================================
