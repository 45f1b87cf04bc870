# Verification of the governed agent control plane

TLA+ models of the control plane in `backend/` and of its Kubernetes operator
in `controllers/`, checked by TLC on small instances. Every safety property of the
passing runs is also proved by TLAPS for every instance. Paths are relative to the
repository; `PROJECT.json` maps every definition to the lines it models.

## 1. Inventory

| Component | State | Operations | What is hard | What makes it correct |
|---|---|---|---|---|
| Durable ledger, `PostgresRunStore` (`backend/app/store.py`, `migrations/`) | `agent_runs` (status, owner, cancelled, finished_at, runtime_run_id), `agent_run_steps` (status, attempts) | submit, get, cancel, start, start_step, succeed_step, fail_step, succeed, fail, set_runtime_run_id | statements of two connections interleave at READ COMMITTED; cancel is a transaction of two statements; `_load` is two snapshots | one run per tenant and key, statuses only move forward, run and steps agree |
| HTTP API (`backend/app/main.py`) | the request being served | submit_run, get_run, cancel_run | the executor threads run between its statements; a request may fail half way | answers are consistent, resubmission is harmless |
| Executor thread, mock/live (`execute_run`) | position in the order, attempt counter | the walk over the DAG with retries | races with cancel, exceptions, process restart | retry budget, dependencies first, every run settles |
| Executor thread, external (`_execute_external_run`, `_sync_external_steps`) | last snapshot, deadline | submit, poll, mirror, cancel | the runtime is another process; calls get lost; deadline against a late answer | the ledger tells the truth about the runtime |
| Runtime and LLM clients (`runtime.py`, `llm.py`) | none | HTTP calls | timeouts | an error is a `RuntimeClientError` or `LLMError` |
| DAG validation and projection (`_topological_order`, `validateDAG`, `reconcileSubmit`, the API's schema) | none | pure | two algorithms, repeated and unknown dependencies, Go's map order; optional fields and two sets of limits on the way | both accept exactly the DAGs; a workflow arrives as it was declared |
| AgentRun controller (`controllers/agentrun_controller.go`, `run_gateway.go`) | the AgentRun object, its finalizer and status; a cache; a work queue | Reconcile: submit, poll, cancel, delete, TTL, reject | stale cache, conflicts, lost answers, edits and deletions at any time, restarts | its status is true, deletion stops the run, cancellation reaches it |
| Agent and TenantPolicy controllers (`agent_controller.go`, `tenantpolicy_controller.go`, `tenant_context.go`) | `status.ready`, `status.active`, observedGeneration; caches, queues | Reconcile, watches | each kind has a cache of its own; verdicts are overtaken by edits; conflicts; nobody watches the Namespace | every admission has its grounds, and every status becomes right |
| Operator entry point, API types, manifests | none of their own | wiring | | |

The operator calls the API through the gateway. The API writes the ledger and
starts one daemon thread per run. The thread and the handlers share the ledger
only. In the external modes, the thread and `cancel_run` both call the runtime.

## 2. Modules

    RunLifecycle                abstract specification: what a client may rely on
      ^ implemented by
    RunLedger                   tables and store methods, as operators
      RunApi                    the HTTP handlers over them         --> RunApiProofs
        LocalExecution          mock and live modes                 --> LocalExecutionProofs
        ExternalExecution       equaxis and agent_http modes, with the runtime
                                                                    --> ExternalExecutionProofs
    AgentRunOperator            the AgentRun controller, composed with RunLifecycle
                                as control plane                    --> AgentRunOperatorProofs
    Governance                  abstract specification: who may be admitted on what grounds
      ^ implemented by
    Readiness                   TenantPolicy and Agent controllers  --> ReadinessProofs
    DagOrder                    _topological_order                  --> DagOrderProofs
    RunProjection               from spec.dag to the steps of the ledger
      WorkflowSubmission        the API's verdict on every workflow --> WorkflowSubmissionProofs
        DagValidation           ... beside the operator's validateDAG
                                                                    --> DagValidationProofs
    MC*                         instances for TLC

Operators named *Mutant of ...* in their comment are deliberate mistakes that
show that a property can fail; no specification uses them.

**RunLifecycle** has `status` and `owner`, and the actions Create, Begin,
Finish, Cancel. It is the interface between the two halves: the ledger modules
implement it, and the operator uses it as its control plane.

**RunLedger.** One operator per store method, in the code's lower-case names,
with the WHERE clause as a named predicate (`Cancellable`, `Startable`,
`Finishable`, `Linkable`, `StepStartable`, `Live`). The granularity is
PostgreSQL's. `cancel` is `cancel_update`, which locks the run row (`locker`)
and the steps its second UPDATE matches (`marked`), and `cancel_commit`; nobody
sees the change in between. Its two UPDATEs are one step because what happens
between them could as well happen before the first. The step statements test
`agent_runs.cancelled` in a subquery, answered by the statement's snapshot even
if it then waits for the step row; so each is a snapshot (`Live`) and a later
write. `fail` is also two UPDATEs, but the only writer that could come between
them is the thread that runs it, so it is one step.

**RunApi.** The handlers are coroutines without an `await` and there is one
replica (`config/backend/manager.yaml`), so one slot, `handler`, holds the
request being served. A request is several steps: `CancelRun` (reads
`runtime_run_id`), `CancelUpdate` or `CancelTerminal`, `CancelCommit`, `Reply`.
`GetRun` and `ResubmitRun` are followed by `LoadSteps`, the second SELECT of
`_load`. `RequestFails` is a database error: rollback and a 500.

**LocalExecution.** `pc[r]` is the thread's place in `execute_run`, `idx[r]` the
entry of the order it is at, `tries[r]` its local attempt counters. `Complete`
is the provider: an answer or an `LLMError`. `ThreadDies` is any other
exception, `Restart` the process being replaced. `lost` is a history variable.

**ExternalExecution** adds the runtime (`extStatus`, `extStep`, `inflight`) as
an independent actor, marked external in the map. A submission is idempotent and
a run that is done has succeeded in all its steps, as `main.py` expects. An answer
names a step at most once and may say nothing of any of them, since
`_sync_external_steps` tolerates a missing list, malformed entries and unknown
nodes: such a step is `omitted` in the snapshot and is passed over. Any call may fail
and a submission the client gave up on may still arrive (`LateSubmission`). The
thread follows `_execute_external_run`, one action per statement that reads or
writes shared state. `refused` is a history variable: a call failed.

**AgentRunOperator.** `obj` is the API server's object, `cache` the informer's
copy, `worker` the one reconcile under way with its private copy. Only the
equality of resource versions matters: `current` and `worker.current` say
whether the cached and the private copy are the newest version. The cache jumps
to the newest version when it is updated. A reconcile is `Reconcile` (the
branches up to the first call or write), a gateway call, and the write of the
status; users, the Agent, the control plane and a restart may come in between.
`agentReady` stands for the existence and readiness of the Agent, which changes
at will (Readiness says how); the request this queues is lost if `runsForAgent`
cannot list the AgentRuns. A failed read in `validateReferences` is a rejection
(`ReferencesUnread`). Users may change, remove and restore the tenant label: under
another tenant the API answers 404, without one 400. Time is left out: a TTL may have run out at any check.

**Governance** says what the three controllers promise together, as statements
about the past: a run is projected only from an Agent spec that was approved,
a spec is approved only under a policy that was activated, only a valid policy is
activated. An edit may overtake a decision, so more cannot be promised.

**Readiness.** TenantPolicies and Agents of one namespace, with the Kubernetes of
AgentRunOperator: `obj`, `cache`, `current`, one `queue` and one `worker` per
controller. `observed` says that `status.observedGeneration` is the generation;
an edit of the spec makes it false, an edit of a label does not. The condition's
reason determines `status.active` and `status.ready`, so only it is kept; the
reason `NamespaceUnread` is InvalidTenantBinding with the message of a failed read,
which makes it another status to the comparison before the write.
`Observe` is a watch event with the requests it queues (`agentsForPolicy` looks
at the cache of Agents). The TenantPolicy controller reads and judges in one
step; the Agent controller reads the Agent (`ReconcileAgent`) and later the
policy (`ValidateAgent`); the status is written, or refused, after that. `Admit`
is the AgentRun controller finding the references valid (`validateReferences`)
and projecting the Agent it has read. `namespace` is the Namespace's label as the
manager's cache shows it. Three failures pass without an error:
`PolicyNamespaceUnread` and `AgentNamespaceUnread` (the Namespace cannot be read, and
that becomes the verdict) and `ObserveUnlisted` (`agentsForPolicy` cannot list the
Agents, and the event is lost for them). `missed` holds the names whose status has
missed something without a trace: all when the Namespace is relabelled, an object
whose failed read was in its status already so that nothing is written, the Agents
of a lost event. A name leaves it when it is judged again.
`activated`, `approved` and `admitted` are the history that Governance speaks of;
the refinement mapping gives it `Standing`, the spec of an Agent that is ready
for its generation.

**RunProjection.** `Nodes` is the projection in `reconcileSubmit`, `Marshal` the
JSON with its omitted fields, `InSchema` the pydantic models, `StepSpecs` what
`submit_run` stores.

**DagOrder.** A request is a sequence of `[node, deps]` as the client wrote it.
Kahn's algorithm is a function of the round (`After`), with `Place` as the body of
the loop.

**WorkflowSubmission.** A workflow is written node by node, so that every request
over `Names` is a reachable state. `IsWorkflow` is the reference: what a DAG is,
without an algorithm.

**DagValidation.** At any point of the writing the operator looks at the workflow.
Its depth-first search is a state machine: `stack` holds the calls of `visit` that
have not returned, each with the entry of `dependsOn` its loop comes to next, and
`todo` the nodes that the range over the map has still to yield, in any order.
`VisitNode` and `VisitDependency` are the two places that call `visit`, `Return` is
its end.

## 3. What the runs check

| Run | Instance | States | Shows |
|---|---|---|---|
| local_safety | 2 runs, 2 tenants, 1 key, 3 plans (reversed, flat, cyclic) of 2 steps with a retry | 645 449 | the ledger implements RunLifecycle; retry budget, dependency order, run and step statuses agree, cancellation sweeps the steps, answers are consistent, a success is kept |
| local_liveness | 1 run, the same plans | 1 635 | every run settles |
| dag_agreement | all workflows of up to 3 nodes, 3 names, up to 2 dependencies; every maxAttempts, maxTokens around the limit | 263 261 | both validators accept exactly the DAGs; the order is topological; the search of the operator ends, and its recursion is no deeper than there are nodes; a valid AgentRun is refused only beyond the API's smaller limits; nodes, dependencies and attempts survive the projection |
| external_safety | 1 run, 2 independent steps, 2 polls, final answers that omit any steps | 1 374 296 | the ledger tells the truth about the runtime; RunLifecycle is implemented |
| external_liveness | 1 run, 1 step, 1 poll | 31 861 | every delegated run settles by its deadline |
| operator_safety | 1 AgentRun with or without a TTL; its label names its tenant, another or none | 1 816 684 | the AgentRun's status is true and never goes back; it disappears only after its run ended |
| operator_liveness | the same, 2 edits, no failed runs | 191 116 | deletions complete unless the label is missing, ends are reported, failures clear, TTLs clean up |
| readiness | 1 TenantPolicy with 3 specs (narrow, wide, invalid), 1 Agent with 2 specs; 2 edits, or 1 and 2 silent failures, or 4 silent failures | 370 081 | Governance is implemented; at rest every status that missed nothing is the verdict on the present objects; it gets there |

Bounds. Two runs are needed for two tenants to use the same key and for a lock
on one run while another proceeds; runs share nothing else, so more add
nothing. Two steps are the fewest with an order, with a step behind and a step
ahead of the walk; one retry is the fewest with a retry. `MaxPolls` caps the
polls before the deadline; the deadline may pass at any earlier one, and two
polls are enough for a snapshot that changes an already mirrored one. external_safety
leaves out requests that only read the run, and omits steps only from answers that
end the run: one omitted before might as well have moved after the answer.
external_liveness has both. One
AgentRun suffices because the controller treats objects one at a time and they
share nothing but the queue. One policy and one Agent suffice for Readiness
because an Agent is judged by one policy. What exists at the start there, in any
combination, has the label of the Namespace; `MaxEdits` caps the edits by users at
two: one edit overtakes a decision, a second one its correction; each mutant of the
run needs at most two. `MaxDisturbances` caps edits and silent failures together, an
edit counting for two: two failed reads in a row are the fewest that leave a trace,
and an edit beside them can make up for them. operator_safety has no bound on edits;
operator_liveness has `MaxEdits` of them, enough for a deletion and one more edit at
any time before or after it (a label removed, a cancellation), and no bound on
failures and restarts; its runs succeed or are cancelled, a failed one being to the
controller like one that succeeded. Three nodes give every shape of small cycle
(self-loop, pair, triangle), diamonds excepted; two entries of `dependsOn` allow
a repeated dependency. The API's limits are scaled down (`ApiMaxNodes` 2 of 3,
one `LongNames`, `ApiMaxTokens` 3, and `Tokens` on both sides of it), the range of maxAttempts is the real one.
Symmetry (over run ids) is used in local_safety only,
where no liveness is checked.

The violation runs state what a document, message or test says and show that
the code does otherwise:

| Run | Claim | What happens |
|---|---|---|
| local_cancel_retry | the steps of a cancelled run are cancelled (`test_cancel_persists_terminal_state`) | the sweep of `cancel` runs while a step waits for its retry (status failed); the retry starts before the commit and stays running for ever |
| external_forward | "forwards cancellation" (`README.md`) | the cancellation comes after the submission to the runtime and before its id is stored; neither the handler nor the thread tells the runtime |
| external_mirror | "mirrors step snapshots" (`README.md`) | a step that the runtime stopped stays running in the ledger's failed run |
| operator_early_cancel | "run was cancelled before control-plane submission" (condition) | the submission happened, its recording was lost, and the run goes on |

Further limits of the code that the models have and no violation run states:

- the run succeeds when the runtime says that it is done, with or without its
  steps: those that its last answer omits stay queued or running in the succeeded
  run (`SuccessIsReal` speaks of the others);
- a poll that fails once, or a submission whose answer is lost, fails the run
  without cancelling it at the runtime, which goes on with it
  (`FailureStopsRuntime` excepts runs of which a call failed);
- an AgentRun being deleted whose tenant label is removed before its run was seen to
  end stays, because the API answers the cancellation with a 400, until a label is
  put back (`Stuck` in `DeletionCompletes`). A label that names another tenant lets it
  go while the run goes on, because the answer is a 404;
- a Namespace that cannot be read is reported as InvalidTenantBinding, without an
  error or a new request. The event of this report makes the controller judge the
  object again, so one failure is made good; if the second read fails with the same
  message nothing is written and the wrong status stays until the next event or
  restart (`QuietStatusIsCurrent` and `StatusConverges` except it);
- a List that fails in `agentsForPolicy` or `runsForAgent` loses the event: Agents
  keep a verdict on the old policy until the next event or restart (excepted as
  well), AgentRuns wait for their next request;
- spec.cancel is not carried out while the Agent is not ready, because Reconcile
  validates the references first;
- an AgentRun cancelled before its submission is never cleaned up by its TTL,
  because that branch of reconcileCancel does not call reconcileTTL;
  `FinishedRunsAreCleanedUp` is therefore about recorded runs;
- an Agent that is briefly not ready during a run leaves the condition Ready of
  the AgentRun False for good: only the submission and the cancellation set it
  to True again;
- the gateway reads 1 MiB of an answer, and the answer holds the output of every
  step. A longer one fails at every poll and every cancellation, so such an
  AgentRun neither reports its end nor can be deleted. In AgentRunOperator this
  is a failure that never ends; the liveness properties assume that failures do;
- the CRD is wider than the API in the number of nodes (64, 32), the length of a
  name (64, 63) and maxTokens (none, 32768): what lies between is refused with a
  422 and submitted again every time (`RefusedOnlyBeyondLimits` says that there
  is nothing else);
- a run without a DAG has one attempt whatever retryPolicy says
  (`WorkflowSurvivesProjection`);
- relabelling a Namespace reaches no controller: a status stays as it was until its
  object is judged again for another reason or the operator restarts (excepted
  until then);
- a run may be admitted under a policy that has just been narrowed, until the
  Agent was judged again. Governance does not exclude it, since the AgentRun
  controller looks at the Agent only.

### Fairness

*Ledger.* The event loop and the threads are scheduled, so what can proceed
does (weak fairness on handler steps, spawning and forwarding). Calls to the
provider and to the runtime have timeouts. A thread waiting for a row lock is
queued by PostgreSQL and gets its turn, hence strong fairness on `Thread(r)`:
cancel requests that keep failing cannot starve it. No fairness on requests,
errors, deaths, restarts or the runtime's progress.

*Operator.* Watch events arrive, queued objects are reconciled, calls and writes
return; a TTL that is checked again and again has run out at some check (strong
fairness on `TTLDeletes`). The liveness properties say what happens once the
disturbances (users, Agent changes, failures, restarts) are over, in whatever
state they left the system: `<>[][Undisturbed]_vars`. The control plane is not
assumed to execute anything. Readiness assumes the same of its two controllers; the
silent failures are disturbances too, but what they left behind stays, which is why
`StatusConverges` asks of each object that it is not in `missed` in the end.
A reconcile that has begun the search of DagValidation goes on with it (weak
fairness); that the search then ends is checked.

## 4. What is proved

| Module | Theorem | Property |
|---|---|---|
| LocalExecutionProofs | TypeCorrect | TypeOK |
| | LifecycleImplemented | ImplementsLifecycle: the refinement of RunLifecycle |
| | RetriesBounded | RetryBudget |
| | DependenciesRespected | DependenciesFirst |
| | CancelSweeps | CancelSweepsSteps |
| | FlagsConsistent | FlagsAgree |
| | FinishedSettled | FinishedRunsAreSettled |
| | AnswersConsistent | AnswersAreConsistent |
| | SuccessKept | SuccessIsKept |
| ExternalExecutionProofs | TypeCorrect | TypeOK |
| | LifecycleImplemented | ImplementsLifecycle: the refinement of RunLifecycle |
| | SuccessReal | SuccessIsReal |
| | MirrorTruthful | MirrorIsTruthful |
| | CancelSettles | CancelSettlesSteps |
| | FailureStops | FailureStopsRuntime |
| AgentRunOperatorProofs | TypeCorrect | TypeOK |
| | TerminalStatusReal | TerminalStatusIsReal |
| | ReportsAdvance | ReportsNeverGoBack |
| | FinalizerWorks | FinalizerStopsRun |
| | TTLIsSafe | TTLDeletesOnlyFinished |
| ReadinessProofs | ReadinessTypes | TypeOK |
| | GovernanceImplemented | ImplementsGovernance: the refinement of Governance |
| | NoUpdateLost | QuietStatusIsCurrent |
| WorkflowSubmissionProofs | AcceptsWorkflows | AcceptsExactlyWorkflows |
| | OrderRespects | OrderRespectsDependencies |
| | RefusedBeyondLimits | RefusedOnlyBeyondLimits |
| | ProjectionFaithful | WorkflowSurvivesProjection |
| | OrderSuitsLedger | OrderAssumption of RunLedger, of every order the algorithm computes |
| DagValidationProofs | OperatorAndApiAgree | OperatorAgreesWithApi |
| | RecursionBounded | RecursionIsBounded |
| | ValidationKeepsWorkflow | DagValidation implements WorkflowSubmission, whose theorems it inherits |

None of the safety properties of the first four modules is inductive by itself:
each module has an invariant that is, checked by TLC on the instance of the safety run
before it was proved. `RunApiProofs` holds
what the two executions share: store methods and handlers keep the types of the
ledger and of the request.

### LocalExecution

For every set of runs, tenants, keys and plans, every number of steps, every DAG
and every retry budget.

Assumptions: `PlanAssumption`, the types of the constants, and
`OrderAssumption`, that an accepted plan's order names every step once and after
its dependencies. OrderSuitsLedger proves the latter of the algorithm, and TLC
evaluates it on the orders the algorithm computes for the plans of
local_safety.

None of the properties is inductive by itself. `InvariantHolds` proves the
invariant `IInv`, whose parts say:

- `RowInv`: status, flags, owner and the thread's place fit together (a thread
  walks only in a running or cancelled run);
- `WalkInv`: everything behind the walk has succeeded, nothing ahead of it was
  started; this is what makes `succeed` and DependenciesFirst true;
- `PlaceInv`: the thread's counters equal the database's while it walks, and
  the step it is at has the status its place implies; this carries the retry
  budget across `fail_step` calls that are refused;
- `LockInv`: an open cancellation has marked every queued step, marked steps do
  not move, and what it has missed is a retry; this is the heart of
  CancelSweepsSteps;
- `SettledInv`: FinishedRunsAreSettled, which nothing disturbs afterwards;
- `Unique` and `HandlerInv`: owners are distinct; the request being served holds
  the only row lock, and what it has read of a final status still holds.

All but the last two speak of one run, so the proof has one lemma per store
operation for the run it touches and a frame lemma for the others; then one
step per action. Type correctness is proved on its own first. The refinement
maps the variables to themselves: every step is a step of RunLifecycle or leaves
`status` and `owner` alone, with `cancel_commit` needing `LockInv`.

### ExternalExecution

For every set of runs, tenants and keys, every number of steps and of polls. The
assumptions are those of the ledger and `PollAssumption` (a number of polls is a
natural number); nothing is assumed about the runtime beyond its actions. `IInv`
has these parts:

- `RowInv`, `LockInv`: as in LocalExecution, but an open cancellation has marked
  every step that is not final, because a mirrored step has no retries;
- `StepInv`: a step is started at most once, has been started if it moved, and
  succeeds only if it did at the runtime;
- `ExtInv`: a snapshot is never ahead of the runtime, and a run that failed (or is
  about to) ended at the runtime unless a call failed; this is FailureStopsRuntime
  moved back to the thread's decision;
- `WalkInv`: what the walk over a snapshot has passed is mirrored unless the run
  was cancelled, and what is ahead is as it was read or swept. It is needed because
  `_sync_external_steps` decides by statuses that it read before the first write;
- `SettledInv`: the run succeeded at the runtime too, and so did every step that the
  last answer shows;
- `HandlerInv`: the request being served holds the only lock of a handler.

Type correctness is not proved on its own here: that the walk ends one past the
last step, and the polls at their bound, takes `WalkInv`.

### AgentRunOperator

For every set of AgentRuns, runs, tenants and keys; AgentRuns may share a key.
`KeyAssumption` and `GoneAssumption` say that the markers None and Gone are no
ids, owners or objects. The invariant speaks of the three copies of an AgentRun,
in the API server, in the cache and in the worker, of which two may be old:

- `Faithful`: a copy that names a run names the one of its key, its phase is not
  ahead of that run, and a terminal phase is how it ended. Runs only move forward
  (RunLifecycle), so this stays true of a copy however old it is;
- `Stored`: a stored copy with a run has the finalizer; `Released`: a copy about to
  lose it is of an object being deleted whose run has ended or is out of reach;
- `CacheInv`: a recorded run is never replaced by another;
- `WorkerOK`: a private copy that is still the newest version takes nothing back
  of what the object reports (`Advances`), which the check of the resourceVersion
  turns into ReportsNeverGoBack, and what each place of the reconcile implies
  (`Holds`). Delete carries no version, so TTLDeletesOnlyFinished rests on a
  recorded run not being replaced instead.

### Readiness

For every set of policies, Agents, tenants and specs and every number of edits.
`ReadinessAssumption` and `GoneAssumption` only say that kinds do not overlap and
specs have their fields.

GovernanceImplemented uses `Grounds`: in every copy of an object, in the API
server or in a cache however old, a status that counts (for its generation) has
its spec in the history (`Grounded`), and a verdict waiting to be written has its
grounds although the cache may have moved on (`Pending`). It is needed because an
admission looks at a cache and an approval at a policy's cached status, and
neither is the object itself. The refinement then has one step per action: an edit
withdraws or changes nothing, a write activates, approves or withdraws.

NoUpdateLost uses `Owed`: an object for which nothing is under way and that missed
nothing (its cached version is the newest, it is neither queued nor in `missed`, and
no reconcile has it) carries the
verdict on itself, an Agent only if the cached version of its policy is the newest
as well (`PoliciesSettled`, `AgentsSettled`). An event about a policy thus has to
queue the Agents that name it, and `agentsForPolicy` looks for them in a cache that
may be old; `CacheFollows` and `CopyIsCached` show that the Agents it misses have an
event of their own on the way. A failed read of the Namespace is about to be written,
and what is written makes the cached version old, or was there before, and then the
object is in `missed` (`UnreadOutcome`). Each action takes away one of the reasons for which
a status may be out of date only when it adds another or corrects the status.

### WorkflowSubmission

For requests of any size over any names, with repeated, unknown and cyclic
dependencies, and for any limits of the API. Assumptions: `NoOrderAssumption`
(None is no order), `LimitsAssumption` (the API takes at least one node, and the
name "main"; an omitted field is no number) and `WorkflowAssumption` (bounds are
natural numbers).

The prover has no scheme of induction, but the least element of a set of numbers
exists (`LeastElement`, from the library's well-foundedness of `<`), and from it
follows that a set with 0 and every successor has all numbers (`SetInduction`).
With the set of numbers for which a claim holds in its place, that gives: a finite
set of positions can be listed in ascending order (`AscendingLists`), the
recursive function `After` is what its definition says (`AfterRounds`), and the
loop has an invariant (`LoopInvariant`). `LoopInv` says that the counters count
the entries of `dependsOn` not yet placed, one per repetition; that the steps with
a zero counter are exactly those placed or ready; and that each placed step is
behind what it depends on. It is needed in full for both directions:

- an accepted request is a workflow: of a set of steps that wait for each other the
  first in the order would be behind another one;
- a workflow is accepted: a loop that ends early leaves steps with entries that are
  not placed, and these are a set of steps that wait for each other.

`RequestOfDag` and `StepsOfDag` say what the projection does to each node.
ProjectionFaithful follows from them, and RefusedBeyondLimits from them, the limits
and `SameWorkflow`: names and dependencies decide whether a request is a workflow.

### DagValidation

For workflows of any size and any order of the map, without further assumptions.
`ValidationInv` says of a search under way (`Found`):

- `Calls`: the stack has no node twice, and every call was made by the one below it
  for one of its dependencies. So the calls from a node that is met again on are a
  cycle (`CycleOnStack`), and there are never more calls than nodes (`StackFits`);
- `Passed`: what a loop has passed is visited or is what the call waits for. So a
  node is marked visited behind all that it depends on;
- `Closed`, `Acyclic`: the visited nodes depend on visited nodes only, and no set of
  them waits for itself; both survive the addition of such a node (`AcyclicGrows`);
- every node is visited, being visited or still to come, so that in the end all are
  visited.

There is a lemma for each outcome of a step. The verdict is thus that of
`IsWorkflow`, as is the API's, and the two agree. That a verdict is given at all
(SearchEnds) is liveness.

### Only model-checked

Liveness and convergence (EveryRunSettles, DeletionCompletes, EndIsReported,
GatewayFailureClears, FinishedRunsAreCleanedUp, StatusConverges, SearchEnds),
because the prover has no fairness.

## 5. Not modelled

The in-memory store (one lock, used by unit tests); the content of requests,
outputs, messages and conditions; row level security beyond a run having one
owner; the migrations beyond the tables they create; type fields that
nobody reads (budgets, rules, approval level, sandbox sizes), generated code,
wiring and manifests. A second API replica during a rolling
update is left out. The spec fields of an AgentRun other than `cancel` are
constant although Kubernetes would let a user edit them. A loss of the control
plane's database (a 404 for a recorded run with the right label) is left out.
If a submission was carried out but not recorded and the AgentRun is then
deleted, its run goes on unobserved; the model has this behaviour, and no
property excludes it because no document does.

## 6. Plan

1. *Done*: RunLifecycle, RunLedger, RunApi, LocalExecution with its proofs;
   ExternalExecution; DagOrder, DagValidation; AgentRunOperator.
2. *Done*: Governance, Readiness with its proofs; RunProjection.
3. *Done*: proofs for AgentRunOperator and ExternalExecution, and of
   QuietStatusIsCurrent.
4. *Done*: WorkflowSubmission, what `_topological_order` and the projection
   compute for every request.
5. *Done*: `validateDAG` as a state machine with the stack as data, and the proof
   that it agrees with the API.

Still open: a property for the two hazards without one (an answer longer than
1 MiB, the condition Ready after a rejection), which are limits of the code that
section 3 describes.
