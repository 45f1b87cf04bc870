------------------------------ MODULE RunLedger ------------------------------
(***************************************************************************)
(* The durable ledger: the tables agent_runs and agent_run_steps and the   *)
(* methods of PostgresRunStore (backend/app/store.py) that read and write  *)
(* them.  The methods are operators; the modules that extend this one say  *)
(* who calls them and when.                                                *)
(*                                                                         *)
(* PostgreSQL runs every statement at READ COMMITTED:                      *)
(*                                                                         *)
(*  - an UPDATE of a run row reads, checks and writes that row in one step *)
(*    once no other transaction holds the row;                             *)
(*  - start_step, succeed_step and fail_step update a step row under an    *)
(*    EXISTS over agent_runs.  The EXISTS is answered by the snapshot the  *)
(*    statement started with; a statement that had to wait for the step    *)
(*    row re-checks only the columns of the step row.  So each of them is  *)
(*    two steps: Live, the snapshot, and then the operator that applies it;*)
(*  - cancel is a transaction of two UPDATEs.  Its first locks the run     *)
(*    row, its second locks the steps it will cancel (marked); nobody      *)
(*    else sees either before cancel_commit;                               *)
(*  - _load is two SELECTs with a snapshot each.                           *)
(***************************************************************************)
EXTENDS Integers

CONSTANTS RunIds,      \* the UUIDs the store may draw
          Tenants,     \* values of the X-Tenant-Id header
          Keys,        \* idempotency keys
          Plans,       \* what a request asks to run: its nodes
          NumSteps,    \* nodes of a plan
          DependsOn,   \* depends_on of each node of each plan
          MaxRetries,  \* max_retries of each node of each plan
          Order,       \* the answer of _topological_order for each plan
          NoOrder,     \* its answer None: the plan is not a DAG
          None

\* The position column, counted from 1 here and from 0 in the code.
Positions == 1 .. NumSteps

Terminal == {"succeeded", "failed", "cancelled"}
RunStatus == {"absent", "queued", "running"} \cup Terminal
StepStatus == {"queued", "running"} \cup Terminal

ASSUME PlanAssumption ==
    /\ NumSteps \in Nat \ {0}
    /\ DependsOn \in [Plans -> [Positions -> SUBSET Positions]]
    /\ MaxRetries \in [Plans -> [Positions -> Nat]]
    /\ Order \in [Plans -> [1 .. NumSteps -> Positions] \cup {NoOrder}]
    /\ None \notin Plans
    /\ None \notin Tenants \X Keys

\* The order of an accepted plan names every node once, and a node only after
\* the nodes it depends on.  WorkflowSubmissionProofs proves it of what the
\* code's algorithm computes, and TLC evaluates it on such orders.
ASSUME OrderAssumption ==
    \A pl \in Plans : Order[pl] # NoOrder =>
        /\ \A i, j \in 1 .. NumSteps : Order[pl][i] = Order[pl][j] => i = j
        /\ \A p \in Positions : \E i \in 1 .. NumSteps : Order[pl][i] = p
        /\ \A i \in 1 .. NumSteps : \A d \in DependsOn[pl][Order[pl][i]] :
               \E j \in 1 .. i - 1 : Order[pl][j] = d

VARIABLES status,      \* agent_runs.status, "absent" when there is no row
          owner,       \* agent_runs.(tenant_id, idempotency_key)
          plan,        \* the nodes the run was submitted with
          cancelled,   \* agent_runs.cancelled
          finished,    \* agent_runs.finished_at is set
          linked,      \* agent_runs.runtime_run_id is set
          stepStatus,  \* agent_run_steps.status
          attempts,    \* agent_run_steps.attempts
          locker,      \* who has a cancel transaction open on the run row
          marked       \* the step rows that transaction will set to cancelled

rowVars == <<owner, plan, finished, linked>>
lockVars == <<locker, marked>>
ledger == <<status, owner, plan, cancelled, finished, linked,
            stepStatus, attempts, locker, marked>>

LedgerTypeOK ==
    /\ status \in [RunIds -> RunStatus]
    /\ owner \in [RunIds -> (Tenants \X Keys) \cup {None}]
    /\ plan \in [RunIds -> Plans \cup {None}]
    /\ cancelled \in [RunIds -> BOOLEAN]
    /\ finished \in [RunIds -> BOOLEAN]
    /\ linked \in [RunIds -> BOOLEAN]
    /\ stepStatus \in [RunIds -> [Positions -> StepStatus]]
    /\ attempts \in [RunIds -> [Positions -> Nat]]
    /\ locker \in [RunIds -> {"none", "handler", "thread"}]
    /\ marked \in [RunIds -> SUBSET Positions]

LedgerInit ==
    /\ status = [r \in RunIds |-> "absent"]
    /\ owner = [r \in RunIds |-> None]
    /\ plan = [r \in RunIds |-> None]
    /\ cancelled = [r \in RunIds |-> FALSE]
    /\ finished = [r \in RunIds |-> FALSE]
    /\ linked = [r \in RunIds |-> FALSE]
    /\ stepStatus = [r \in RunIds |-> [p \in Positions |-> "queued"]]
    /\ attempts = [r \in RunIds |-> [p \in Positions |-> 0]]
    /\ locker = [r \in RunIds |-> "none"]
    /\ marked = [r \in RunIds |-> {}]

Exists(r) == status[r] # "absent"
Unlocked(r) == locker[r] = "none"

(***************************************************************************)
(* submit: INSERT ... ON CONFLICT (tenant_id, idempotency_key) DO NOTHING, *)
(* and the step rows in the same transaction.                              *)
(***************************************************************************)
Conflict(t, k) == \E q \in RunIds : owner[q] = <<t, k>>

submit(r, t, k, pl) ==
    /\ ~Exists(r)
    /\ ~Conflict(t, k)
    /\ status' = [status EXCEPT ![r] = "queued"]
    /\ owner' = [owner EXCEPT ![r] = <<t, k>>]
    /\ plan' = [plan EXCEPT ![r] = pl]
    /\ stepStatus' = [stepStatus EXCEPT ![r] = [p \in Positions |-> "queued"]]
    /\ attempts' = [attempts EXCEPT ![r] = [p \in Positions |-> 0]]
    /\ UNCHANGED <<cancelled, finished, linked, lockVars>>

(***************************************************************************)
(* cancel, its two UPDATEs and its COMMIT.                                 *)
(***************************************************************************)
\* Mutant of Cancellable: the UPDATE lacks its status NOT IN clause.
CancelAnyStatus(r) == Exists(r)

Cancellable(r) == status[r] \notin Terminal

\* Mutant of cancel_update: the sweep forgets the queued steps.
CancelSweepsRunningOnly(r, who) ==
    /\ Unlocked(r)
    /\ Cancellable(r)
    /\ locker' = [locker EXCEPT ![r] = who]
    /\ marked' = [marked EXCEPT ![r] = {p \in Positions : stepStatus[r][p] = "running"}]
    /\ UNCHANGED <<status, rowVars, cancelled, stepStatus, attempts>>

\* Mutant of cancel_update: the sweep forgets the running steps.
CancelSweepsQueuedOnly(r, who) ==
    /\ Unlocked(r)
    /\ Cancellable(r)
    /\ locker' = [locker EXCEPT ![r] = who]
    /\ marked' = [marked EXCEPT ![r] = {p \in Positions : stepStatus[r][p] = "queued"}]
    /\ UNCHANGED <<status, rowVars, cancelled, stepStatus, attempts>>

\* Mutant of cancel_update: the sweep does not look at the status of a step.
CancelSweepsEverything(r, who) ==
    /\ Unlocked(r)
    /\ Cancellable(r)
    /\ locker' = [locker EXCEPT ![r] = who]
    /\ marked' = [marked EXCEPT ![r] = Positions]
    /\ UNCHANGED <<status, rowVars, cancelled, stepStatus, attempts>>

cancel_update(r, who) ==
    /\ Unlocked(r)
    /\ Cancellable(r)
    /\ locker' = [locker EXCEPT ![r] = who]
    /\ marked' = [marked EXCEPT ![r] =
                    {p \in Positions : stepStatus[r][p] \in {"queued", "running"}}]
    /\ UNCHANGED <<status, rowVars, cancelled, stepStatus, attempts>>

\* The rows as the open transaction sees them, which its own _load returns.
Swept(r) == [p \in Positions |->
                IF p \in marked[r] THEN "cancelled" ELSE stepStatus[r][p]]

\* Mutant of cancel_commit: finished_at is not set.
CancelWithoutFinishTime(r) ==
    /\ status' = [status EXCEPT ![r] = "cancelled"]
    /\ cancelled' = [cancelled EXCEPT ![r] = TRUE]
    /\ stepStatus' = [stepStatus EXCEPT ![r] = Swept(r)]
    /\ locker' = [locker EXCEPT ![r] = "none"]
    /\ marked' = [marked EXCEPT ![r] = {}]
    /\ UNCHANGED <<owner, plan, linked, finished, attempts>>

cancel_commit(r) ==
    /\ status' = [status EXCEPT ![r] = "cancelled"]
    /\ cancelled' = [cancelled EXCEPT ![r] = TRUE]
    /\ finished' = [finished EXCEPT ![r] = TRUE]
    /\ stepStatus' = [stepStatus EXCEPT ![r] = Swept(r)]
    /\ locker' = [locker EXCEPT ![r] = "none"]
    /\ marked' = [marked EXCEPT ![r] = {}]
    /\ UNCHANGED <<owner, plan, linked, attempts>>

\* A connection that fails rolls its transaction back.
rollback(r) ==
    /\ locker' = [locker EXCEPT ![r] = "none"]
    /\ marked' = [marked EXCEPT ![r] = {}]
    /\ UNCHANGED <<status, rowVars, cancelled, stepStatus, attempts>>

(***************************************************************************)
(* start, succeed, fail and set_runtime_run_id: UPDATEs of the run row,    *)
(* each with its WHERE clause.  The method returns whether a row matched.  *)
(***************************************************************************)
Startable(r) == status[r] = "queued" /\ ~cancelled[r]

start(r) ==
    /\ Startable(r)
    /\ status' = [status EXCEPT ![r] = "running"]
    /\ UNCHANGED <<rowVars, cancelled, stepStatus, attempts, lockVars>>

\* Mutant of Finishable: a run is finished whatever its status is by now.
FinishAnyStatus(r) == Exists(r)

Finishable(r) == status[r] = "running" /\ ~cancelled[r]

succeed(r) ==
    /\ Finishable(r)
    /\ status' = [status EXCEPT ![r] = "succeeded"]
    /\ finished' = [finished EXCEPT ![r] = TRUE]
    /\ UNCHANGED <<owner, plan, linked, cancelled, stepStatus, attempts, lockVars>>

\* Mutant of fail: the queued steps are left behind.
FailWithoutSweep(r) ==
    /\ Finishable(r)
    /\ status' = [status EXCEPT ![r] = "failed"]
    /\ finished' = [finished EXCEPT ![r] = TRUE]
    /\ UNCHANGED <<owner, plan, linked, cancelled, stepStatus, attempts, lockVars>>

fail(r) ==
    /\ Finishable(r)
    /\ status' = [status EXCEPT ![r] = "failed"]
    /\ finished' = [finished EXCEPT ![r] = TRUE]
    /\ stepStatus' = [stepStatus EXCEPT ![r] =
                        [p \in Positions |-> IF stepStatus[r][p] = "queued"
                                             THEN "cancelled" ELSE stepStatus[r][p]]]
    /\ UNCHANGED <<owner, plan, linked, cancelled, attempts, lockVars>>

Linkable(r) == ~cancelled[r]

set_runtime_run_id(r) ==
    /\ Linkable(r)
    /\ linked' = [linked EXCEPT ![r] = TRUE]
    /\ UNCHANGED <<status, owner, plan, finished, cancelled, stepStatus, attempts, lockVars>>

(***************************************************************************)
(* start_step, succeed_step and fail_step.  Live is the EXISTS clause, read*)
(* when the statement starts; the operators below are the write, made when *)
(* the step row is free, after re-checking the step row's own columns.     *)
(***************************************************************************)
Live(r) == ~cancelled[r]

StepFree(r, p) == p \notin marked[r]

StepStartable(r, p) == stepStatus[r][p] \in {"queued", "failed"}

start_step(r, p) ==
    /\ StepStartable(r, p)
    /\ stepStatus' = [stepStatus EXCEPT ![r][p] = "running"]
    /\ attempts' = [attempts EXCEPT ![r][p] = @ + 1]
    /\ UNCHANGED <<status, rowVars, cancelled, lockVars>>

succeed_step(r, p) ==
    /\ stepStatus' = [stepStatus EXCEPT ![r][p] = "succeeded"]
    /\ UNCHANGED <<status, rowVars, cancelled, attempts, lockVars>>

fail_step(r, p) ==
    /\ stepStatus' = [stepStatus EXCEPT ![r][p] = "failed"]
    /\ UNCHANGED <<status, rowVars, cancelled, attempts, lockVars>>

=============================================================================
