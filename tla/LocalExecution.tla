--------------------------- MODULE LocalExecution ---------------------------
(***************************************************************************)
(* The control plane in its "mock" and "llm" modes: the API handlers, and  *)
(* one daemon thread per run that walks the plan (execute_run in           *)
(* backend/app/main.py).  A thread may die of an exception it does not     *)
(* catch, and the process may be restarted between any two steps; nothing  *)
(* picks a run up again after that.                                        *)
(***************************************************************************)
EXTENDS RunApi

VARIABLES pc,      \* where the run's thread is
          idx,     \* which entry of the order it is at
          tries,   \* its private copy of the steps' attempts
          lost     \* history: runs whose thread is gone before it was done

threadVars == <<pc, idx, tries>>
vars == <<apiVars, threadVars, lost>>

PCs == {"none", "start", "load",
        "startStep", "startStepApply", "complete",
        "succeedStep", "succeedStepApply", "failStep", "failStepApply",
        "succeed", "fail", "done"}

TypeOK ==
    /\ LedgerTypeOK
    /\ HandlerTypeOK
    /\ pc \in [RunIds -> PCs]
    /\ idx \in [RunIds -> 1 .. NumSteps]
    /\ tries \in [RunIds -> [Positions -> Nat]]
    /\ lost \subseteq RunIds

Init ==
    /\ ApiInit
    /\ pc = [r \in RunIds |-> "none"]
    /\ idx = [r \in RunIds |-> 1]
    /\ tries = [r \in RunIds |-> [p \in Positions |-> 0]]
    /\ lost = {}

\* Mutant of Here: the steps are walked as they were submitted.
HereAsSubmitted(r) == idx[r]

\* The position the thread of run r works on.
Here(r) == Order[plan[r]][idx[r]]

Goto(r, there) == pc' = [pc EXCEPT ![r] = there]
Stay == UNCHANGED <<idx, tries, handler, lost>>

-----------------------------------------------------------------------------
\* Thread(...).start() in submit_run, then the answer to the client.
SpawnThread ==
    /\ handler.op = "spawn"
    /\ Goto(handler.run, "start")
    /\ handler' = [handler EXCEPT !.op = "reply"]
    /\ UNCHANGED <<ledger, idx, tries, lost>>

Start(r) ==
    /\ pc[r] = "start"
    /\ Unlocked(r)
    /\ \/ start(r) /\ Goto(r, "load")
       \/ ~Startable(r) /\ Goto(r, "done") /\ UNCHANGED ledger
    /\ Stay

\* store.get and build_executor; an LLMError of the latter fails the run.  The
\* order was computed at submission, and the steps it is computed from again
\* here never change, so it is not None.
Load(r) ==
    /\ pc[r] = "load"
    /\ tries' = [tries EXCEPT ![r] = attempts[r]]
    /\ idx' = [idx EXCEPT ![r] = 1]
    /\ Goto(r, "startStep") \/ Goto(r, "fail")
    /\ UNCHANGED <<ledger, handler, lost>>

\* Mutant of AfterFailure: one retry too many.
RetryOnceMore(r) ==
    IF tries[r][Here(r)] <= MaxRetries[plan[r]][Here(r)] + 1 THEN "startStep" ELSE "fail"

\* Mutant of AfterFailure: the thread returns without failing the run.
GiveUpSilently(r) ==
    IF tries[r][Here(r)] <= MaxRetries[plan[r]][Here(r)] THEN "startStep" ELSE "done"

\* The end of the except LLMError branch.
AfterFailure(r) ==
    IF tries[r][Here(r)] <= MaxRetries[plan[r]][Here(r)] THEN "startStep" ELSE "fail"

\* The snapshot of a step statement: with the run cancelled the statement
\* matches nothing, and the thread returns, except after fail_step, whose
\* answer it does not look at.
StartStep(r) ==
    /\ pc[r] = "startStep"
    /\ Goto(r, IF Live(r) THEN "startStepApply" ELSE "done")
    /\ Stay /\ UNCHANGED ledger

StartStepApply(r) ==
    /\ pc[r] = "startStepApply"
    /\ StepFree(r, Here(r))
    /\ \/ /\ start_step(r, Here(r))
          /\ tries' = [tries EXCEPT ![r][Here(r)] = @ + 1]
          /\ Goto(r, "complete")
       \/ /\ ~StepStartable(r, Here(r))
          /\ Goto(r, "done")
          /\ UNCHANGED <<ledger, tries>>
    /\ UNCHANGED <<idx, handler, lost>>

\* _complete returns a completion or raises an LLMError.
Complete(r) ==
    /\ pc[r] = "complete"
    /\ Goto(r, "succeedStep") \/ Goto(r, "failStep")
    /\ Stay /\ UNCHANGED ledger

SucceedStep(r) ==
    /\ pc[r] = "succeedStep"
    /\ Goto(r, IF Live(r) THEN "succeedStepApply" ELSE "done")
    /\ Stay /\ UNCHANGED ledger

\* Mutant of SucceedStepApply: the walk runs past the end of the order.
WalkPastEnd(r) ==
    /\ pc[r] = "succeedStepApply"
    /\ StepFree(r, Here(r))
    /\ succeed_step(r, Here(r))
    /\ idx' = [idx EXCEPT ![r] = @ + 1]
    /\ Goto(r, IF idx[r] < NumSteps THEN "startStep" ELSE "succeed")
    /\ UNCHANGED <<tries, handler, lost>>

SucceedStepApply(r) ==
    /\ pc[r] = "succeedStepApply"
    /\ StepFree(r, Here(r))
    /\ succeed_step(r, Here(r))
    /\ \/ /\ idx[r] < NumSteps
          /\ idx' = [idx EXCEPT ![r] = @ + 1]
          /\ Goto(r, "startStep")
       \/ /\ idx[r] = NumSteps
          /\ Goto(r, "succeed")
          /\ UNCHANGED idx
    /\ UNCHANGED <<tries, handler, lost>>

FailStep(r) ==
    /\ pc[r] = "failStep"
    /\ Goto(r, IF Live(r) THEN "failStepApply" ELSE AfterFailure(r))
    /\ Stay /\ UNCHANGED ledger

FailStepApply(r) ==
    /\ pc[r] = "failStepApply"
    /\ StepFree(r, Here(r))
    /\ fail_step(r, Here(r))
    /\ Goto(r, AfterFailure(r))
    /\ Stay

Succeed(r) ==
    /\ pc[r] = "succeed"
    /\ Unlocked(r)
    /\ succeed(r) \/ (~Finishable(r) /\ UNCHANGED ledger)
    /\ Goto(r, "done")
    /\ Stay

Fail(r) ==
    /\ pc[r] = "fail"
    /\ Unlocked(r)
    /\ fail(r) \/ (~Finishable(r) /\ UNCHANGED ledger)
    /\ Goto(r, "done")
    /\ Stay

Thread(r) ==
    \/ Start(r) \/ Load(r)
    \/ StartStep(r) \/ StartStepApply(r) \/ Complete(r)
    \/ SucceedStep(r) \/ SucceedStepApply(r) \/ FailStep(r) \/ FailStepApply(r)
    \/ Succeed(r) \/ Fail(r)

Serve == HandlerSteps /\ UNCHANGED <<threadVars, lost>>

-----------------------------------------------------------------------------
\* An exception other than LLMError ends the thread: a database error, a pool
\* timeout, a malformed provider answer.
ThreadDies(r) ==
    /\ pc[r] \notin {"none", "done"}
    /\ Goto(r, "done")
    /\ lost' = lost \cup {r}
    /\ UNCHANGED <<apiVars, idx, tries>>

\* The process is stopped and started again: threads and the request being
\* served are gone, open transactions are rolled back.
Abandoned == {r \in RunIds : pc[r] \notin {"none", "done"}}
             \cup (IF handler.op = "spawn" THEN {handler.run} ELSE {})

Restart ==
    /\ pc' = [r \in RunIds |-> IF pc[r] = "none" THEN "none" ELSE "done"]
    /\ lost' = lost \cup Abandoned
    /\ handler' = Idle
    /\ locker' = [r \in RunIds |-> "none"]
    /\ marked' = [r \in RunIds |-> {}]
    /\ UNCHANGED <<status, rowVars, cancelled, stepStatus, attempts, idx, tries>>

Next ==
    \/ Requests /\ UNCHANGED <<threadVars, lost>>
    \/ Serve
    \/ SpawnThread
    \/ \E r \in RunIds : Thread(r) \/ ThreadDies(r)
    \/ RequestFails /\ UNCHANGED <<threadVars, lost>>
    \/ Restart

Spec == Init /\ [][Next]_vars

\* The event loop and every thread keep running while they can: Python
\* schedules its threads preemptively and provider calls have a timeout
\* (LLM_TIMEOUT_SECONDS).  A thread that waits for a row lock is queued by
\* PostgreSQL and woken when the lock is released, so a stream of cancel
\* requests that all fail cannot keep it out forever: strong fairness.  No
\* fairness on requests, on failures or on restarts.
Fairness ==
    /\ WF_vars(Serve)
    /\ WF_vars(SpawnThread)
    /\ \A r \in RunIds : SF_vars(Thread(r))

FairSpec == Spec /\ Fairness

-----------------------------------------------------------------------------
(***************************************************************************)
(* Properties.                                                             *)
(***************************************************************************)
Lifecycle == INSTANCE RunLifecycle

\* The ledger behaves as RunLifecycle says, whatever interleaving of handlers,
\* threads, database errors and restarts happens: one run per tenant and key,
\* no status is skipped, and a final status stays.
ImplementsLifecycle == Lifecycle!Spec

\* A step was started at most max_retries + 1 times, and none is reported as
\* running, succeeded or failed without having been started, even when a
\* cancellation falls between fail_step and the retry.
RetryBudget ==
    \A r \in RunIds : Exists(r) => \A p \in Positions :
        /\ attempts[r][p] <= MaxRetries[plan[r]][p] + 1
        /\ stepStatus[r][p] \in {"running", "succeeded", "failed"} => attempts[r][p] >= 1

\* execute_run starts a step only when everything it depends on has succeeded,
\* and that stays so: no late statement of a thread or a cancellation takes a
\* success back from under a step that was started on it.
DependenciesFirst ==
    \A r \in RunIds, p \in Positions :
        Exists(r) /\ attempts[r][p] > 0 =>
            \A d \in DependsOn[plan[r]][p] : stepStatus[r][d] = "succeeded"

\* The row of a run is consistent with itself: the cancelled flag that every
\* statement of the executor tests, the status and finished_at agree.
FlagsAgree ==
    \A r \in RunIds :
        /\ cancelled[r] <=> (status[r] = "cancelled")
        /\ finished[r] <=> (status[r] \in Terminal)

\* A finished run explains itself: a succeeded run has only succeeded steps; a
\* failed one has nothing left to do, and either no step was started (the
\* executor could not be built) or one step used up its retry budget.
FinishedRunsAreSettled ==
    \A r \in RunIds :
        /\ status[r] = "succeeded" =>
               \A p \in Positions : stepStatus[r][p] = "succeeded"
        /\ status[r] = "failed" =>
               /\ \A p \in Positions : stepStatus[r][p] \in Terminal
               /\ \/ \A p \in Positions : attempts[r][p] = 0
                  \/ \E p \in Positions :
                        /\ stepStatus[r][p] = "failed"
                        /\ attempts[r][p] = MaxRetries[plan[r]][p] + 1

\* Cancelling sweeps the steps although it runs beside the thread: nothing is
\* queued afterwards, and only a retry that was already under way can be
\* running.
CancelSweepsSteps ==
    \A r \in RunIds : status[r] = "cancelled" => \A p \in Positions :
        /\ stepStatus[r][p] # "queued"
        /\ stepStatus[r][p] = "running" => attempts[r][p] >= 2

\* _load reads the run row before the steps, so an answer that reports a final
\* status never shows steps from before it: all of a succeeded run have succeeded,
\* all of a failed one have ended, and none of a cancelled one is queued any more
\* (a retry that its sweep missed may be running, see CancelSweepsSteps).
AnswersAreConsistent ==
    handler.op = "reply" =>
        /\ handler.seen = "succeeded" =>
               \A p \in Positions : handler.view[p] = "succeeded"
        /\ handler.seen = "failed" =>
               \A p \in Positions : handler.view[p] \in Terminal
        /\ handler.seen = "cancelled" =>
               \A p \in Positions : handler.view[p] # "queued"

\* succeed_step and fail_step do not test the status of the step, and yet a
\* step that succeeded is never anything else again.
SuccessIsKept ==
    [][\A r \in RunIds, p \in Positions :
           stepStatus[r][p] = "succeeded" => stepStatus'[r][p] = "succeeded"]_vars

\* What test_cancel_persists_terminal_state (backend/tests/test_postgres_store.py)
\* says of a cancelled run: its steps are in a final state.  Asked here once the
\* run's thread has returned by itself, so that nothing is under way any more.
CancelPersistsTerminalState ==
    \A r \in RunIds : status[r] = "cancelled" /\ pc[r] = "done" /\ r \notin lost =>
        \A p \in Positions : stepStatus[r][p] # "running"

\* Every accepted run reaches a final status, unless its thread was killed or
\* its process restarted.
EveryRunSettles ==
    \A r \in RunIds : Exists(r) ~> (status[r] \in Terminal \/ r \in lost)

-----------------------------------------------------------------------------
(***************************************************************************)
(* The inductive invariant behind the theorems of LocalExecutionProofs.    *)
(* Everything but HandlerInv and Unique speaks of one run.                 *)
(***************************************************************************)
Unstarted == {"none", "start", "load"}
Walking == {"startStep", "startStepApply", "complete", "succeedStep",
            "succeedStepApply", "failStep", "failStepApply"}
Completing == Walking \ {"startStep", "startStepApply"}

Budget(r) == MaxRetries[plan[r]][Here(r)]

\* The row, its owner and the place of the thread fit together.
RowInv(r) ==
    /\ Exists(r) => owner[r] # None /\ plan[r] \in Plans /\ Accepted(plan[r])
    /\ ~Exists(r) =>
           /\ owner[r] = None /\ pc[r] = "none" /\ idx[r] = 1
           /\ \A p \in Positions : stepStatus[r][p] = "queued"
    /\ cancelled[r] <=> (status[r] = "cancelled")
    /\ finished[r] <=> (status[r] \in Terminal)
    /\ ~linked[r]
    /\ pc[r] = "none" => status[r] \in {"absent", "queued", "cancelled"}
    /\ pc[r] = "start" => status[r] \in {"queued", "cancelled"}
    /\ pc[r] \in Walking \cup {"load", "succeed", "fail"} =>
           status[r] \in {"running", "cancelled"}

\* An open cancel transaction has marked whatever is queued, holds the marked
\* rows still, and has missed at most a retry.
LockInv(r) ==
    /\ locker[r] = "none" => marked[r] = {}
    /\ locker[r] # "none" =>
           /\ status[r] \in {"queued", "running"}
           /\ \A p \in Positions :
                  /\ p \in marked[r] => stepStatus[r][p] \in {"queued", "running"}
                  /\ stepStatus[r][p] = "queued" => p \in marked[r]
                  /\ stepStatus[r][p] = "running" /\ p \notin marked[r] => attempts[r][p] >= 2

\* What holds of the steps of an existing run: the walk has succeeded on what
\* is behind it and has not touched what is ahead of it.
WalkInv(r) ==
    /\ \A j \in 1 .. NumSteps :
           LET p == Order[plan[r]][j] IN
           /\ j < idx[r] => stepStatus[r][p] = "succeeded"
           /\ j > idx[r] => attempts[r][p] = 0
    /\ \A p \in Positions :
           /\ attempts[r][p] <= MaxRetries[plan[r]][p] + 1
           /\ attempts[r][p] = 0 => stepStatus[r][p] \in {"queued", "cancelled"}
           /\ stepStatus[r][p] = "queued" => attempts[r][p] = 0
           /\ stepStatus[r][p] = "cancelled" => status[r] \in {"cancelled", "failed"}
           /\ status[r] = "queued" => stepStatus[r][p] = "queued"
           /\ status[r] = "cancelled" =>
                  /\ stepStatus[r][p] # "queued"
                  /\ stepStatus[r][p] = "running" => attempts[r][p] >= 2

\* What the place of the thread says about the step it is at.
PlaceInv(r) ==
    /\ pc[r] \in Unstarted => idx[r] = 1 /\ \A p \in Positions : attempts[r][p] = 0
    /\ pc[r] \in Walking => tries[r] = attempts[r]
    /\ pc[r] \in {"startStep", "startStepApply"} =>
           /\ attempts[r][Here(r)] <= Budget(r)
           /\ ~cancelled[r] => stepStatus[r][Here(r)] \in {"queued", "failed"}
    /\ pc[r] = "startStepApply" => stepStatus[r][Here(r)] \in {"queued", "failed", "cancelled"}
    /\ pc[r] \in Completing =>
           /\ attempts[r][Here(r)] >= 1
           /\ stepStatus[r][Here(r)] \in {"running", "cancelled"}
           /\ ~cancelled[r] => stepStatus[r][Here(r)] = "running"
    /\ pc[r] = "succeed" => \A p \in Positions : stepStatus[r][p] = "succeeded"
    /\ pc[r] = "fail" =>
           \/ \A p \in Positions : attempts[r][p] = 0
           \/ /\ attempts[r][Here(r)] = Budget(r) + 1
              /\ ~cancelled[r] => stepStatus[r][Here(r)] = "failed"

\* A run that ended by its thread is settled (FinishedRunsAreSettled).
SettledInv(r) ==
    /\ status[r] = "succeeded" => \A p \in Positions : stepStatus[r][p] = "succeeded"
    /\ status[r] = "failed" =>
           /\ \A p \in Positions : stepStatus[r][p] \in Terminal
           /\ \/ \A p \in Positions : attempts[r][p] = 0
              \/ \E p \in Positions :
                    /\ stepStatus[r][p] = "failed"
                    /\ attempts[r][p] = MaxRetries[plan[r]][p] + 1

RunInv(r) ==
    /\ RowInv(r)
    /\ LockInv(r)
    /\ Exists(r) => WalkInv(r) /\ PlaceInv(r) /\ SettledInv(r)

Unique ==
    \A q, r \in RunIds : owner[q] = owner[r] /\ owner[r] # None => q = r

\* What the request being served knows, and that it holds the only row lock.
HandlerInv ==
    /\ handler.op # "forward" /\ ~handler.link
    /\ handler.op # "idle" => Exists(handler.run)
    /\ handler.op = "spawn" =>
           /\ pc[handler.run] = "none" /\ status[handler.run] = "queued"
           /\ handler.seen = "queued"
    /\ handler.op = "steps" /\ handler.seen \in Terminal =>
           status[handler.run] = handler.seen
    /\ \A r \in RunIds :
           locker[r] # "none" <=> (handler.op = "commit" /\ handler.run = r)
    /\ AnswersAreConsistent

\* The strengthening of the safety properties that every step preserves.
IInv ==
    /\ TypeOK
    /\ Unique
    /\ HandlerInv
    /\ \A r \in RunIds : RunInv(r)

=============================================================================
