-------------------------- MODULE ExternalExecution --------------------------
(***************************************************************************)
(* The control plane in its "equaxis" and "agent_http" modes: the run's    *)
(* thread submits the run to an external agent runtime, polls it and       *)
(* mirrors its snapshots into the ledger (_execute_external_run and        *)
(* _sync_external_steps in backend/app/main.py), while cancel_run forwards *)
(* a cancellation to the runtime.                                          *)
(*                                                                         *)
(* The runtime is not part of the repository.  It is modelled from what    *)
(* main.py and runtime.py expect of it: a submission is idempotent, a run  *)
(* that is done has succeeded in all its steps, a finished run has no step *)
(* under way, a cancelled run stays cancelled.  A snapshot names a step at *)
(* most once and may leave out any of them.  Any call may fail, and a      *)
(* submission the client gave up on may still arrive.                      *)
(***************************************************************************)
EXTENDS RunApi

CONSTANT MaxPolls   \* bound: runtime.get calls that fit before the deadline

ASSUME PollAssumption == MaxPolls \in Nat

VARIABLES pc,        \* where the run's thread is
          snapshot,  \* the runtime's answer it works on
          local,     \* the step statuses it read before mirroring
          pos,       \* the step of the snapshot it is mirroring
          polls,     \* runtime.get calls made so far
          lost,      \* history: runs whose thread is gone before it was done
          refused,   \* history: runs for which a call to the runtime failed
          extStatus, \* the runtime's run, in the runtime's own words
          extStep,   \* the runtime's steps
          inflight   \* submissions the client gave up on, still under way

threadVars == <<pc, snapshot, local, pos, polls>>
runtime == <<extStatus, extStep, inflight>>
history == <<lost, refused>>
vars == <<apiVars, threadVars, runtime, history>>

ExtStatus == {"none", "queued", "running", "done", "error", "cancelled"}

PCs == {"none", "start", "submit", "link", "sync", "step", "startStepApply",
        "write", "writeApply", "settle", "timeout", "poll",
        "succeed", "fail", "cancel", "cancelCommit", "done"}

\* What a snapshot says of a step: "omitted" is a step it says nothing of,
\* because there is no list of steps, no entry for the step, or an entry that is
\* not an object or carries another name.
ShownStatus == StepStatus \cup {"omitted"}

\* An answer of the runtime, in which only the steps of shown are listed.
Snapshot(word, steps, shown) ==
    [status |-> word,
     steps |-> [p \in Positions |-> IF p \in shown THEN steps[p] ELSE "omitted"]]

TypeOK ==
    /\ LedgerTypeOK
    /\ HandlerTypeOK
    /\ pc \in [RunIds -> PCs]
    /\ snapshot \in [RunIds -> [status : ExtStatus, steps : [Positions -> ShownStatus]]]
    /\ local \in [RunIds -> [Positions -> StepStatus]]
    /\ pos \in [RunIds -> 1 .. NumSteps + 1]
    /\ polls \in [RunIds -> 0 .. MaxPolls]
    /\ lost \subseteq RunIds
    /\ refused \subseteq RunIds
    /\ extStatus \in [RunIds -> ExtStatus]
    /\ extStep \in [RunIds -> [Positions -> StepStatus]]
    /\ inflight \subseteq RunIds

Init ==
    /\ ApiInit
    /\ pc = [r \in RunIds |-> "none"]
    /\ snapshot = [r \in RunIds |-> [status |-> "none", steps |-> NoView]]
    /\ local = [r \in RunIds |-> NoView]
    /\ pos = [r \in RunIds |-> 1]
    /\ polls = [r \in RunIds |-> 0]
    /\ lost = {}
    /\ refused = {}
    /\ extStatus = [r \in RunIds |-> "none"]
    /\ extStep = [r \in RunIds |-> NoView]
    /\ inflight = {}

Goto(r, there) == pc' = [pc EXCEPT ![r] = there]

-----------------------------------------------------------------------------
(***************************************************************************)
(* The external runtime.                                                   *)
(***************************************************************************)
ExtActive(r) == extStatus[r] \in {"queued", "running"}

\* Steps that a finished run leaves behind.
Halted(r) == [p \in Positions |-> IF extStep[r][p] \in {"queued", "running"}
                                  THEN "cancelled" ELSE extStep[r][p]]

\* A submission arrives; its idempotency key makes a second one a no-op.
Accept(r) ==
    extStatus' = IF extStatus[r] = "none"
                 THEN [extStatus EXCEPT ![r] = "queued"] ELSE extStatus

\* A cancellation arrives.
Halt(r) ==
    IF ExtActive(r)
    THEN /\ extStatus' = [extStatus EXCEPT ![r] = "cancelled"]
         /\ extStep' = [extStep EXCEPT ![r] = Halted(r)]
    ELSE UNCHANGED <<extStatus, extStep>>

\* Steps run, succeed, fail and are retried at the runtime's discretion.
RuntimeStep(r, p) ==
    /\ ExtActive(r)
    /\ \E s \in StepStatus :
           /\ <<extStep[r][p], s>> \in {<<"queued", "running">>, <<"failed", "running">>,
                                        <<"running", "succeeded">>, <<"running", "failed">>}
           /\ extStep' = [extStep EXCEPT ![r][p] = s]
    /\ extStatus' = [extStatus EXCEPT ![r] = "running"]
    /\ UNCHANGED inflight

RuntimeFinish(r) ==
    /\ extStatus[r] = "running"
    /\ \/ /\ \A p \in Positions : extStep[r][p] = "succeeded"
          /\ extStatus' = [extStatus EXCEPT ![r] = "done"]
          /\ UNCHANGED extStep
       \/ /\ \E p \in Positions : extStep[r][p] = "failed"
          /\ extStatus' = [extStatus EXCEPT ![r] = "error"]
          /\ extStep' = [extStep EXCEPT ![r] = Halted(r)]
    /\ UNCHANGED inflight

\* Somebody cancels the run on the runtime's side.
RuntimeCancel(r) == ExtActive(r) /\ Halt(r) /\ UNCHANGED inflight

LateSubmission(r) ==
    /\ r \in inflight
    /\ inflight' = inflight \ {r}
    /\ Accept(r)
    /\ UNCHANGED extStep

Runtime(r) ==
    /\ \/ \E p \in Positions : RuntimeStep(r, p)
       \/ RuntimeFinish(r)
       \/ RuntimeCancel(r)
       \/ LateSubmission(r)
    /\ UNCHANGED <<apiVars, threadVars, history>>

-----------------------------------------------------------------------------
(***************************************************************************)
(* The run's thread.                                                       *)
(***************************************************************************)
SpawnThread ==
    /\ handler.op = "spawn"
    /\ Goto(handler.run, "start")
    /\ handler' = [handler EXCEPT !.op = "reply"]
    /\ UNCHANGED <<ledger, snapshot, local, pos, polls, runtime, history>>

Start(r) ==
    /\ pc[r] = "start"
    /\ Unlocked(r)
    /\ \/ start(r) /\ Goto(r, "submit")
       \/ ~Startable(r) /\ Goto(r, "done") /\ UNCHANGED ledger
    /\ UNCHANGED <<snapshot, local, pos, polls, handler, runtime, history>>

\* runtime.submit.  A RuntimeClientError (no adapter, an HTTP error, a timeout,
\* an answer without an id) fails the run; the submission may arrive anyway.
Submit(r) ==
    /\ pc[r] = "submit"
    /\ \/ /\ Accept(r)
          /\ \E shown \in SUBSET Positions :
                 snapshot' = [snapshot EXCEPT ![r] = Snapshot(extStatus'[r], extStep[r], shown)]
          /\ Goto(r, "link")
          /\ UNCHANGED <<inflight, refused>>
       \/ /\ inflight' = inflight \cup {r}
          /\ refused' = refused \cup {r}
          /\ Goto(r, "fail")
          /\ UNCHANGED <<extStatus, snapshot>>
    /\ UNCHANGED <<apiVars, local, pos, polls, extStep, lost>>

Link(r) ==
    /\ pc[r] = "link"
    /\ Unlocked(r)
    /\ \/ set_runtime_run_id(r) /\ Goto(r, "sync")
       \/ ~Linkable(r) /\ Goto(r, "done") /\ UNCHANGED ledger
    /\ UNCHANGED <<snapshot, local, pos, polls, handler, runtime, history>>

\* _sync_external_steps: store.get, then the steps of the snapshot in turn.
Sync(r) ==
    /\ pc[r] = "sync"
    /\ local' = [local EXCEPT ![r] = stepStatus[r]]
    /\ pos' = [pos EXCEPT ![r] = 1]
    /\ Goto(r, "step")
    /\ UNCHANGED <<apiVars, snapshot, polls, runtime, history>>

\* The runtime's words for the status of a run or a step.
_normalize_runtime_status(word) ==
    CASE word = "done"  -> "succeeded"
      [] word = "error" -> "failed"
      [] OTHER          -> word

External(r) == _normalize_runtime_status(snapshot[r].steps[pos[r]])

NextStep(r) == pos' = [pos EXCEPT ![r] = @ + 1] /\ Goto(r, "step")

\* Mutant of MustStart: the local status is not looked at.
MustStartAlways(r) == External(r) \in {"running", "succeeded", "failed"}

\* A step the runtime has started and the ledger still has queued is started
\* in the ledger first.  A start_step that finds the run cancelled skips the
\* rest of this step.
MustStart(r) ==
    External(r) \in {"running", "succeeded", "failed"} /\ local[r][pos[r]] = "queued"

AfterStart(r) ==
    IF External(r) \in {"succeeded", "failed"}
    THEN Goto(r, "write") /\ UNCHANGED pos ELSE NextStep(r)

\* A step that is omitted is passed over like one that is still queued.
Step(r) ==
    /\ pc[r] = "step"
    /\ \/ /\ pos[r] > NumSteps
          /\ Goto(r, "settle") /\ UNCHANGED pos
       \/ /\ pos[r] <= NumSteps /\ MustStart(r)
          /\ IF Live(r) THEN Goto(r, "startStepApply") /\ UNCHANGED pos ELSE NextStep(r)
       \/ /\ pos[r] <= NumSteps /\ ~MustStart(r)
          /\ AfterStart(r)
    /\ UNCHANGED <<apiVars, snapshot, local, polls, runtime, history>>

StartStepApply(r) ==
    /\ pc[r] = "startStepApply"
    /\ StepFree(r, pos[r])
    /\ \/ start_step(r, pos[r]) /\ AfterStart(r)
       \/ ~StepStartable(r, pos[r]) /\ NextStep(r) /\ UNCHANGED ledger
    /\ UNCHANGED <<handler, snapshot, local, polls, runtime, history>>

Write(r) ==
    /\ pc[r] = "write"
    /\ IF Live(r) THEN Goto(r, "writeApply") /\ UNCHANGED pos ELSE NextStep(r)
    /\ UNCHANGED <<apiVars, snapshot, local, polls, runtime, history>>

WriteApply(r) ==
    /\ pc[r] = "writeApply"
    /\ StepFree(r, pos[r])
    /\ \/ External(r) = "succeeded" /\ succeed_step(r, pos[r])
       \/ External(r) = "failed" /\ fail_step(r, pos[r])
    /\ NextStep(r)
    /\ UNCHANGED <<handler, snapshot, local, polls, runtime, history>>

\* Mutant of Settle: the thread acts on a status newer than what it mirrored.
SettleUnmirrored(r) ==
    LET outcome == _normalize_runtime_status(extStatus[r]) IN
    /\ pc[r] = "settle"
    /\ \/ outcome = "succeeded" /\ Goto(r, "succeed")
       \/ outcome = "failed" /\ Goto(r, "fail")
       \/ outcome = "cancelled" /\ Goto(r, "cancel")
       \/ outcome \notin Terminal /\ Goto(r, "timeout")
       \/ outcome \notin Terminal /\ polls[r] < MaxPolls /\ Goto(r, "poll")
    /\ UNCHANGED <<apiVars, snapshot, local, pos, polls, runtime, history>>

\* Mutant of Settle: one poll after the deadline.
SettlePollsOnceMore(r) ==
    LET outcome == _normalize_runtime_status(snapshot[r].status) IN
    /\ pc[r] = "settle"
    /\ \/ outcome = "succeeded" /\ Goto(r, "succeed")
       \/ outcome = "failed" /\ Goto(r, "fail")
       \/ outcome = "cancelled" /\ Goto(r, "cancel")
       \/ outcome \notin Terminal /\ Goto(r, "timeout")
       \/ outcome \notin Terminal /\ polls[r] <= MaxPolls /\ Goto(r, "poll")
    /\ UNCHANGED <<apiVars, snapshot, local, pos, polls, runtime, history>>

\* The thread acts on the status of the snapshot it has mirrored.  The deadline
\* may pass at any poll, and has passed after MaxPolls of them.
Settle(r) ==
    LET outcome == _normalize_runtime_status(snapshot[r].status) IN
    /\ pc[r] = "settle"
    /\ \/ outcome = "succeeded" /\ Goto(r, "succeed")
       \/ outcome = "failed" /\ Goto(r, "fail")
       \/ outcome = "cancelled" /\ Goto(r, "cancel")
       \/ outcome \notin Terminal /\ Goto(r, "timeout")
       \/ outcome \notin Terminal /\ polls[r] < MaxPolls /\ Goto(r, "poll")
    /\ UNCHANGED <<apiVars, snapshot, local, pos, polls, runtime, history>>

\* Mutant of Poll: a RuntimeClientError ends the thread without store.fail.
PollErrorUnreported(r) ==
    /\ pc[r] = "poll"
    /\ \/ /\ \E shown \in SUBSET Positions :
                 snapshot' = [snapshot EXCEPT ![r] = Snapshot(extStatus[r], extStep[r], shown)]
          /\ polls' = [polls EXCEPT ![r] = @ + 1]
          /\ Goto(r, "sync")
          /\ UNCHANGED refused
       \/ /\ refused' = refused \cup {r}
          /\ Goto(r, "done")
          /\ UNCHANGED <<snapshot, polls>>
    /\ UNCHANGED <<apiVars, local, pos, runtime, lost>>

Poll(r) ==
    /\ pc[r] = "poll"
    /\ \/ /\ \E shown \in SUBSET Positions :
                 snapshot' = [snapshot EXCEPT ![r] = Snapshot(extStatus[r], extStep[r], shown)]
          /\ polls' = [polls EXCEPT ![r] = @ + 1]
          /\ Goto(r, "sync")
          /\ UNCHANGED refused
       \/ /\ refused' = refused \cup {r}
          /\ Goto(r, "fail")
          /\ UNCHANGED <<snapshot, polls>>
    /\ UNCHANGED <<apiVars, local, pos, runtime, lost>>

\* Mutant of Timeout: the runtime is not told.
TimeoutWithoutCancel(r) ==
    /\ pc[r] = "timeout"
    /\ Goto(r, "fail")
    /\ UNCHANGED <<apiVars, snapshot, local, pos, polls, runtime, history>>

\* The deadline has passed: the runtime is told to stop, and whether or not it
\* hears of it the run fails.
Timeout(r) ==
    /\ pc[r] = "timeout"
    /\ \/ Halt(r) /\ UNCHANGED refused
       \/ refused' = refused \cup {r} /\ UNCHANGED <<extStatus, extStep>>
    /\ Goto(r, "fail")
    /\ UNCHANGED <<apiVars, snapshot, local, pos, polls, inflight, lost>>

Succeed(r) ==
    /\ pc[r] = "succeed"
    /\ Unlocked(r)
    /\ succeed(r) \/ (~Finishable(r) /\ UNCHANGED ledger)
    /\ Goto(r, "done")
    /\ UNCHANGED <<handler, snapshot, local, pos, polls, runtime, history>>

Fail(r) ==
    /\ pc[r] = "fail"
    /\ Unlocked(r)
    /\ fail(r) \/ (~Finishable(r) /\ UNCHANGED ledger)
    /\ Goto(r, "done")
    /\ UNCHANGED <<handler, snapshot, local, pos, polls, runtime, history>>

\* The runtime reports the run as cancelled: the thread calls store.cancel.
Cancel(r) ==
    /\ pc[r] = "cancel"
    /\ \/ cancel_update(r, "thread") /\ Goto(r, "cancelCommit")
       \/ ~Cancellable(r) /\ Goto(r, "done") /\ UNCHANGED ledger
    /\ UNCHANGED <<handler, snapshot, local, pos, polls, runtime, history>>

ThreadCancelCommit(r) ==
    /\ pc[r] = "cancelCommit"
    /\ cancel_commit(r)
    /\ Goto(r, "done")
    /\ UNCHANGED <<handler, snapshot, local, pos, polls, runtime, history>>

Thread(r) ==
    \/ Start(r) \/ Submit(r) \/ Link(r)
    \/ Sync(r) \/ Step(r) \/ StartStepApply(r) \/ Write(r) \/ WriteApply(r)
    \/ Settle(r) \/ Poll(r) \/ Timeout(r)
    \/ Succeed(r) \/ Fail(r) \/ Cancel(r) \/ ThreadCancelCommit(r)

-----------------------------------------------------------------------------
Serve == HandlerSteps /\ UNCHANGED <<threadVars, runtime, history>>

\* cancel_run forwards the cancellation when runtime_run_id was set as it
\* started; a RuntimeClientError is swallowed.
Forward ==
    /\ handler.op = "forward"
    /\ \/ Halt(handler.run) /\ UNCHANGED refused
       \/ refused' = refused \cup {handler.run} /\ UNCHANGED <<extStatus, extStep>>
    /\ handler' = [handler EXCEPT !.op = "reply"]
    /\ UNCHANGED <<ledger, threadVars, inflight, lost>>

\* An exception other than RuntimeClientError ends the thread; a transaction it
\* has open is rolled back.
ThreadDies(r) ==
    /\ pc[r] \notin {"none", "done"}
    /\ \/ pc[r] = "cancelCommit" /\ rollback(r)
       \/ pc[r] # "cancelCommit" /\ UNCHANGED ledger
    /\ Goto(r, "done")
    /\ lost' = lost \cup {r}
    /\ UNCHANGED <<handler, snapshot, local, pos, polls, runtime, refused>>

Abandoned == {r \in RunIds : pc[r] \notin {"none", "done"}}
             \cup (IF handler.op = "spawn" THEN {handler.run} ELSE {})

\* A restart during a forward loses the call to the runtime.
Restart ==
    /\ pc' = [r \in RunIds |-> IF pc[r] = "none" THEN "none" ELSE "done"]
    /\ lost' = lost \cup Abandoned
    /\ refused' = IF handler.op = "forward" THEN refused \cup {handler.run} ELSE refused
    /\ handler' = Idle
    /\ locker' = [r \in RunIds |-> "none"]
    /\ marked' = [r \in RunIds |-> {}]
    /\ UNCHANGED <<status, rowVars, cancelled, stepStatus, attempts,
                   snapshot, local, pos, polls, runtime>>

Next ==
    \/ Requests /\ UNCHANGED <<threadVars, runtime, history>>
    \/ Serve
    \/ Forward
    \/ SpawnThread
    \/ \E r \in RunIds : Thread(r) \/ ThreadDies(r) \/ Runtime(r)
    \/ RequestFails /\ UNCHANGED <<threadVars, runtime, history>>
    \/ Restart

Spec == Init /\ [][Next]_vars

\* As in LocalExecution; calls to the runtime have a timeout of their own.  The
\* runtime itself is not assumed to make progress.
Fairness ==
    /\ WF_vars(Serve)
    /\ WF_vars(Forward)
    /\ WF_vars(SpawnThread)
    /\ \A r \in RunIds : SF_vars(Thread(r))

FairSpec == Spec /\ Fairness

-----------------------------------------------------------------------------
(***************************************************************************)
(* Properties.                                                             *)
(***************************************************************************)
Lifecycle == INSTANCE RunLifecycle

\* Delegated runs keep the promise of RunLifecycle too, although the poller and
\* cancel_run may both cancel the run and the runtime may disagree with both.
ImplementsLifecycle == Lifecycle!Spec

\* The ledger reports a success only if the runtime finished the run, and then
\* every step has been mirrored except those the runtime's last answer omitted:
\* no start_step that was skipped, no stale snapshot and no race with a
\* cancellation leaves another hole.
SuccessIsReal ==
    \A r \in RunIds : status[r] = "succeeded" =>
        /\ extStatus[r] = "done"
        /\ \A p \in Positions :
               snapshot[r].steps[p] # "omitted" => stepStatus[r][p] = "succeeded"

\* Mirroring never runs ahead of the runtime, and however often a snapshot is
\* applied a step is started in the ledger at most once.
MirrorIsTruthful ==
    \A r \in RunIds, p \in Positions :
        /\ stepStatus[r][p] = "succeeded" => extStep[r][p] = "succeeded"
        /\ attempts[r][p] <= 1
        /\ attempts[r][p] = 0 => stepStatus[r][p] \in {"queued", "cancelled"}

\* A cancelled run has no step left to run, whoever cancelled it and whichever
\* statement of the poller was under way.
CancelSettlesSteps ==
    \A r \in RunIds : status[r] = "cancelled" =>
        \A p \in Positions : stepStatus[r][p] \in Terminal

\* When polling times out, or the runtime reports an error, the ledger says
\* failed and the runtime is not left working on the run, unless a call to it
\* failed.
FailureStopsRuntime ==
    \A r \in RunIds : status[r] = "failed" /\ r \notin refused => ~ExtActive(r)

\* Every delegated run reaches a final status by its deadline, even if the
\* runtime never makes progress, unless its thread or process is killed.
EveryRunSettles ==
    \A r \in RunIds : Exists(r) ~> (status[r] \in Terminal \/ r \in lost)

\* "forwards cancellation" (README.md): a run that was cancelled does not go on
\* at the runtime once nothing of it is under way here, unless a call failed.
CancellationIsForwarded ==
    \A r \in RunIds :
        /\ status[r] = "cancelled" /\ pc[r] = "done" /\ r \notin lost \cup refused
        /\ handler.run # r
        => ~ExtActive(r)

\* "mirrors step snapshots" (README.md): when a run has ended because the
\* runtime said so, and its last snapshot was mirrored, a step is running in
\* the ledger only if that snapshot says it is running, or omits it.
SnapshotsAreMirrored ==
    \A r \in RunIds :
        /\ status[r] \in {"succeeded", "failed"} /\ pc[r] = "done" /\ r \notin refused
        /\ _normalize_runtime_status(snapshot[r].status) \in Terminal
        => \A p \in Positions : stepStatus[r][p] = "running" =>
               snapshot[r].steps[p] \in {"running", "omitted"}

=============================================================================
