----------------------- MODULE ExternalExecutionProofs -----------------------
(***************************************************************************)
(* Theorems about ExternalExecution, for any number of runs, tenants, keys *)
(* and steps and any number of polls.                                      *)
(***************************************************************************)
EXTENDS ExternalExecution, RunApiProofs

-----------------------------------------------------------------------------
(***************************************************************************)
(* The inductive invariant IInv, in terms of one run.                      *)
(***************************************************************************)
\* The places of a thread that has started its run and is not done.
Working == PCs \ {"none", "start", "done"}

\* The places where the runtime has accepted the submission.
Submitted == Working \ {"submit", "fail"}

\* The places where the steps of a snapshot are being mirrored.
Mirroring == {"step", "startStepApply", "write", "writeApply"}

\* A run that ended at the runtime.
Stopped == {"done", "error", "cancelled"}

\* Every step that the last snapshot lists has succeeded in the ledger.
Mirrored(r) ==
    \A p \in Positions :
        snapshot[r].steps[p] # "omitted" => stepStatus[r][p] = "succeeded"

\* The run row: its columns agree, and with the place of the thread.
RowInv(r) ==
    /\ cancelled[r] <=> status[r] = "cancelled"
    /\ ~Exists(r) => owner[r] = None /\ pc[r] = "none" /\ locker[r] = "none"
    /\ pc[r] \in {"none", "start"} => status[r] \in {"absent", "queued", "cancelled"}
    /\ pc[r] \in Working => status[r] \in {"running", "cancelled"}

\* An open cancellation: the run is not final, and every step that is not has
\* been marked.
LockInv(r) ==
    /\ locker[r] # "none" =>
           /\ status[r] \in {"queued", "running"}
           /\ \A p \in Positions : stepStatus[r][p] \in {"queued", "running"} => p \in marked[r]
    /\ locker[r] = "thread" <=> pc[r] = "cancelCommit"

\* The step rows.
StepInv(r) ==
    \A p \in Positions :
        /\ attempts[r][p] <= 1
        /\ attempts[r][p] = 0 => stepStatus[r][p] \in {"queued", "cancelled"}
        /\ stepStatus[r][p] = "queued" => attempts[r][p] = 0
        /\ stepStatus[r][p] = "succeeded" => extStep[r][p] = "succeeded"
        /\ stepStatus[r][p] = "cancelled" => status[r] \in {"cancelled", "failed"}
        /\ status[r] = "cancelled" => stepStatus[r][p] \in Terminal

\* The runtime's run, what the thread last heard of it, and why a run that
\* failed does not go on there.
ExtInv(r) ==
    /\ extStatus[r] = "done" => \A p \in Positions : extStep[r][p] = "succeeded"
    /\ snapshot[r].status = "done" =>
           /\ extStatus[r] = "done"
           /\ \A p \in Positions : snapshot[r].steps[p] \in {"succeeded", "omitted"}
    /\ snapshot[r].status = "error" => extStatus[r] = "error"
    /\ \A p \in Positions : snapshot[r].steps[p] = "succeeded" => extStep[r][p] = "succeeded"
    /\ r \in inflight => r \in refused
    /\ pc[r] \in Submitted => extStatus[r] # "none"
    /\ pc[r] = "fail" \/ status[r] = "failed" => r \in refused \/ extStatus[r] \in Stopped

\* The walk over a snapshot: what is behind pos has been mirrored unless the run
\* was cancelled, and what is ahead is as it was when it was read, or swept.
WalkInv(r) ==
    /\ pc[r] \in {"startStepApply", "write", "writeApply"} => pos[r] <= NumSteps
    /\ pc[r] = "settle" => pos[r] > NumSteps
    /\ pc[r] = "poll" => polls[r] < MaxPolls
    /\ pc[r] \in Mirroring => \A p \in Positions :
           /\ local[r][p] = "cancelled" => cancelled[r]
           /\ local[r][p] \notin {"queued", "cancelled"} => attempts[r][p] >= 1
           /\ /\ p > pos[r] \/ (p = pos[r] /\ pc[r] \in {"step", "startStepApply"})
              /\ local[r][p] = "queued"
              => stepStatus[r][p] \in {"queued", "cancelled"}
    /\ pc[r] = "startStepApply" => local[r][pos[r]] = "queued"
    /\ pc[r] \in Mirroring \cup {"settle"} => \A p \in Positions :
           p < pos[r] /\ snapshot[r].steps[p] = "succeeded" =>
               cancelled[r] \/ stepStatus[r][p] = "succeeded"
    /\ pc[r] \in {"write", "writeApply"} => External(r) \in {"succeeded", "failed"}
    /\ pc[r] = "write" => cancelled[r] \/ attempts[r][pos[r]] >= 1
    /\ pc[r] = "writeApply" => attempts[r][pos[r]] >= 1
    /\ pc[r] = "succeed" =>
           /\ snapshot[r].status = "done"
           /\ cancelled[r] \/ Mirrored(r)

\* A run that succeeded.
SettledInv(r) ==
    status[r] = "succeeded" => extStatus[r] = "done" /\ Mirrored(r)

RunInv(r) ==
    /\ RowInv(r) /\ LockInv(r) /\ StepInv(r)
    /\ ExtInv(r) /\ WalkInv(r) /\ SettledInv(r)

\* The request being served is about an existing run; it alone holds the lock
\* that a cancel_run takes, and a run it is about to start has no thread.
HandlerInv ==
    /\ handler.op # "idle" => Exists(handler.run)
    /\ handler.op = "spawn" => pc[handler.run] = "none"
    /\ \A r \in RunIds : locker[r] = "handler" <=> handler.op = "commit" /\ handler.run = r

IInv ==
    /\ TypeOK
    /\ HandlerInv
    /\ \A r \in RunIds : RunInv(r)

-----------------------------------------------------------------------------
(***************************************************************************)
(* Types.  That pos and polls stay in their ranges takes the walk.         *)
(***************************************************************************)
LEMMA TypeInit == Init => TypeOK
<1> SUFFICES ASSUME Init PROVE TypeOK
    OBVIOUS
<1>1. LedgerTypeOK /\ HandlerTypeOK
    BY ApiTypeInit DEF Init, ApiTypeOK
<1>2. NoView \in [Positions -> StepStatus]
    BY DEF NoView, StepStatus
<1>3. 1 \in 1 .. NumSteps + 1 /\ 0 \in 0 .. MaxPolls
    BY PlanAssumption, PollAssumption
<1> QED
    BY <1>1, <1>2, <1>3 DEF Init, TypeOK, PCs, ExtStatus, ShownStatus

\* An answer that leaves out steps has the type of a snapshot.
LEMMA SnapshotFacts ==
    ASSUME NEW word \in ExtStatus, NEW steps \in [Positions -> StepStatus],
           NEW shown \in SUBSET Positions
    PROVE  Snapshot(word, steps, shown) \in [status : ExtStatus, steps : [Positions -> ShownStatus]]
    BY DEF Snapshot, ShownStatus

\* What the runtime does keeps its own types.
LEMMA RuntimeTypes ==
    ASSUME TypeOK, NEW r \in RunIds
    PROVE  /\ Halted(r) \in [Positions -> StepStatus]
           /\ Accept(r) => extStatus' \in [RunIds -> ExtStatus]
           /\ Halt(r) => /\ extStatus' \in [RunIds -> ExtStatus]
                         /\ extStep' \in [RunIds -> [Positions -> StepStatus]]
<1> USE DEF TypeOK
<1>1. Halted(r) \in [Positions -> StepStatus]
    BY DEF Halted, StepStatus, Terminal
<1>2. Accept(r) => extStatus' \in [RunIds -> ExtStatus]
    BY DEF Accept, ExtStatus
<1>3. ASSUME Halt(r)
      PROVE  /\ extStatus' \in [RunIds -> ExtStatus]
             /\ extStep' \in [RunIds -> [Positions -> StepStatus]]
  <2>1. CASE ExtActive(r)
    <3>1. extStatus' = [extStatus EXCEPT ![r] = "cancelled"] /\ extStep' = [extStep EXCEPT ![r] = Halted(r)]
      BY <1>3, <2>1 DEF Halt
    <3>2. extStatus' \in [RunIds -> ExtStatus]
      BY <3>1 DEF ExtStatus
    <3>3. extStep' \in [RunIds -> [Positions -> StepStatus]]
      BY <1>1, <3>1
    <3> QED
      BY <3>2, <3>3
  <2>2. CASE ~ExtActive(r)
    BY <1>3, <2>2 DEF Halt
  <2> QED
    BY <2>1, <2>2
<1> QED
    BY <1>1, <1>2, <1>3

LEMMA NextStepType ==
    ASSUME TypeOK, NEW r \in RunIds, pos[r] <= NumSteps, NextStep(r)
    PROVE  pos' \in [RunIds -> 1 .. NumSteps + 1] /\ pc' \in [RunIds -> PCs]
<1>1. pos[r] \in 1 .. NumSteps + 1 /\ NumSteps \in Nat
    BY PlanAssumption DEF TypeOK
<1>2. pos[r] + 1 \in 1 .. NumSteps + 1
    BY <1>1
<1> QED
    BY <1>2 DEF NextStep, Goto, TypeOK, PCs

LEMMA ThreadType ==
    ASSUME TypeOK, NEW r \in RunIds, WalkInv(r), Thread(r)
    PROVE  TypeOK'
<1> USE DEF Goto, TypeOK
<1>0. /\ {"submit", "done", "link", "fail", "sync", "step", "settle", "startStepApply", "write",
          "writeApply", "succeed", "cancel", "timeout", "poll", "cancelCommit"} \subseteq PCs
      /\ 1 \in 1 .. NumSteps + 1
    BY PlanAssumption DEF PCs
<1>1. HandlerTypeOK'
    BY DEF Thread, Start, Submit, Link, Sync, Step, StartStepApply, Write, WriteApply, Settle, Poll,
           Timeout, Succeed, Fail, Cancel, ThreadCancelCommit, apiVars, HandlerTypeOK
<1>2. CASE Start(r) \/ Link(r) \/ Succeed(r) \/ Fail(r)
  <2>1. LedgerTypeOK'
    BY <1>2, RunUpdateType DEF Start, Link, Succeed, Fail
  <2>2. pc' \in [RunIds -> PCs] /\ UNCHANGED <<snapshot, local, pos, polls, runtime, history>>
    BY <1>0, <1>2 DEF Start, Link, Succeed, Fail
  <2> QED
    BY <1>1, <2>1, <2>2 DEF runtime, history
<1>3. CASE Submit(r)
  <2>0. pc' \in [RunIds -> PCs]
    BY <1>0, <1>3 DEF Submit
  <2>1. LedgerTypeOK' /\ UNCHANGED <<local, pos, polls, extStep, lost>>
    BY <1>3 DEF Submit, apiVars, ledger, LedgerTypeOK
  <2>2. CASE Accept(r) /\ UNCHANGED <<inflight, refused>>
             /\ \E shown \in SUBSET Positions :
                    snapshot' = [snapshot EXCEPT ![r] = Snapshot(extStatus'[r], extStep[r], shown)]
    <3>1. extStatus' \in [RunIds -> ExtStatus] /\ extStep[r] \in [Positions -> StepStatus]
      BY <2>2, RuntimeTypes
    <3>2. PICK shown \in SUBSET Positions :
              snapshot' = [snapshot EXCEPT ![r] = Snapshot(extStatus'[r], extStep[r], shown)]
      BY <2>2
    <3>3. Snapshot(extStatus'[r], extStep[r], shown)
              \in [status : ExtStatus, steps : [Positions -> ShownStatus]]
      BY <3>1, SnapshotFacts
    <3>4. snapshot' \in [RunIds -> [status : ExtStatus, steps : [Positions -> ShownStatus]]]
      BY <3>2, <3>3
    <3> QED
      BY <1>1, <2>0, <2>1, <2>2, <3>1, <3>4
  <2>3. CASE UNCHANGED <<extStatus, snapshot>> /\ inflight' = inflight \cup {r} /\ refused' = refused \cup {r}
    BY <1>1, <2>0, <2>1, <2>3
  <2> QED
    BY <1>3, <2>2, <2>3 DEF Submit
<1>4. CASE Sync(r)
  <2>1. stepStatus[r] \in [Positions -> StepStatus]
    BY DEF LedgerTypeOK
  <2>2. LedgerTypeOK'
    BY <1>4 DEF Sync, apiVars, ledger, LedgerTypeOK
  <2> QED
    BY <1>0, <1>1, <1>4, <2>1, <2>2 DEF Sync, runtime, history
<1>5. CASE Step(r) \/ StartStepApply(r) \/ Write(r) \/ WriteApply(r)
  <2>1. LedgerTypeOK'
    <3>1. CASE Step(r) \/ Write(r)
      BY <3>1 DEF Step, Write, apiVars, ledger, LedgerTypeOK
    <3>2. CASE StartStepApply(r) \/ WriteApply(r)
      BY <3>2, StepUpdateType DEF StartStepApply, WriteApply
    <3> QED
      BY <1>5, <3>1, <3>2
  <2>2. pos' \in [RunIds -> 1 .. NumSteps + 1] /\ pc' \in [RunIds -> PCs]
    <3>1. CASE pos[r] <= NumSteps /\ NextStep(r)
      BY <3>1, NextStepType
    <3>2. CASE UNCHANGED pos /\ \E there \in PCs : Goto(r, there)
      BY <3>2
    <3>3. pos[r] <= NumSteps \/ pc[r] = "step"
      BY <1>5 DEF Step, StartStepApply, Write, WriteApply, WalkInv
    <3> QED
      BY <1>0, <1>5, <3>1, <3>2, <3>3 DEF Step, StartStepApply, Write, WriteApply, AfterStart
  <2>3. UNCHANGED <<snapshot, local, polls, runtime, history>>
    BY <1>5 DEF Step, StartStepApply, Write, WriteApply
  <2> QED
    BY <1>1, <2>1, <2>2, <2>3 DEF runtime, history
<1>6. CASE Settle(r)
  <2>0. pc' \in [RunIds -> PCs]
    BY <1>0, <1>6 DEF Settle
  <2>1. LedgerTypeOK'
    BY <1>6 DEF Settle, apiVars, ledger, LedgerTypeOK
  <2> QED
    BY <1>1, <1>6, <2>0, <2>1 DEF Settle, runtime, history
<1>7. CASE Poll(r)
  <2>0. pc' \in [RunIds -> PCs]
    BY <1>0, <1>7 DEF Poll
  <2>1. LedgerTypeOK'
    BY <1>7 DEF Poll, apiVars, ledger, LedgerTypeOK
  <2>2. ASSUME NEW shown \in SUBSET Positions
        PROVE  Snapshot(extStatus[r], extStep[r], shown)
                   \in [status : ExtStatus, steps : [Positions -> ShownStatus]]
    BY SnapshotFacts
  <2>3. polls[r] + 1 \in 0 .. MaxPolls
    <3>1. polls[r] \in 0 .. MaxPolls /\ polls[r] < MaxPolls /\ MaxPolls \in Nat
      BY <1>7, PollAssumption DEF Poll, WalkInv
    <3> QED
      BY <3>1
  <2>4. polls' \in [RunIds -> 0 .. MaxPolls]
    BY <1>7, <2>3, ZenonT(60) DEF Poll
  <2>5. snapshot' \in [RunIds -> [status : ExtStatus, steps : [Positions -> ShownStatus]]]
    <3>1. CASE UNCHANGED snapshot
      BY <3>1
    <3>2. CASE \E shown \in SUBSET Positions :
                   snapshot' = [snapshot EXCEPT ![r] = Snapshot(extStatus[r], extStep[r], shown)]
      <4>1. PICK shown \in SUBSET Positions :
                snapshot' = [snapshot EXCEPT ![r] = Snapshot(extStatus[r], extStep[r], shown)]
        BY <3>2
      <4> QED
        BY <2>2, <4>1
    <3> QED
      BY <1>7, <3>1, <3>2 DEF Poll
  <2> QED
    BY <1>1, <1>7, <2>0, <2>1, <2>4, <2>5 DEF Poll, runtime
<1>8. CASE Timeout(r)
  <2>1. LedgerTypeOK' /\ pc' \in [RunIds -> PCs]
    BY <1>0, <1>8 DEF Timeout, apiVars, ledger, LedgerTypeOK
  <2>2. /\ extStatus' \in [RunIds -> ExtStatus]
        /\ extStep' \in [RunIds -> [Positions -> StepStatus]]
    BY <1>8, RuntimeTypes DEF Timeout
  <2> QED
    BY <1>1, <1>8, <2>1, <2>2 DEF Timeout
<1>9. CASE Cancel(r) \/ ThreadCancelCommit(r)
  <2>1. LedgerTypeOK'
    BY <1>9, CancelType, RunUpdateType DEF Cancel, ThreadCancelCommit
  <2>2. pc' \in [RunIds -> PCs] /\ UNCHANGED <<snapshot, local, pos, polls, runtime, history>>
    BY <1>0, <1>9 DEF Cancel, ThreadCancelCommit
  <2> QED
    BY <1>1, <2>1, <2>2 DEF runtime, history
<1> QED
    BY <1>2, <1>3, <1>4, <1>5, <1>6, <1>7, <1>8, <1>9 DEF Thread

LEMMA RuntimeType ==
    ASSUME TypeOK, NEW r \in RunIds, Runtime(r)
    PROVE  TypeOK'
<1> USE DEF TypeOK, Runtime, apiVars, threadVars, history
<1>1. LedgerTypeOK' /\ HandlerTypeOK'
    BY DEF ledger, LedgerTypeOK, HandlerTypeOK
<1>2. ASSUME /\ extStatus' \in [RunIds -> ExtStatus]
             /\ extStep' \in [RunIds -> [Positions -> StepStatus]]
             /\ inflight' \subseteq inflight
      PROVE  TypeOK'
    BY <1>1, <1>2
<1>3. ASSUME NEW p \in Positions, RuntimeStep(r, p) PROVE TypeOK'
  <2>1. PICK s \in StepStatus : extStep' = [extStep EXCEPT ![r][p] = s]
    BY <1>3 DEF RuntimeStep
  <2>2. [extStep EXCEPT ![r][p] = s] \in [RunIds -> [Positions -> StepStatus]]
    BY UpdateType
  <2>3. extStatus' \in [RunIds -> ExtStatus]
    BY <1>3 DEF RuntimeStep, ExtStatus
  <2> QED
    BY <1>2, <1>3, <2>1, <2>2, <2>3 DEF RuntimeStep
<1>4. CASE RuntimeFinish(r)
  <2>1. extStatus' \in [RunIds -> ExtStatus]
    BY <1>4 DEF RuntimeFinish, ExtStatus
  <2>2. extStep' \in [RunIds -> [Positions -> StepStatus]]
    <3>1. Halted(r) \in [Positions -> StepStatus]
      BY RuntimeTypes
    <3>2. UNCHANGED extStep \/ extStep' = [extStep EXCEPT ![r] = Halted(r)]
      BY <1>4 DEF RuntimeFinish
    <3> QED
      BY <3>1, <3>2
  <2> QED
    BY <1>2, <1>4, <2>1, <2>2 DEF RuntimeFinish
<1>5. CASE RuntimeCancel(r)
    BY <1>2, <1>5, RuntimeTypes DEF RuntimeCancel
<1>6. CASE LateSubmission(r)
    BY <1>2, <1>6, RuntimeTypes DEF LateSubmission
<1> QED
    BY <1>3, <1>4, <1>5, <1>6

LEMMA TypeStep ==
    ASSUME TypeOK, \A r \in RunIds : WalkInv(r), [Next]_vars
    PROVE  TypeOK'
<1>0. ApiTypeOK
    BY DEF TypeOK, ApiTypeOK
<1>1. ASSUME ApiTypeOK', UNCHANGED <<threadVars, runtime, history>>
      PROVE  TypeOK'
    BY <1>1 DEF TypeOK, ApiTypeOK, threadVars, runtime, history
<1>2. CASE Forward
  <2> USE DEF TypeOK
  <2>1. handler.run \in RunIds /\ LedgerTypeOK'
    BY <1>2 DEF Forward, ledger, LedgerTypeOK, HandlerTypeOK
  <2>2. HandlerTypeOK'
    BY <1>2 DEF Forward, HandlerTypeOK, HandlerOps
  <2>3. /\ extStatus' \in [RunIds -> ExtStatus]
        /\ extStep' \in [RunIds -> [Positions -> StepStatus]]
    BY <1>2, <2>1, RuntimeTypes DEF Forward
  <2> QED
    BY <1>2, <2>1, <2>2, <2>3 DEF Forward, threadVars
<1>3. CASE SpawnThread
    BY <1>3 DEF SpawnThread, Goto, PCs, ledger, runtime, history, TypeOK, LedgerTypeOK, HandlerTypeOK, HandlerOps
<1>4. ASSUME NEW r \in RunIds, ThreadDies(r)
      PROVE  TypeOK'
  <2>1. LedgerTypeOK'
    BY <1>4, CancelType, RunUpdateType DEF ThreadDies, TypeOK
  <2>2. pc' \in [RunIds -> PCs]
    BY <1>4 DEF ThreadDies, Goto, PCs, TypeOK
  <2> QED
    BY <1>4, <2>1, <2>2 DEF ThreadDies, runtime, TypeOK, HandlerTypeOK
<1>5. CASE Restart
  <2> USE DEF TypeOK
  <2>1. HandlerTypeOK'
    BY <1>5 DEF Restart, HandlerTypeOK, HandlerOps, Idle, Handler, NoView, RunStatus, StepStatus, Terminal
  <2>2. LedgerTypeOK'
    BY <1>5 DEF Restart, rowVars, LedgerTypeOK
  <2>3. lost' \subseteq RunIds /\ refused' \subseteq RunIds
    BY <1>5 DEF Restart, Abandoned, HandlerTypeOK
  <2>4. pc' \in [RunIds -> PCs]
    BY <1>5 DEF Restart, PCs
  <2> QED
    BY <1>5, <2>1, <2>2, <2>3, <2>4 DEF Restart, runtime
<1>6. CASE UNCHANGED vars
    BY <1>6 DEF vars, apiVars, ledger, threadVars, runtime, history, TypeOK, LedgerTypeOK, HandlerTypeOK
<1> QED
    BY <1>0, <1>1, <1>2, <1>3, <1>4, <1>5, <1>6, RequestsType, HandlerStepsType, RequestFailsType,
       ThreadType, RuntimeType DEF Next, Serve

-----------------------------------------------------------------------------
(***************************************************************************)
(* The inductive invariant IInv.  A step changes the ledger and the thread *)
(* of at most one run; Same says of a run that the step leaves both alone, *)
(* and Moves what the runtime may do meanwhile.                            *)
(***************************************************************************)
SameRow(q) ==
    /\ status'[q] = status[q]
    /\ owner'[q] = owner[q]
    /\ cancelled'[q] = cancelled[q]
    /\ stepStatus'[q] = stepStatus[q]
    /\ attempts'[q] = attempts[q]

SameLock(q) == locker'[q] = locker[q] /\ marked'[q] = marked[q]

SameThread(q) ==
    /\ pc'[q] = pc[q]
    /\ snapshot'[q] = snapshot[q]
    /\ local'[q] = local[q]
    /\ pos'[q] = pos[q]
    /\ polls'[q] = polls[q]

\* A step that succeeded at the runtime stays so, a run that stopped there does
\* not start again, and a failed call is remembered.
Moves(q) ==
    /\ \A p \in Positions : extStep[q][p] = "succeeded" => extStep'[q][p] = "succeeded"
    /\ extStatus[q] \in Stopped => extStatus'[q] = extStatus[q]
    /\ extStatus[q] # "none" => extStatus'[q] # "none"
    /\ extStatus'[q] = "done" => \A p \in Positions : extStep'[q][p] = "succeeded"
    /\ q \in inflight' => q \in refused'
    /\ q \in refused => q \in refused'

Same(q) == SameRow(q) /\ SameLock(q) /\ SameThread(q) /\ Moves(q)

\* The parts of RunInv that survive a step of which they do not see much.
LEMMA KeepSteps ==
    ASSUME NEW q \in RunIds, RunInv(q), SameRow(q), Moves(q),
           status[q] = "succeeded" => snapshot'[q] = snapshot[q]
    PROVE  StepInv(q)' /\ SettledInv(q)'
<1>1. StepInv(q)'
    BY DEF RunInv, StepInv, SameRow, Moves
<1>2. SettledInv(q)'
    BY DEF RunInv, SettledInv, Mirrored, SameRow, Moves, Stopped
<1> QED
    BY <1>1, <1>2

LEMMA KeepExt ==
    ASSUME NEW q \in RunIds, RunInv(q), Moves(q), snapshot'[q] = snapshot[q],
           pc'[q] \in Submitted => pc[q] \in Submitted,
           pc'[q] = "fail" \/ status'[q] = "failed" =>
               \/ pc[q] = "fail" \/ status[q] = "failed"
               \/ q \in refused' \/ extStatus'[q] \in Stopped
    PROVE  ExtInv(q)'
    BY DEF RunInv, ExtInv, Moves, Stopped

LEMMA KeepWalk ==
    ASSUME NEW q \in RunIds, RunInv(q), SameThread(q), attempts'[q] = attempts[q],
           \/ SameRow(q)
           \/ /\ cancelled'[q]
              /\ \A p \in Positions :
                     stepStatus'[q][p] \in {"queued", "cancelled"} \/ stepStatus'[q][p] = stepStatus[q][p]
    PROVE  WalkInv(q)'
<1>1. External(q)' = External(q)
    BY DEF External, SameThread
<1>2. CASE SameRow(q)
    BY <1>1, <1>2 DEF RunInv, WalkInv, Mirrored, SameThread, SameRow
<1>3. CASE cancelled'[q] /\ \A p \in Positions :
               stepStatus'[q][p] \in {"queued", "cancelled"} \/ stepStatus'[q][p] = stepStatus[q][p]
    BY <1>1, <1>3 DEF RunInv, WalkInv, Mirrored, SameThread
<1> QED
    BY <1>2, <1>3

\* Away from the walk WalkInv says nothing.
LEMMA NoWalk ==
    ASSUME NEW q \in RunIds, pc'[q] \notin Mirroring \cup {"settle", "poll", "succeed"}
    PROVE  WalkInv(q)'
    BY DEF WalkInv, Mirroring

LEMMA SameRunInv ==
    ASSUME NEW q \in RunIds, RunInv(q), Same(q)
    PROVE  RunInv(q)'
<1> USE DEF Same
<1>1. RowInv(q)'
    BY DEF RunInv, RowInv, SameRow, SameLock, SameThread, Exists
<1>2. LockInv(q)'
    BY DEF RunInv, LockInv, SameRow, SameLock, SameThread
<1>3. StepInv(q)' /\ SettledInv(q)'
    BY KeepSteps DEF SameThread
<1>4. ExtInv(q)'
    BY KeepExt DEF SameThread, SameRow
<1>5. WalkInv(q)'
    BY KeepWalk DEF SameRow
<1> QED
    BY <1>1, <1>2, <1>3, <1>4, <1>5 DEF RunInv

-----------------------------------------------------------------------------
(***************************************************************************)
(* What the runtime does.                                                  *)
(***************************************************************************)
\* Nothing happens to a run at the runtime.
LEMMA StillMoves ==
    ASSUME NEW q \in RunIds, RunInv(q), extStatus'[q] = extStatus[q], extStep'[q] = extStep[q],
           q \in inflight' => q \in inflight \cup refused', q \in refused => q \in refused'
    PROVE  Moves(q)
    BY DEF RunInv, ExtInv, Moves

\* A submission arrives.
LEMMA AcceptMoves ==
    ASSUME TypeOK, NEW r \in RunIds, RunInv(r), Accept(r), UNCHANGED <<extStep, refused>>,
           r \in inflight' => r \in inflight
    PROVE  Moves(r) /\ extStatus'[r] # "none"
<1>1. CASE extStatus[r] = "none" /\ extStatus'[r] = "queued"
    BY <1>1 DEF RunInv, ExtInv, Moves, Stopped
<1>2. CASE extStatus[r] # "none" /\ extStatus'[r] = extStatus[r]
    BY <1>2, StillMoves
<1> QED
    BY <1>1, <1>2 DEF Accept, TypeOK

\* A cancellation arrives.
LEMMA HaltMoves ==
    ASSUME TypeOK, NEW r \in RunIds, RunInv(r), Halt(r), UNCHANGED inflight,
           r \in refused => r \in refused'
    PROVE  Moves(r) /\ ~ExtActive(r)'
<1>1. CASE ExtActive(r)
  <2>1. extStatus'[r] = "cancelled" /\ extStep'[r] = Halted(r)
    BY <1>1 DEF Halt, TypeOK
  <2>2. \A p \in Positions : extStep[r][p] = "succeeded" => extStep'[r][p] = "succeeded"
    BY <2>1 DEF Halted
  <2> QED
    BY <1>1, <2>1, <2>2 DEF ExtActive, Moves, Stopped, RunInv, ExtInv
<1>2. CASE ~ExtActive(r)
  <2>1. extStatus'[r] = extStatus[r] /\ extStep'[r] = extStep[r]
    BY <1>2 DEF Halt
  <2>2. Moves(r)
    BY <2>1, StillMoves
  <2> QED
    BY <1>2, <2>1, <2>2 DEF ExtActive
<1> QED
    BY <1>1, <1>2

LEMMA RuntimeFrame ==
    ASSUME TypeOK, NEW r \in RunIds, NEW q \in RunIds \ {r}, RunInv(q),
           \/ Accept(r) /\ UNCHANGED extStep
           \/ Halt(r)
           \/ UNCHANGED <<extStatus, extStep>>,
           q \in inflight' => q \in inflight, q \in refused => q \in refused'
    PROVE  Moves(q)
<1>1. extStatus'[q] = extStatus[q] /\ extStep'[q] = extStep[q]
    BY DEF Accept, Halt, TypeOK
<1> QED
    BY <1>1, StillMoves

LEMMA RuntimeMoves ==
    ASSUME TypeOK, NEW r \in RunIds, Runtime(r), NEW q \in RunIds, RunInv(q)
    PROVE  Same(q)
<1>1. SameRow(q) /\ SameLock(q) /\ SameThread(q) /\ refused' = refused
    BY DEF Runtime, apiVars, ledger, threadVars, history, SameRow, SameLock, SameThread
<1>2. ASSUME NEW p \in Positions, RuntimeStep(r, p) PROVE Moves(q)
  <2>1. PICK s \in StepStatus :
            /\ extStep' = [extStep EXCEPT ![r][p] = s]
            /\ extStep[r][p] # "succeeded"
    BY <1>2 DEF RuntimeStep
  <2>2. \A k \in Positions : extStep[q][k] = "succeeded" => extStep'[q][k] = "succeeded"
    BY <2>1 DEF TypeOK
  <2>3. CASE q = r
    <3>1. extStatus[r] \notin Stopped /\ extStatus'[r] = "running" /\ UNCHANGED inflight
      BY <1>2 DEF RuntimeStep, ExtActive, Stopped, TypeOK
    <3> QED
      BY <1>1, <2>2, <2>3, <3>1 DEF Moves, RunInv, ExtInv
  <2>4. CASE q # r
    <3>1. extStatus'[q] = extStatus[q] /\ extStep'[q] = extStep[q] /\ UNCHANGED inflight
      BY <1>2, <2>1, <2>4 DEF RuntimeStep, TypeOK
    <3> QED
      BY <1>1, <3>1, StillMoves
  <2> QED
    BY <2>3, <2>4
<1>3. ASSUME RuntimeFinish(r) PROVE Moves(q)
  <2>1. inflight' = inflight
    BY <1>3 DEF RuntimeFinish
  <2>2. CASE q = r
    <3>1. \A p \in Positions : extStep[r][p] = "succeeded" => extStep'[r][p] = "succeeded"
      <4>1. \A p \in Positions : extStep[r][p] = "succeeded" => Halted(r)[p] = "succeeded"
        BY DEF Halted
      <4> QED
        BY <1>3, <4>1 DEF RuntimeFinish, TypeOK
    <3>2. /\ extStatus[r] = "running" /\ extStatus'[r] \in {"done", "error"}
          /\ extStatus'[r] = "done" => \A p \in Positions : extStep[r][p] = "succeeded"
      BY <1>3 DEF RuntimeFinish, TypeOK
    <3> QED
      BY <1>1, <2>1, <2>2, <3>1, <3>2 DEF Moves, RunInv, ExtInv, Stopped
  <2>3. CASE q # r
    <3>1. extStatus'[q] = extStatus[q] /\ extStep'[q] = extStep[q]
      BY <1>3, <2>3 DEF RuntimeFinish, TypeOK
    <3> QED
      BY <1>1, <2>1, <3>1, StillMoves
  <2> QED
    BY <2>2, <2>3
<1>4. ASSUME RuntimeCancel(r) PROVE Moves(q)
  <2>1. Halt(r) /\ inflight' = inflight
    BY <1>4 DEF RuntimeCancel
  <2> QED
    BY <1>1, <2>1, HaltMoves, RuntimeFrame
<1>5. ASSUME LateSubmission(r) PROVE Moves(q)
  <2>1. Accept(r) /\ extStep' = extStep /\ inflight' = inflight \ {r}
    BY <1>5 DEF LateSubmission
  <2> QED
    BY <1>1, <2>1, AcceptMoves, RuntimeFrame
<1> QED
    BY <1>1, <1>2, <1>3, <1>4, <1>5 DEF Runtime, Same

-----------------------------------------------------------------------------
(***************************************************************************)
(* What a step of a thread leaves alone.                                   *)
(***************************************************************************)
LEMMA ThreadMoves ==
    ASSUME TypeOK, NEW r \in RunIds, Thread(r), NEW q \in RunIds, RunInv(q)
    PROVE  Moves(q)
<1>1. CASE Submit(r)
  <2>1. CASE Accept(r) /\ UNCHANGED <<extStep, inflight, refused>>
    <3>1. CASE q = r
      BY <2>1, <3>1, AcceptMoves
    <3>2. CASE q # r
      BY <2>1, <3>2, RuntimeFrame
    <3> QED
      BY <3>1, <3>2
  <2>2. CASE /\ UNCHANGED <<extStatus, extStep>>
             /\ inflight' = inflight \cup {r} /\ refused' = refused \cup {r}
    BY <2>2, StillMoves
  <2> QED
    BY <1>1, <2>1, <2>2 DEF Submit
<1>2. CASE Timeout(r)
  <2>1. CASE Halt(r) /\ UNCHANGED <<inflight, refused>>
    <3>1. CASE q = r
      BY <2>1, <3>1, HaltMoves
    <3>2. CASE q # r
      BY <2>1, <3>2, RuntimeFrame
    <3> QED
      BY <3>1, <3>2
  <2>2. CASE UNCHANGED <<extStatus, extStep, inflight>> /\ refused' = refused \cup {r}
    BY <2>2, StillMoves
  <2> QED
    BY <1>2, <2>1, <2>2 DEF Timeout
<1>3. CASE Poll(r)
  <2>1. UNCHANGED <<extStatus, extStep, inflight>> /\ refused \subseteq refused'
    BY <1>3 DEF Poll, runtime
  <2> QED
    BY <2>1, StillMoves
<1>4. CASE \/ Start(r) \/ Link(r) \/ Sync(r) \/ Step(r) \/ StartStepApply(r) \/ Write(r)
           \/ WriteApply(r) \/ Settle(r) \/ Succeed(r) \/ Fail(r) \/ Cancel(r) \/ ThreadCancelCommit(r)
  <2>1. UNCHANGED <<extStatus, extStep, inflight, refused>>
    BY <1>4 DEF Start, Link, Sync, Step, StartStepApply, Write, WriteApply, Settle, Succeed, Fail,
                Cancel, ThreadCancelCommit, runtime, history
  <2> QED
    BY <2>1, StillMoves
<1> QED
    BY <1>1, <1>2, <1>3, <1>4 DEF Thread

\* The runtime's answer and the ledger of another run.
LEMMA ThreadFrame ==
    ASSUME TypeOK, NEW r \in RunIds, Thread(r), NEW q \in RunIds \ {r}
    PROVE  SameRow(q) /\ SameLock(q) /\ SameThread(q)
<1> USE DEF Goto, NextStep, TypeOK, LedgerTypeOK, SameRow, SameLock, SameThread
<1>1. CASE Start(r)
    BY <1>1 DEF Start, start, ledger, rowVars, lockVars
<1>2. CASE Submit(r)
    BY <1>2 DEF Submit, apiVars, ledger
<1>3. CASE Link(r)
    BY <1>3 DEF Link, set_runtime_run_id, ledger, lockVars
<1>4. CASE Sync(r)
    BY <1>4 DEF Sync, apiVars, ledger
<1>5. CASE Step(r)
    BY <1>5 DEF Step, AfterStart, apiVars, ledger
<1>6. CASE StartStepApply(r)
    BY <1>6 DEF StartStepApply, start_step, AfterStart, ledger, rowVars, lockVars
<1>7. CASE Write(r)
    BY <1>7 DEF Write, apiVars, ledger
<1>8. CASE WriteApply(r)
    BY <1>8 DEF WriteApply, succeed_step, fail_step, rowVars, lockVars
<1>9. CASE Settle(r)
    BY <1>9 DEF Settle, apiVars, ledger
<1>10. CASE Poll(r)
    BY <1>10 DEF Poll, apiVars, ledger
<1>11. CASE Timeout(r)
    BY <1>11 DEF Timeout, apiVars, ledger
<1>12. CASE Succeed(r)
    BY <1>12 DEF Succeed, succeed, ledger, lockVars
<1>13. CASE Fail(r)
    BY <1>13 DEF Fail, fail, ledger, lockVars
<1>14. CASE Cancel(r)
    BY <1>14 DEF Cancel, cancel_update, ledger, rowVars
<1>15. CASE ThreadCancelCommit(r)
    BY <1>15 DEF ThreadCancelCommit, cancel_commit
<1> QED
    BY <1>1, <1>2, <1>3, <1>4, <1>5, <1>6, <1>7, <1>8, <1>9, <1>10, <1>11, <1>12, <1>13,
       <1>14, <1>15 DEF Thread

-----------------------------------------------------------------------------
(***************************************************************************)
(* The run of the thread that takes a step.                                *)
(***************************************************************************)
\* Steps that leave the ledger alone and only move the thread.
LEMMA QuietRow ==
    ASSUME NEW r \in RunIds, RunInv(r), SameRow(r), SameLock(r),
           pc[r] \in Working \ {"cancelCommit"},
           pc'[r] \in (Working \ {"cancelCommit"}) \cup {"done"}
    PROVE  RowInv(r)' /\ LockInv(r)'
<1>1. RowInv(r)'
    BY DEF RunInv, RowInv, SameRow, SameLock, Exists, Working, PCs
<1>2. LockInv(r)'
    BY DEF RunInv, LockInv, SameRow, SameLock
<1> QED
    BY <1>1, <1>2

\* What the walk knows of the step it is at.
LEMMA HereFacts ==
    ASSUME TypeOK, NEW r \in RunIds
    PROVE  /\ pos[r] \in Nat /\ NumSteps \in Nat /\ pos[r] >= 1
           /\ pos[r] <= NumSteps <=> pos[r] \in Positions
           /\ \A p \in Positions : p \in Nat /\ p <= NumSteps
           /\ \A p \in Positions : attempts[r][p] \in Nat
           /\ pos[r] \in Positions =>
                  (External(r) = "succeeded" <=> snapshot[r].steps[pos[r]] = "succeeded")
<1>1. pos[r] \in 1 .. NumSteps + 1 /\ NumSteps \in Nat
    BY PlanAssumption DEF TypeOK
<1>2. \A p \in Positions : attempts[r][p] \in Nat
    BY DEF TypeOK, LedgerTypeOK
<1>3. ASSUME pos[r] \in Positions
      PROVE  External(r) = "succeeded" <=> snapshot[r].steps[pos[r]] = "succeeded"
  <2>1. snapshot[r].steps[pos[r]] \in ShownStatus
    BY <1>3 DEF TypeOK
  <2> QED
    BY <2>1 DEF External, _normalize_runtime_status, ShownStatus, StepStatus, Terminal
<1> QED
    BY <1>1, <1>2, <1>3 DEF Positions

\* The walk moves on to the next step: this one has been mirrored, or there was
\* no point in mirroring it.
LEMMA NextStepWalk ==
    ASSUME TypeOK, NEW r \in RunIds, RunInv(r), NextStep(r), pc[r] \in Mirroring,
           pos[r] \in Positions, local'[r] = local[r], snapshot'[r] = snapshot[r],
           cancelled'[r] = cancelled[r],
           \A p \in Positions : attempts[r][p] >= 1 => attempts'[r][p] >= 1,
           \A p \in Positions \ {pos[r]} : stepStatus'[r][p] = stepStatus[r][p],
           snapshot[r].steps[pos[r]] = "succeeded" =>
               cancelled[r] \/ stepStatus'[r][pos[r]] = "succeeded"
    PROVE  WalkInv(r)'
<1>1. pos'[r] = pos[r] + 1 /\ pc'[r] = "step"
    BY DEF NextStep, Goto, TypeOK
<1>2. WalkInv(r)
    BY DEF RunInv
<1>3. ASSUME NEW p \in Positions
      PROVE  /\ local[r][p] = "cancelled" => cancelled[r]
             /\ local[r][p] \notin {"queued", "cancelled"} => attempts'[r][p] >= 1
             /\ p >= pos[r] + 1 /\ local[r][p] = "queued" => stepStatus'[r][p] \in {"queued", "cancelled"}
             /\ p < pos[r] + 1 /\ snapshot[r].steps[p] = "succeeded" =>
                    cancelled[r] \/ stepStatus'[r][p] = "succeeded"
  <2>1. p \in Nat /\ pos[r] \in Nat
    BY HereFacts
  <2>2. /\ local[r][p] = "cancelled" => cancelled[r]
        /\ local[r][p] \notin {"queued", "cancelled"} => attempts'[r][p] >= 1
    BY <1>2 DEF WalkInv
  <2>3. p > pos[r] /\ local[r][p] = "queued" => stepStatus[r][p] \in {"queued", "cancelled"}
    BY <1>2 DEF WalkInv
  <2>4. p < pos[r] /\ snapshot[r].steps[p] = "succeeded" => cancelled[r] \/ stepStatus[r][p] = "succeeded"
    BY <1>2 DEF WalkInv
  <2>5. CASE p > pos[r]
    <3>1. stepStatus'[r][p] = stepStatus[r][p] /\ ~(p < pos[r] + 1)
      BY <2>1, <2>5
    <3> QED
      BY <2>2, <2>3, <2>5, <3>1
  <2>6. CASE p = pos[r]
    BY <2>1, <2>2, <2>6
  <2>7. CASE p < pos[r]
    <3>1. stepStatus'[r][p] = stepStatus[r][p] /\ ~(p >= pos[r] + 1)
      BY <2>1, <2>7
    <3> QED
      BY <2>2, <2>4, <2>7, <3>1
  <2> QED
    BY <2>1, <2>5, <2>6, <2>7
<1>4. \A p \in Positions : p \in Nat /\ pos[r] \in Nat
    BY HereFacts
<1> QED
    BY <1>1, <1>3, <1>4 DEF WalkInv, Mirroring

\* A step that leaves the ledger alone, from its effect on the snapshot and the
\* walk.
LEMMA QuietInv ==
    ASSUME NEW r \in RunIds, RunInv(r), UNCHANGED ledger, Moves(r),
           pc[r] \in Working \ {"cancelCommit"},
           pc'[r] \in (Working \ {"cancelCommit"}) \cup {"done"},
           ExtInv(r)', WalkInv(r)'
    PROVE  RunInv(r)'
<1>1. SameRow(r) /\ SameLock(r)
    BY DEF ledger, SameRow, SameLock
<1>2. RowInv(r)' /\ LockInv(r)'
    BY <1>1, QuietRow
<1>3. status[r] # "succeeded"
    BY DEF RunInv, RowInv
<1>4. StepInv(r)' /\ SettledInv(r)'
    BY <1>1, <1>3, KeepSteps
<1> QED
    BY <1>2, <1>4 DEF RunInv

\* What a new snapshot may say of a run's steps.
Shows(r) == \A p \in Positions : snapshot'[r].steps[p] \in {extStep'[r][p], "omitted"}

LEMMA SnapshotShows ==
    ASSUME NEW r \in RunIds, NEW shown \in SUBSET Positions,
           snapshot'[r] = Snapshot(extStatus'[r], extStep'[r], shown)
    PROVE  snapshot'[r].status = extStatus'[r] /\ Shows(r)
    BY DEF Snapshot, Shows

\* A new snapshot is as good as the runtime's state it was taken from.
LEMMA FreshSnapshot ==
    ASSUME NEW r \in RunIds, Moves(r), snapshot'[r].status = extStatus'[r], Shows(r),
           extStatus'[r] # "none", pc'[r] # "fail", status'[r] # "failed"
    PROVE  ExtInv(r)'
    BY DEF ExtInv, Moves, Shows

LEMMA SubmitInv ==
    ASSUME TypeOK, NEW r \in RunIds, RunInv(r), Submit(r), Moves(r)
    PROVE  RunInv(r)'
<1>1. pc[r] = "submit" /\ UNCHANGED ledger
    BY DEF Submit, apiVars
<1>2. status[r] # "failed"
    BY <1>1 DEF RunInv, RowInv, Working, PCs
<1>3. pc'[r] \in {"link", "fail"}
    BY DEF Submit, Goto, TypeOK
<1>4. ExtInv(r)'
  <2>1. CASE /\ Accept(r) /\ UNCHANGED extStep /\ Goto(r, "link") /\ UNCHANGED <<inflight, refused>>
             /\ \E shown \in SUBSET Positions :
                    snapshot' = [snapshot EXCEPT ![r] = Snapshot(extStatus'[r], extStep[r], shown)]
    <3>0. PICK shown \in SUBSET Positions :
              snapshot' = [snapshot EXCEPT ![r] = Snapshot(extStatus'[r], extStep[r], shown)]
      BY <2>1
    <3>1. /\ snapshot'[r] = Snapshot(extStatus'[r], extStep[r], shown)
          /\ pc'[r] = "link" /\ extStep'[r] = extStep[r]
      BY <2>1, <3>0 DEF Goto, TypeOK
    <3>2. extStatus'[r] # "none"
      BY <2>1, AcceptMoves
    <3>3. status'[r] = status[r]
      BY <1>1 DEF ledger
    <3>4. snapshot'[r].status = extStatus'[r] /\ Shows(r)
      BY <3>1, SnapshotShows
    <3> QED
      BY <1>2, <3>1, <3>2, <3>3, <3>4, FreshSnapshot
  <2>2. CASE r \in refused' /\ UNCHANGED snapshot /\ Goto(r, "fail")
    <3>1. pc'[r] = "fail"
      BY <2>2 DEF Goto, TypeOK
    <3>2. snapshot'[r] = snapshot[r]
      BY <2>2
    <3>3. pc'[r] \notin Submitted
      BY <3>1 DEF Submitted
    <3> QED
      BY <2>2, <3>2, <3>3, KeepExt
  <2> QED
    BY <2>1, <2>2 DEF Submit
<1>5. WalkInv(r)'
    BY <1>3, NoWalk DEF Mirroring
<1> QED
    BY <1>1, <1>3, <1>4, <1>5, QuietInv DEF Working, PCs

LEMMA SyncInv ==
    ASSUME TypeOK, NEW r \in RunIds, RunInv(r), Sync(r), Moves(r)
    PROVE  RunInv(r)'
<1>1. /\ pc[r] = "sync" /\ pc'[r] = "step" /\ UNCHANGED ledger
      /\ snapshot' = snapshot /\ local'[r] = stepStatus[r] /\ pos'[r] = 1
    BY DEF Sync, Goto, apiVars, TypeOK
<1>2. ExtInv(r)'
    BY <1>1, KeepExt DEF ledger, Submitted, Working, PCs
<1>3. WalkInv(r)'
  <2>1. ASSUME NEW p \in Positions
        PROVE  /\ stepStatus[r][p] = "cancelled" => cancelled[r]
               /\ stepStatus[r][p] \notin {"queued", "cancelled"} => attempts[r][p] >= 1
               /\ ~(p < 1)
    <3>1. status[r] \in {"running", "cancelled"}
      BY <1>1 DEF RunInv, RowInv, Working, PCs
    <3>2. attempts[r][p] \in Nat /\ p \in Nat /\ p >= 1
      BY HereFacts DEF Positions
    <3>3. /\ attempts[r][p] = 0 => stepStatus[r][p] \in {"queued", "cancelled"}
          /\ stepStatus[r][p] = "cancelled" => status[r] \in {"cancelled", "failed"}
      BY DEF RunInv, StepInv
    <3>4. cancelled[r] <=> status[r] = "cancelled"
      BY DEF RunInv, RowInv
    <3> QED
      BY <3>1, <3>2, <3>3, <3>4
  <2>2. stepStatus' = stepStatus /\ cancelled' = cancelled /\ attempts' = attempts
    BY <1>1 DEF ledger
  <2> QED
    BY <1>1, <2>1, <2>2 DEF WalkInv, Mirroring
<1> QED
    BY <1>1, <1>2, <1>3, QuietInv DEF Working, PCs

LEMMA StepStepInv ==
    ASSUME TypeOK, NEW r \in RunIds, RunInv(r), Step(r) \/ Write(r), Moves(r)
    PROVE  RunInv(r)'
<1>1. /\ pc[r] \in {"step", "write"} /\ UNCHANGED ledger
      /\ snapshot' = snapshot /\ local' = local
    BY DEF Step, Write, apiVars
<1>2. stepStatus' = stepStatus /\ cancelled' = cancelled /\ attempts' = attempts /\ status' = status
    BY <1>1 DEF ledger
<1>3. WalkInv(r)
    BY DEF RunInv
<1>4. pc'[r] \in Mirroring \cup {"settle"}
    BY DEF Step, Write, Goto, AfterStart, NextStep, Mirroring, TypeOK
<1>5. ExtInv(r)'
    BY <1>1, <1>2, <1>4, KeepExt DEF Submitted, Working, PCs, Mirroring
<1>6. External(r)' = External(r) \/ pos' # pos
    BY <1>1 DEF External
<1>7. WalkInv(r)'
  <2> USE <1>1, <1>2
  <2>1. CASE NextStep(r) /\ pos[r] <= NumSteps
             /\ (cancelled[r] \/ External(r) \notin {"succeeded", "failed"})
    <3>1. pos[r] \in Positions /\ pc[r] \in Mirroring
      BY <2>1, HereFacts DEF Mirroring
    <3>2. snapshot[r].steps[pos[r]] = "succeeded" => cancelled[r]
      BY <2>1, <3>1, HereFacts
    <3> QED
      BY <2>1, <3>1, <3>2, NextStepWalk
  <2>2. CASE pc[r] = "step" /\ pos[r] > NumSteps /\ Goto(r, "settle") /\ UNCHANGED pos
    <3>1. pc'[r] = "settle" /\ pos' = pos
      BY <2>2 DEF Goto, TypeOK
    <3> QED
      BY <1>3, <2>2, <3>1 DEF WalkInv, Mirroring
  <2>3. CASE /\ pc[r] = "step" /\ pos[r] <= NumSteps /\ MustStart(r)
             /\ Goto(r, "startStepApply") /\ UNCHANGED pos
    <3>1. pc'[r] = "startStepApply" /\ pos' = pos /\ local[r][pos[r]] = "queued"
      BY <2>3 DEF Goto, TypeOK, MustStart
    <3> QED
      BY <1>3, <2>3, <3>1 DEF WalkInv, Mirroring
  <2>4. CASE /\ pc[r] = "step" /\ pos[r] <= NumSteps /\ ~MustStart(r)
             /\ External(r) \in {"succeeded", "failed"} /\ Goto(r, "write") /\ UNCHANGED pos
    <3>1. pc'[r] = "write" /\ pos' = pos /\ local[r][pos[r]] # "queued" /\ External(r)' = External(r)
      BY <1>6, <2>4 DEF Goto, TypeOK, MustStart
    <3>2. pos[r] \in Positions
      BY <2>4, HereFacts
    <3>3. cancelled[r] \/ attempts[r][pos[r]] >= 1
      BY <1>3, <2>4, <3>1, <3>2 DEF WalkInv, Mirroring
    <3>4. pos[r] \in Nat /\ \A p \in Positions : p \in Nat
      BY HereFacts
    <3> QED
      BY <1>3, <2>4, <3>1, <3>3, <3>4 DEF WalkInv, Mirroring
  <2>5. CASE pc[r] = "write" /\ ~cancelled[r] /\ Goto(r, "writeApply") /\ UNCHANGED pos
    <3>1. pc'[r] = "writeApply" /\ pos' = pos /\ External(r)' = External(r)
      BY <1>6, <2>5 DEF Goto, TypeOK
    <3> QED
      BY <1>3, <2>5, <3>1 DEF WalkInv, Mirroring
  <2>6. CASE Step(r)
    BY <2>1, <2>2, <2>3, <2>4, <2>6 DEF Step, AfterStart, Live
  <2>7. CASE Write(r)
    <3>1. pos[r] <= NumSteps
      BY <1>3, <2>7 DEF WalkInv, Write
    <3> QED
      BY <2>1, <2>5, <2>7, <3>1 DEF Write, Live
  <2> QED
    BY <2>6, <2>7
<1> QED
    BY <1>1, <1>4, <1>5, <1>7, QuietInv DEF Working, PCs, Mirroring

\* Only a run that is done at the runtime, and whose snapshot was mirrored
\* completely or to no purpose, is on its way to succeed.
LEMMA SettleInv ==
    ASSUME TypeOK, NEW r \in RunIds, RunInv(r), Settle(r), Moves(r)
    PROVE  RunInv(r)'
<1>1. /\ pc[r] = "settle" /\ UNCHANGED ledger
      /\ snapshot' = snapshot /\ pos' = pos /\ polls' = polls
    BY DEF Settle, apiVars
<1>2. stepStatus' = stepStatus /\ cancelled' = cancelled /\ status' = status
    BY <1>1 DEF ledger
<1>3. snapshot[r].status \in ExtStatus
    BY DEF TypeOK
<1>4. /\ pc'[r] \in {"succeed", "fail", "cancel", "timeout", "poll"}
      /\ pc'[r] = "succeed" => snapshot[r].status = "done"
      /\ pc'[r] = "fail" => snapshot[r].status = "error"
      /\ pc'[r] = "poll" => polls[r] < MaxPolls
    BY <1>3 DEF Settle, Goto, TypeOK, _normalize_runtime_status, ExtStatus
<1>5. ExtInv(r)'
  <2>1. pc'[r] = "fail" => extStatus'[r] \in Stopped
    BY <1>4 DEF RunInv, ExtInv, Moves, Stopped
  <2> QED
    BY <1>1, <1>2, <1>4, <2>1, KeepExt DEF Submitted, Working, PCs
<1>6. WalkInv(r)'
  <2>1. CASE pc'[r] = "succeed"
    <3>1. /\ snapshot[r].status = "done"
          /\ \A p \in Positions : snapshot[r].steps[p] \in {"succeeded", "omitted"}
      BY <1>4, <2>1 DEF RunInv, ExtInv
    <3>2. \A p \in Positions : p < pos[r]
      <4>1. pos[r] > NumSteps
        BY <1>1 DEF RunInv, WalkInv
      <4> QED
        BY <4>1, HereFacts
    <3>3. cancelled[r] \/ Mirrored(r)
      BY <1>1, <3>1, <3>2 DEF RunInv, WalkInv, Mirrored
    <3> QED
      BY <1>1, <1>2, <2>1, <3>1, <3>3 DEF WalkInv, Mirrored, Mirroring
  <2>2. CASE pc'[r] = "poll"
    BY <1>1, <1>4, <2>2 DEF WalkInv, Mirroring
  <2>3. CASE pc'[r] \notin {"succeed", "poll"}
    BY <1>4, <2>3, NoWalk DEF Mirroring
  <2> QED
    BY <2>1, <2>2, <2>3
<1> QED
    BY <1>1, <1>4, <1>5, <1>6, QuietInv DEF Working, PCs

LEMMA PollInv ==
    ASSUME TypeOK, NEW r \in RunIds, RunInv(r), Poll(r), Moves(r)
    PROVE  RunInv(r)'
<1>1. pc[r] = "poll" /\ UNCHANGED ledger /\ extStatus' = extStatus /\ extStep' = extStep
    BY DEF Poll, apiVars, runtime
<1>2. pc'[r] \in {"sync", "fail"}
    BY DEF Poll, Goto, TypeOK
<1>3. status'[r] = status[r] /\ status[r] # "failed"
    BY <1>1 DEF RunInv, RowInv, Working, PCs, ledger
<1>4. ExtInv(r)'
  <2>1. CASE /\ \E shown \in SUBSET Positions :
                    snapshot' = [snapshot EXCEPT ![r] = Snapshot(extStatus[r], extStep[r], shown)]
             /\ Goto(r, "sync")
    <3>0. PICK shown \in SUBSET Positions :
              snapshot' = [snapshot EXCEPT ![r] = Snapshot(extStatus[r], extStep[r], shown)]
      BY <2>1
    <3>1. snapshot'[r] = Snapshot(extStatus'[r], extStep'[r], shown) /\ pc'[r] = "sync"
      BY <1>1, <2>1, <3>0 DEF Goto, TypeOK
    <3>2. extStatus'[r] # "none"
      BY <1>1 DEF RunInv, ExtInv, Submitted, Working, PCs
    <3>3. snapshot'[r].status = extStatus'[r] /\ Shows(r)
      BY <3>1, SnapshotShows
    <3> QED
      BY <1>3, <3>1, <3>2, <3>3, FreshSnapshot
  <2>2. CASE r \in refused' /\ UNCHANGED snapshot /\ Goto(r, "fail")
    <3>1. pc'[r] = "fail" /\ snapshot'[r] = snapshot[r]
      BY <2>2 DEF Goto, TypeOK
    <3>2. pc'[r] \notin Submitted
      BY <3>1 DEF Submitted
    <3> QED
      BY <2>2, <3>1, <3>2, KeepExt
  <2> QED
    BY <2>1, <2>2 DEF Poll
<1>5. WalkInv(r)'
    BY <1>2, NoWalk DEF Mirroring
<1> QED
    BY <1>1, <1>2, <1>4, <1>5, QuietInv DEF Working, PCs

\* The runtime has the run, so a cancellation that arrives stops it.
LEMMA TimeoutInv ==
    ASSUME TypeOK, TypeOK', NEW r \in RunIds, RunInv(r), Timeout(r), Moves(r)
    PROVE  RunInv(r)'
<1>1. pc[r] = "timeout" /\ pc'[r] = "fail" /\ UNCHANGED ledger /\ snapshot' = snapshot
    BY DEF Timeout, Goto, apiVars, TypeOK
<1>2. r \in refused' \/ extStatus'[r] \in Stopped
  <2>1. CASE Halt(r) /\ UNCHANGED <<inflight, refused>>
    <3>1. ~ExtActive(r)'
      BY <2>1, HaltMoves
    <3>2. extStatus[r] # "none"
      BY <1>1 DEF RunInv, ExtInv, Submitted, Working, PCs
    <3>3. extStatus'[r] # "none" /\ extStatus'[r] \in ExtStatus
      BY <3>2 DEF Moves, TypeOK
    <3> QED
      BY <3>1, <3>3 DEF ExtActive, Stopped, ExtStatus
  <2>2. CASE r \in refused'
    BY <2>2
  <2> QED
    BY <2>1, <2>2 DEF Timeout
<1>3. ExtInv(r)'
  <2>1. pc'[r] \notin Submitted
    BY <1>1 DEF Submitted
  <2> QED
    BY <1>1, <1>2, <2>1, KeepExt
<1>4. WalkInv(r)'
    BY <1>1, NoWalk DEF Mirroring
<1> QED
    BY <1>1, <1>3, <1>4, QuietInv DEF Working, PCs

LEMMA StartInv ==
    ASSUME TypeOK, NEW r \in RunIds, RunInv(r), Start(r), Moves(r)
    PROVE  RunInv(r)'
<1>1. pc[r] = "start" /\ locker[r] = "none" /\ Exists(r) /\ snapshot' = snapshot
    BY DEF Start, Unlocked, RunInv, RowInv
<1>2. WalkInv(r)'
  <2>1. pc'[r] \in {"submit", "done"}
    BY DEF Start, Goto, TypeOK
  <2> QED
    BY <2>1, NoWalk DEF Mirroring
<1>3. CASE start(r) /\ Goto(r, "submit")
  <2>1. /\ status[r] = "queued" /\ status'[r] = "running" /\ pc'[r] = "submit" /\ ~cancelled[r]
        /\ cancelled'[r] = cancelled[r] /\ stepStatus'[r] = stepStatus[r] /\ attempts'[r] = attempts[r]
        /\ locker'[r] = locker[r]
    BY <1>3 DEF start, Startable, Goto, lockVars, TypeOK, LedgerTypeOK
  <2>2. RowInv(r)'
    BY <2>1 DEF RowInv, Exists
  <2>3. LockInv(r)'
    BY <1>1, <2>1 DEF LockInv
  <2>4. StepInv(r)'
    BY <2>1 DEF RunInv, StepInv, Moves
  <2>5. SettledInv(r)'
    BY <2>1 DEF SettledInv
  <2>6. ExtInv(r)'
    BY <1>1, <2>1, KeepExt DEF Submitted
  <2> QED
    BY <1>2, <2>2, <2>3, <2>4, <2>5, <2>6 DEF RunInv
<1>4. CASE Goto(r, "done") /\ UNCHANGED ledger
  <2>1. pc'[r] = "done" /\ SameRow(r) /\ SameLock(r)
    BY <1>4 DEF Goto, ledger, SameRow, SameLock, TypeOK
  <2>2. RowInv(r)'
    BY <1>1, <2>1 DEF RunInv, RowInv, SameRow, SameLock, Exists, Working
  <2>3. LockInv(r)'
    BY <1>1, <2>1 DEF RunInv, LockInv, SameRow, SameLock
  <2>4. StepInv(r)' /\ SettledInv(r)'
    BY <1>1, <2>1, KeepSteps
  <2>5. ExtInv(r)'
    BY <1>1, <2>1, KeepExt DEF SameRow, Submitted, Working
  <2> QED
    BY <1>2, <2>2, <2>3, <2>4, <2>5 DEF RunInv
<1> QED
    BY <1>3, <1>4 DEF Start

LEMMA LinkInv ==
    ASSUME TypeOK, NEW r \in RunIds, RunInv(r), Link(r), Moves(r)
    PROVE  RunInv(r)'
<1>1. /\ pc[r] = "link" /\ pc'[r] \in {"sync", "done"} /\ snapshot' = snapshot
      /\ SameRow(r) /\ SameLock(r)
    BY DEF Link, set_runtime_run_id, Goto, ledger, lockVars, SameRow, SameLock, TypeOK
<1>2. RowInv(r)' /\ LockInv(r)'
    BY <1>1, QuietRow DEF Working, PCs
<1>3. StepInv(r)' /\ SettledInv(r)'
    BY <1>1, KeepSteps
<1>4. ExtInv(r)'
    BY <1>1, KeepExt DEF SameRow, Submitted, Working, PCs
<1>5. WalkInv(r)'
    BY <1>1, NoWalk DEF Mirroring
<1> QED
    BY <1>2, <1>3, <1>4, <1>5 DEF RunInv

\* start_step takes effect: the step was queued when the walk read it, so it has
\* not been started before, and no cancellation is open, for it would have
\* marked the step.
LEMMA StartStepApplyInv ==
    ASSUME TypeOK, NEW r \in RunIds, RunInv(r), StartStepApply(r), Moves(r)
    PROVE  RunInv(r)'
<1>1. pc[r] = "startStepApply" /\ snapshot' = snapshot /\ local' = local
    BY DEF StartStepApply
<1>2. /\ pos[r] \in Positions /\ local[r][pos[r]] = "queued"
      /\ stepStatus[r][pos[r]] \in {"queued", "cancelled"}
      /\ pc[r] \in Mirroring
    BY <1>1, HereFacts DEF RunInv, WalkInv, Mirroring
<1>3. status[r] \in {"running", "cancelled"} /\ (cancelled[r] <=> status[r] = "cancelled")
    BY <1>1 DEF RunInv, RowInv, Working, PCs
<1>4. WalkInv(r)
    BY DEF RunInv
<1>5. CASE start_step(r, pos[r]) /\ AfterStart(r)
  <2>1. /\ stepStatus'[r] = [stepStatus[r] EXCEPT ![pos[r]] = "running"]
        /\ attempts'[r] = [attempts[r] EXCEPT ![pos[r]] = attempts[r][pos[r]] + 1]
        /\ status'[r] = status[r] /\ owner'[r] = owner[r] /\ cancelled'[r] = cancelled[r] /\ SameLock(r)
    BY <1>5 DEF start_step, rowVars, lockVars, SameLock, TypeOK, LedgerTypeOK
  <2>2. stepStatus[r][pos[r]] = "queued" /\ attempts[r][pos[r]] = 0
    BY <1>2, <1>5 DEF start_step, StepStartable, RunInv, StepInv
  <2>3. stepStatus[r] \in [Positions -> StepStatus] /\ attempts[r] \in [Positions -> Nat]
    BY DEF TypeOK, LedgerTypeOK
  <2>4. stepStatus'[r][pos[r]] = "running" /\ attempts'[r][pos[r]] = 1
    BY <1>2, <2>1, <2>2, <2>3
  <2>5. \A p \in Positions \ {pos[r]} :
            stepStatus'[r][p] = stepStatus[r][p] /\ attempts'[r][p] = attempts[r][p]
    BY <2>1, <2>3
  <2>6. locker[r] = "none"
    BY <1>2, <2>2 DEF StartStepApply, StepFree, RunInv, LockInv
  <2>7. status[r] = "running" /\ ~cancelled[r]
    BY <1>2, <1>3, <2>2 DEF RunInv, StepInv, Terminal
  <2>8. pc'[r] \in {"step", "write"}
    BY <1>5 DEF AfterStart, NextStep, Goto, TypeOK
  <2>9. RowInv(r)'
    BY <2>1, <2>7, <2>8 DEF RowInv, Exists
  <2>10. LockInv(r)'
    BY <2>1, <2>6, <2>8 DEF LockInv, SameLock
  <2>11. StepInv(r)'
    <3> SUFFICES ASSUME NEW p \in Positions
                 PROVE  /\ attempts'[r][p] <= 1
                        /\ attempts'[r][p] = 0 => stepStatus'[r][p] \in {"queued", "cancelled"}
                        /\ stepStatus'[r][p] = "queued" => attempts'[r][p] = 0
                        /\ stepStatus'[r][p] = "succeeded" => extStep'[r][p] = "succeeded"
                        /\ stepStatus'[r][p] = "cancelled" => status'[r] \in {"cancelled", "failed"}
                        /\ status'[r] = "cancelled" => stepStatus'[r][p] \in Terminal
      BY DEF StepInv
    <3>1. CASE p = pos[r]
      BY <2>1, <2>4, <2>7, <3>1
    <3>2. CASE p # pos[r]
      BY <2>1, <2>5, <2>7, <3>2 DEF RunInv, StepInv, Moves
    <3> QED
      BY <3>1, <3>2
  <2>12. SettledInv(r)'
    BY <2>1, <2>7 DEF SettledInv
  <2>13. ExtInv(r)'
    BY <1>1, <2>1, <2>8, KeepExt DEF Submitted, Working, PCs
  <2>14. WalkInv(r)'
    <3>1. \A p \in Positions : attempts[r][p] >= 1 => attempts'[r][p] >= 1
      BY <2>4, <2>5
    <3>2. CASE External(r) \in {"succeeded", "failed"} /\ Goto(r, "write") /\ UNCHANGED pos
      <4>1. pc'[r] = "write" /\ pos' = pos /\ External(r)' = External(r)
        BY <1>1, <3>2 DEF Goto, TypeOK, External
      <4>2. pos[r] \in Nat /\ \A p \in Positions : p \in Nat
        BY HereFacts
      <4>3. ASSUME NEW p \in Positions
            PROVE  /\ local[r][p] = "cancelled" => cancelled[r]
                   /\ local[r][p] \notin {"queued", "cancelled"} => attempts'[r][p] >= 1
                   /\ p > pos[r] /\ local[r][p] = "queued" => stepStatus'[r][p] \in {"queued", "cancelled"}
                   /\ p < pos[r] /\ snapshot[r].steps[p] = "succeeded" =>
                          cancelled[r] \/ stepStatus'[r][p] = "succeeded"
        BY <1>2, <1>4, <2>5, <3>1, <4>2 DEF WalkInv, Mirroring
      <4>4. pos[r] <= NumSteps
        BY <1>2, HereFacts
      <4> QED
        BY <1>1, <2>1, <2>4, <3>2, <4>1, <4>2, <4>3, <4>4 DEF WalkInv, Mirroring
    <3>3. CASE External(r) \notin {"succeeded", "failed"} /\ NextStep(r)
      <4>1. snapshot[r].steps[pos[r]] # "succeeded"
        BY <1>2, <3>3, HereFacts
      <4> QED
        BY <1>1, <1>2, <2>1, <2>5, <3>1, <3>3, <4>1, NextStepWalk
    <3> QED
      BY <1>5, <3>2, <3>3 DEF AfterStart
  <2> QED
    BY <2>9, <2>10, <2>11, <2>12, <2>13, <2>14 DEF RunInv
<1>6. CASE ~StepStartable(r, pos[r]) /\ NextStep(r) /\ UNCHANGED ledger
  <2>1. stepStatus[r][pos[r]] = "cancelled"
    BY <1>2, <1>6 DEF StepStartable
  <2>2. cancelled[r]
    BY <1>2, <1>3, <2>1 DEF RunInv, StepInv
  <2>3. pc'[r] = "step"
    BY <1>6 DEF NextStep, Goto, TypeOK
  <2>4. ExtInv(r)'
    BY <1>1, <1>6, <2>3, KeepExt DEF ledger, Submitted, Working, PCs
  <2>5. WalkInv(r)'
    BY <1>1, <1>2, <1>6, <2>2, NextStepWalk DEF ledger
  <2> QED
    BY <1>1, <1>6, <2>3, <2>4, <2>5, QuietInv DEF Working, PCs
<1> QED
    BY <1>5, <1>6 DEF StartStepApply

\* succeed_step and fail_step write what the snapshot says of a step that was
\* started, also when the run has been cancelled meanwhile.
LEMMA WriteApplyInv ==
    ASSUME TypeOK, NEW r \in RunIds, RunInv(r), WriteApply(r), Moves(r)
    PROVE  RunInv(r)'
<1>1. /\ pc[r] = "writeApply" /\ snapshot' = snapshot /\ local' = local
      /\ pc'[r] = "step" /\ NextStep(r)
    BY DEF WriteApply, NextStep, Goto, TypeOK
<1>2. pos[r] \in Positions /\ attempts[r][pos[r]] >= 1 /\ pc[r] \in Mirroring
    BY <1>1, HereFacts DEF RunInv, WalkInv, Mirroring
<1>3. status[r] \in {"running", "cancelled"}
    BY <1>1 DEF RunInv, RowInv, Working, PCs
<1>4. /\ status'[r] = status[r] /\ owner'[r] = owner[r] /\ cancelled'[r] = cancelled[r]
      /\ attempts'[r] = attempts[r] /\ SameLock(r)
    BY DEF WriteApply, succeed_step, fail_step, rowVars, lockVars, SameLock
<1>5. \A p \in Positions \ {pos[r]} : stepStatus'[r][p] = stepStatus[r][p]
    BY DEF WriteApply, succeed_step, fail_step, TypeOK, LedgerTypeOK
<1>6. \/ External(r) = "succeeded" /\ stepStatus'[r][pos[r]] = "succeeded"
      \/ External(r) = "failed" /\ stepStatus'[r][pos[r]] = "failed"
    BY <1>2 DEF WriteApply, succeed_step, fail_step, TypeOK, LedgerTypeOK
<1>7. snapshot[r].steps[pos[r]] = "succeeded" <=> stepStatus'[r][pos[r]] = "succeeded"
    BY <1>2, <1>6, HereFacts
<1>8. RowInv(r)'
    BY <1>1, <1>4 DEF RunInv, RowInv, SameLock, Exists, Working, PCs
<1>9. LockInv(r)'
  <2>1. \A p \in Positions : stepStatus'[r][p] \in {"queued", "running"} =>
                                 stepStatus[r][p] \in {"queued", "running"}
    BY <1>5, <1>6
  <2> QED
    BY <1>1, <1>4, <2>1 DEF RunInv, LockInv, SameLock
<1>10. StepInv(r)'
  <2> SUFFICES ASSUME NEW p \in Positions
               PROVE  /\ attempts'[r][p] <= 1
                      /\ attempts'[r][p] = 0 => stepStatus'[r][p] \in {"queued", "cancelled"}
                      /\ stepStatus'[r][p] = "queued" => attempts'[r][p] = 0
                      /\ stepStatus'[r][p] = "succeeded" => extStep'[r][p] = "succeeded"
                      /\ stepStatus'[r][p] = "cancelled" => status'[r] \in {"cancelled", "failed"}
                      /\ status'[r] = "cancelled" => stepStatus'[r][p] \in Terminal
    BY DEF StepInv
  <2>1. CASE p = pos[r]
    <3>1. attempts'[r][p] >= 1 /\ attempts'[r][p] <= 1 /\ attempts'[r][p] # 0
      BY <1>2, <1>4, <2>1, HereFacts DEF RunInv, StepInv
    <3>2. stepStatus'[r][p] = "succeeded" => extStep'[r][p] = "succeeded"
      BY <1>7, <2>1 DEF RunInv, ExtInv, Moves
    <3> QED
      BY <1>6, <2>1, <3>1, <3>2 DEF Terminal
  <2>2. CASE p # pos[r]
    BY <1>4, <1>5, <2>2 DEF RunInv, StepInv, Moves
  <2> QED
    BY <2>1, <2>2
<1>11. SettledInv(r)'
    BY <1>3, <1>4 DEF SettledInv
<1>12. ExtInv(r)'
    BY <1>1, <1>4, KeepExt DEF Submitted, Working, PCs
<1>13. WalkInv(r)'
    BY <1>1, <1>2, <1>4, <1>5, <1>7, NextStepWalk
<1> QED
    BY <1>8, <1>9, <1>10, <1>11, <1>12, <1>13 DEF RunInv

\* succeed and fail: a run that was cancelled meanwhile is left alone.
LEMMA SucceedInv ==
    ASSUME TypeOK, NEW r \in RunIds, RunInv(r), Succeed(r), Moves(r)
    PROVE  RunInv(r)'
<1>1. /\ pc[r] = "succeed" /\ pc'[r] = "done" /\ snapshot' = snapshot /\ locker[r] = "none"
      /\ pc'[r] \notin Submitted
    BY DEF Succeed, Goto, Unlocked, TypeOK, Submitted, Working
<1>2. WalkInv(r)'
    BY <1>1, NoWalk DEF Mirroring
<1>3. CASE succeed(r)
  <2>1. /\ status'[r] = "succeeded" /\ ~cancelled[r] /\ cancelled'[r] = cancelled[r]
        /\ stepStatus'[r] = stepStatus[r] /\ attempts'[r] = attempts[r] /\ SameLock(r)
    BY <1>3 DEF succeed, Finishable, lockVars, SameLock, TypeOK, LedgerTypeOK
  <2>2. extStatus'[r] = "done" /\ Mirrored(r)
    BY <1>1, <2>1 DEF RunInv, ExtInv, WalkInv, Moves, Stopped
  <2>3. RowInv(r)'
    BY <1>1, <2>1 DEF RowInv, Exists, Working
  <2>4. LockInv(r)'
    BY <1>1, <2>1 DEF LockInv, SameLock
  <2>5. StepInv(r)'
    <3>1. status[r] \in {"running", "cancelled"} /\ (cancelled[r] <=> status[r] = "cancelled")
      BY <1>1 DEF RunInv, RowInv, Working, PCs
    <3> QED
      BY <2>1, <3>1 DEF RunInv, StepInv, Moves
  <2>6. SettledInv(r)'
    BY <1>1, <2>1, <2>2 DEF SettledInv, Mirrored
  <2>7. ExtInv(r)'
    BY <1>1, <2>1, KeepExt
  <2> QED
    BY <1>2, <2>3, <2>4, <2>5, <2>6, <2>7 DEF RunInv
<1>4. CASE UNCHANGED ledger
  <2>1. ExtInv(r)'
    BY <1>1, <1>4, KeepExt DEF ledger
  <2> QED
    BY <1>1, <1>2, <1>4, <2>1, QuietInv DEF Working, PCs
<1> QED
    BY <1>3, <1>4 DEF Succeed

LEMMA FailInv ==
    ASSUME TypeOK, NEW r \in RunIds, RunInv(r), Fail(r), Moves(r)
    PROVE  RunInv(r)'
<1>1. /\ pc[r] = "fail" /\ pc'[r] = "done" /\ snapshot' = snapshot /\ locker[r] = "none"
      /\ pc'[r] \notin Submitted
    BY DEF Fail, Goto, Unlocked, TypeOK, Submitted, Working
<1>2. WalkInv(r)'
    BY <1>1, NoWalk DEF Mirroring
<1>3. ExtInv(r)'
    BY <1>1, KeepExt
<1>4. CASE fail(r)
  <2>1. /\ status[r] = "running" /\ status'[r] = "failed" /\ ~cancelled[r] /\ cancelled'[r] = cancelled[r]
        /\ attempts'[r] = attempts[r] /\ SameLock(r)
        /\ stepStatus'[r] = [p \in Positions |-> IF stepStatus[r][p] = "queued"
                                                 THEN "cancelled" ELSE stepStatus[r][p]]
    BY <1>4 DEF fail, Finishable, lockVars, SameLock, TypeOK, LedgerTypeOK
  <2>2. RowInv(r)'
    BY <1>1, <2>1 DEF RowInv, Exists, Working
  <2>3. LockInv(r)'
    BY <1>1, <2>1 DEF LockInv, SameLock
  <2>4. StepInv(r)'
    BY <2>1 DEF RunInv, StepInv, Moves
  <2>5. SettledInv(r)'
    BY <2>1 DEF SettledInv
  <2> QED
    BY <1>2, <1>3, <2>2, <2>3, <2>4, <2>5 DEF RunInv
<1>5. CASE UNCHANGED ledger
    BY <1>1, <1>2, <1>3, <1>5, QuietInv DEF Working, PCs
<1> QED
    BY <1>4, <1>5 DEF Fail

\* cancel opens its transaction, for the thread or for cancel_run.
LEMMA CancelUpdateInv ==
    ASSUME TypeOK, NEW r \in RunIds, RunInv(r), Exists(r), Moves(r),
           NEW who \in {"handler", "thread"}, cancel_update(r, who),
           snapshot' = snapshot, local' = local, pos' = pos, polls' = polls,
           \/ who = "handler" /\ pc'[r] = pc[r]
           \/ who = "thread" /\ pc[r] = "cancel" /\ pc'[r] = "cancelCommit"
    PROVE  RunInv(r)'
<1>1. /\ SameRow(r) /\ locker[r] = "none" /\ locker'[r] = who
      /\ marked'[r] = {p \in Positions : stepStatus[r][p] \in {"queued", "running"}}
      /\ status[r] \in {"queued", "running"}
    BY DEF cancel_update, Unlocked, Cancellable, Exists, SameRow, rowVars, TypeOK, LedgerTypeOK,
           RunStatus, Terminal
<1>2. RowInv(r)'
    BY <1>1 DEF RunInv, RowInv, SameRow, Exists, Working, PCs
<1>3. LockInv(r)'
    BY <1>1 DEF RunInv, LockInv, SameRow
<1>4. StepInv(r)' /\ SettledInv(r)'
    BY <1>1, KeepSteps
<1>5. ExtInv(r)'
    BY <1>1, KeepExt DEF SameRow, Submitted, Working, PCs
<1>6. WalkInv(r)'
  <2>1. CASE pc'[r] = pc[r]
    BY <1>1, <2>1, KeepWalk DEF SameThread, SameRow
  <2>2. CASE pc'[r] = "cancelCommit"
    BY <2>2, NoWalk DEF Mirroring
  <2> QED
    BY <2>1, <2>2
<1> QED
    BY <1>2, <1>3, <1>4, <1>5, <1>6 DEF RunInv

\* cancel commits: the lock kept every step that was not final from moving, so
\* the sweep settles them all.
LEMMA CancelCommitInv ==
    ASSUME TypeOK, NEW r \in RunIds, RunInv(r), Moves(r), cancel_commit(r),
           snapshot' = snapshot, local' = local, pos' = pos, polls' = polls,
           \/ locker[r] = "handler" /\ pc'[r] = pc[r]
           \/ locker[r] = "thread" /\ pc'[r] = "done"
    PROVE  RunInv(r)'
<1>1. /\ status'[r] = "cancelled" /\ cancelled'[r] /\ stepStatus'[r] = Swept(r)
      /\ owner'[r] = owner[r] /\ attempts'[r] = attempts[r] /\ locker'[r] = "none"
    BY DEF cancel_commit, TypeOK, LedgerTypeOK
<1>2. /\ status[r] \in {"queued", "running"}
      /\ \A p \in Positions : stepStatus[r][p] \in {"queued", "running"} => p \in marked[r]
      /\ locker[r] = "thread" <=> pc[r] = "cancelCommit"
    BY DEF RunInv, LockInv
<1>3. \A p \in Positions : /\ stepStatus'[r][p] = "cancelled" \/ stepStatus'[r][p] = stepStatus[r][p]
                           /\ stepStatus'[r][p] \in Terminal
  <2> SUFFICES ASSUME NEW p \in Positions
               PROVE  /\ stepStatus'[r][p] = "cancelled" \/ stepStatus'[r][p] = stepStatus[r][p]
                      /\ stepStatus'[r][p] \in Terminal
    OBVIOUS
  <2>1. stepStatus[r][p] \in StepStatus
    BY DEF TypeOK, LedgerTypeOK
  <2> QED
    BY <1>1, <1>2, <2>1 DEF Swept, StepStatus, Terminal
<1>4. RowInv(r)'
    BY <1>1 DEF RunInv, RowInv, Exists, Working
<1>5. LockInv(r)'
    BY <1>1, <1>2 DEF LockInv
<1>6. StepInv(r)'
    BY <1>1, <1>3 DEF RunInv, StepInv, Moves, Terminal
<1>7. SettledInv(r)'
    BY <1>1 DEF SettledInv
<1>8. ExtInv(r)'
    BY <1>1, KeepExt DEF Submitted, Working
<1>9. WalkInv(r)'
  <2>1. CASE pc'[r] = pc[r]
    BY <1>1, <1>3, <2>1, KeepWalk DEF SameThread
  <2>2. CASE pc'[r] = "done"
    BY <2>2, NoWalk DEF Mirroring
  <2> QED
    BY <2>1, <2>2
<1> QED
    BY <1>4, <1>5, <1>6, <1>7, <1>8, <1>9 DEF RunInv

\* A thread that ends, a transaction that is rolled back, or both.
LEMMA ReleaseInv ==
    ASSUME TypeOK, NEW r \in RunIds, RunInv(r), Moves(r), SameRow(r),
           snapshot' = snapshot, local' = local, pos' = pos, polls' = polls,
           locker'[r] = "none" \/ (SameLock(r) /\ pc[r] # "cancelCommit"),
           \/ pc'[r] = "done" /\ pc[r] # "none"
           \/ pc'[r] = pc[r] /\ pc[r] # "cancelCommit"
    PROVE  RunInv(r)'
<1>1. RowInv(r)'
    BY DEF RunInv, RowInv, SameRow, SameLock, Exists, Working
<1>2. LockInv(r)'
    BY DEF RunInv, LockInv, SameRow, SameLock
<1>3. StepInv(r)' /\ SettledInv(r)'
    BY KeepSteps
<1>4. ExtInv(r)'
    BY KeepExt DEF SameRow, Submitted, Working
<1>5. WalkInv(r)'
  <2>1. CASE pc'[r] = pc[r]
    BY <2>1, KeepWalk DEF SameThread, SameRow
  <2>2. CASE pc'[r] = "done"
    BY <2>2, NoWalk DEF Mirroring
  <2> QED
    BY <2>1, <2>2
<1> QED
    BY <1>1, <1>2, <1>3, <1>4, <1>5 DEF RunInv

LEMMA ThreadRunInv ==
    ASSUME TypeOK, TypeOK', NEW r \in RunIds, RunInv(r), Thread(r)
    PROVE  RunInv(r)'
<1>1. Moves(r)
    BY ThreadMoves
<1>2. CASE Cancel(r)
  <2>1. CASE cancel_update(r, "thread") /\ Goto(r, "cancelCommit")
    <3>1. pc[r] = "cancel" /\ pc'[r] = "cancelCommit" /\ Exists(r)
      BY <1>2, <2>1 DEF Cancel, Goto, TypeOK, RunInv, RowInv
    <3> QED
      BY <1>1, <1>2, <2>1, <3>1, CancelUpdateInv DEF Cancel
  <2>2. CASE Goto(r, "done") /\ UNCHANGED ledger
    <3>1. pc[r] = "cancel" /\ pc'[r] = "done" /\ SameRow(r) /\ SameLock(r)
      BY <1>2, <2>2 DEF Cancel, Goto, TypeOK, ledger, SameRow, SameLock
    <3> QED
      BY <1>1, <1>2, <3>1, ReleaseInv DEF Cancel
  <2> QED
    BY <1>2, <2>1, <2>2 DEF Cancel
<1>3. CASE ThreadCancelCommit(r)
  <2>1. pc'[r] = "done" /\ locker[r] = "thread"
    BY <1>3 DEF ThreadCancelCommit, Goto, TypeOK, RunInv, LockInv
  <2> QED
    BY <1>1, <1>3, <2>1, CancelCommitInv DEF ThreadCancelCommit
<1> QED
    BY <1>1, <1>2, <1>3, StartInv, SubmitInv, LinkInv, SyncInv, StepStepInv, StartStepApplyInv,
       WriteApplyInv, SettleInv, PollInv, TimeoutInv, SucceedInv, FailInv DEF Thread

-----------------------------------------------------------------------------
(***************************************************************************)
(* Every action preserves IInv.                                            *)
(***************************************************************************)
LEMMA InvInit == Init => IInv
<1> SUFFICES ASSUME Init PROVE IInv
    OBVIOUS
<1> USE DEF Init, ApiInit, LedgerInit
<1>1. TypeOK
    BY TypeInit
<1>2. HandlerInv
    BY DEF HandlerInv, Idle, Handler
<1>3. ASSUME NEW r \in RunIds PROVE RunInv(r)
  <2>1. RowInv(r) /\ LockInv(r)
    BY DEF RowInv, LockInv, Exists, Working
  <2>2. StepInv(r) /\ SettledInv(r)
    BY DEF StepInv, SettledInv
  <2>3. ExtInv(r)
    BY DEF ExtInv, NoView, Submitted, Working
  <2>4. WalkInv(r)
    BY DEF WalkInv, Mirroring
  <2> QED
    BY <2>1, <2>2, <2>3, <2>4 DEF RunInv
<1> QED
    BY <1>1, <1>2, <1>3 DEF IInv

\* A step of a thread as the request being served sees it.
LEMMA ThreadHandler ==
    ASSUME TypeOK, NEW r \in RunIds, RunInv(r), Thread(r)
    PROVE  /\ handler' = handler /\ pc[r] # "none" /\ status'[r] # "absent"
           /\ locker'[r] = "handler" <=> locker[r] = "handler"
<1> USE DEF TypeOK, LedgerTypeOK
<1>0. pc[r] \notin {"none", "done"} /\ handler' = handler
    BY DEF Thread, Start, Submit, Link, Sync, Step, StartStepApply, Write, WriteApply, Settle, Poll,
           Timeout, Succeed, Fail, Cancel, ThreadCancelCommit, apiVars
<1>1. status[r] # "absent"
    BY <1>0 DEF RunInv, RowInv, Exists
<1>2. CASE Start(r)
    BY <1>0, <1>1, <1>2 DEF Start, start, ledger, lockVars
<1>3. CASE Submit(r) \/ Sync(r) \/ Step(r) \/ Write(r) \/ Settle(r) \/ Poll(r) \/ Timeout(r)
    BY <1>0, <1>1, <1>3 DEF Submit, Sync, Step, Write, Settle, Poll, Timeout, apiVars, ledger
<1>4. CASE Link(r)
    BY <1>0, <1>1, <1>4 DEF Link, set_runtime_run_id, ledger, lockVars
<1>5. CASE StartStepApply(r)
    BY <1>0, <1>1, <1>5 DEF StartStepApply, start_step, ledger, lockVars
<1>6. CASE WriteApply(r)
    BY <1>0, <1>1, <1>6 DEF WriteApply, succeed_step, fail_step, lockVars
<1>7. CASE Succeed(r)
    BY <1>0, <1>1, <1>7 DEF Succeed, succeed, ledger, lockVars
<1>8. CASE Fail(r)
    BY <1>0, <1>1, <1>8 DEF Fail, fail, ledger, lockVars
<1>9. CASE Cancel(r)
    BY <1>0, <1>1, <1>9 DEF Cancel, cancel_update, Unlocked, ledger
<1>10. CASE ThreadCancelCommit(r)
    BY <1>0, <1>10 DEF ThreadCancelCommit, cancel_commit, RunInv, LockInv
<1> QED
    BY <1>2, <1>3, <1>4, <1>5, <1>6, <1>7, <1>8, <1>9, <1>10 DEF Thread

LEMMA ThreadStepInv ==
    ASSUME IInv, TypeOK', NEW r \in RunIds, Thread(r)
    PROVE  IInv'
<1> USE DEF IInv
<1>1. RunInv(r)'
    BY ThreadRunInv
<1>2. \A q \in RunIds \ {r} : Same(q)
    BY ThreadFrame, ThreadMoves DEF Same
<1>3. \A q \in RunIds : RunInv(q)'
    BY <1>1, <1>2, SameRunInv
<1>4. HandlerInv'
  <2>1. /\ handler' = handler /\ pc[r] # "none" /\ status'[r] # "absent"
        /\ locker'[r] = "handler" <=> locker[r] = "handler"
    BY ThreadHandler
  <2>2. \A q \in RunIds \ {r} : status'[q] = status[q] /\ pc'[q] = pc[q] /\ locker'[q] = locker[q]
    BY <1>2 DEF Same, SameRow, SameLock, SameThread
  <2>3. handler.op # "idle" => handler.run \in RunIds
    BY DEF TypeOK, HandlerTypeOK
  <2> QED
    BY <2>1, <2>2, <2>3 DEF HandlerInv, Exists
<1> QED
    BY <1>3, <1>4

LEMMA RuntimeStepInv ==
    ASSUME IInv, TypeOK', NEW r \in RunIds, Runtime(r)
    PROVE  IInv'
<1> USE DEF IInv
<1>1. \A q \in RunIds : RunInv(q)'
    BY RuntimeMoves, SameRunInv
<1>2. HandlerInv'
    BY DEF HandlerInv, Exists, Runtime, apiVars, ledger, threadVars
<1> QED
    BY <1>1, <1>2

\* Runs that a step of the handlers does not touch.
LEMMA Untouched ==
    ASSUME NEW q \in RunIds, RunInv(q), UNCHANGED <<threadVars, runtime, history>>
    PROVE  SameThread(q) /\ Moves(q)
<1>1. SameThread(q)
    BY DEF threadVars, SameThread
<1>2. Moves(q)
    BY StillMoves DEF runtime, history
<1> QED
    BY <1>1, <1>2

LEMMA RequestsInv ==
    ASSUME IInv, TypeOK', Requests, UNCHANGED <<threadVars, runtime, history>>
    PROVE  IInv'
<1> USE DEF IInv
<1>0. \A q \in RunIds : SameThread(q) /\ Moves(q)
    BY Untouched
<1>1. ASSUME NEW r \in RunIds, NEW t \in Tenants, NEW k \in Keys, NEW pl \in Plans,
             SubmitRun(r, t, k, pl)
      PROVE  IInv'
  <2>1. /\ status[r] = "absent" /\ handler.op = "idle"
        /\ handler' = Handler("spawn", r, FALSE, "queued", NoView)
    BY <1>1 DEF SubmitRun, submit, Exists
  <2>2. locker[r] = "none" /\ pc[r] = "none" /\ pc'[r] = "none" /\ RunInv(r) /\ ~cancelled[r]
    BY <1>0, <2>1 DEF RunInv, RowInv, Exists, SameThread
  <2>3. \A q \in RunIds \ {r} : Same(q)
    BY <1>0, <1>1 DEF SubmitRun, submit, Same, SameRow, SameLock, lockVars, TypeOK, LedgerTypeOK
  <2>4. /\ status'[r] = "queued" /\ cancelled' = cancelled /\ locker' = locker
        /\ stepStatus'[r] = [p \in Positions |-> "queued"] /\ attempts'[r] = [p \in Positions |-> 0]
    BY <1>1 DEF SubmitRun, submit, lockVars, TypeOK, LedgerTypeOK
  <2>5. RunInv(r)'
    <3>1. RowInv(r)'
      BY <2>2, <2>4 DEF RowInv, Exists, Working
    <3>2. LockInv(r)'
      BY <2>2, <2>4 DEF LockInv
    <3>3. StepInv(r)' /\ SettledInv(r)'
      BY <2>4 DEF StepInv, SettledInv
    <3>4. ExtInv(r)'
      BY <1>0, <2>2, <2>4, KeepExt DEF SameThread, Submitted, Working
    <3>5. WalkInv(r)'
      BY <2>2, NoWalk DEF Mirroring
    <3> QED
      BY <3>1, <3>2, <3>3, <3>4, <3>5 DEF RunInv
  <2>6. \A q \in RunIds : RunInv(q)'
    BY <2>3, <2>5, SameRunInv
  <2>7. HandlerInv'
    BY <2>1, <2>2, <2>4 DEF HandlerInv, Handler, Exists
  <2> QED
    BY <2>6, <2>7
<1>2. ASSUME NEW r \in RunIds, UNCHANGED ledger, Exists(r), handler.op = "idle",
             \/ handler' = Handler("steps", r, FALSE, status[r], NoView)
             \/ handler' = Handler("cancel", r, linked[r], "absent", NoView)
      PROVE  IInv'
  <2>1. \A q \in RunIds : Same(q)
    BY <1>0, <1>2 DEF ledger, Same, SameRow, SameLock
  <2>2. \A q \in RunIds : RunInv(q)'
    BY <2>1, SameRunInv
  <2>3. HandlerInv'
    BY <1>2 DEF HandlerInv, Handler, Exists, ledger
  <2> QED
    BY <2>2, <2>3
<1>3. ASSUME NEW r \in RunIds, NEW t \in Tenants, NEW k \in Keys, ResubmitRun(r, t, k)
      PROVE  Exists(r)
  <2>1. <<t, k>> # None
    BY PlanAssumption
  <2> QED
    BY <1>3, <2>1 DEF ResubmitRun, RunInv, RowInv
<1> QED
    BY <1>1, <1>2, <1>3 DEF Requests, ResubmitRun, GetRun, CancelRun

LEMMA ServeInv ==
    ASSUME IInv, TypeOK', Serve
    PROVE  IInv'
<1> USE DEF IInv
<1>0. \A q \in RunIds : SameThread(q) /\ Moves(q)
    BY Untouched DEF Serve
<1>1. UNCHANGED <<snapshot, local, pos, polls>>
    BY DEF Serve, threadVars
<1>2. CASE UNCHANGED ledger /\ handler.op # "commit" /\ handler'.op \notin {"commit", "spawn"}
           /\ (handler'.op # "idle" => handler.op # "idle" /\ handler'.run = handler.run)
  <2>1. \A q \in RunIds : Same(q)
    BY <1>0, <1>2 DEF ledger, Same, SameRow, SameLock
  <2>2. \A q \in RunIds : RunInv(q)'
    BY <2>1, SameRunInv
  <2>3. HandlerInv'
    BY <1>2 DEF HandlerInv, Exists, ledger
  <2> QED
    BY <2>2, <2>3
<1>3. CASE LoadSteps \/ CancelTerminal
  <2>1. handler'.op \in {"forward", "reply", "steps"} /\ handler'.run = handler.run
    BY <1>3 DEF LoadSteps, CancelTerminal, Answered, TypeOK, HandlerTypeOK
  <2>2. handler.op \in {"steps", "cancel"} /\ UNCHANGED ledger
    BY <1>3 DEF LoadSteps, CancelTerminal
  <2> QED
    BY <1>2, <2>1, <2>2
<1>4. CASE Reply
    BY <1>2, <1>4 DEF Reply, Idle, Handler
<1>5. CASE CancelUpdate
  <2> PICK r \in RunIds : r = handler.run
    BY <1>5 DEF CancelUpdate, TypeOK, HandlerTypeOK
  <2>1. Exists(r) /\ handler.op = "cancel" /\ cancel_update(r, "handler") /\ pc'[r] = pc[r]
    BY <1>0, <1>5 DEF CancelUpdate, HandlerInv, SameThread
  <2>2. RunInv(r)'
    BY <1>0, <1>1, <2>1, CancelUpdateInv
  <2>3. \A q \in RunIds \ {r} : Same(q)
    BY <1>0, <2>1 DEF cancel_update, rowVars, Same, SameRow, SameLock, TypeOK, LedgerTypeOK
  <2>4. \A q \in RunIds : RunInv(q)'
    BY <2>2, <2>3, SameRunInv
  <2>5. handler'.op = "commit" /\ handler'.run = r
    BY <1>5 DEF CancelUpdate, TypeOK, HandlerTypeOK
  <2>6. locker' = [locker EXCEPT ![r] = "handler"] /\ status' = status
    BY <2>1 DEF cancel_update
  <2>7. HandlerInv'
    BY <2>1, <2>5, <2>6 DEF HandlerInv, Exists, TypeOK, LedgerTypeOK
  <2> QED
    BY <2>4, <2>7
<1>6. CASE CancelCommit
  <2> PICK r \in RunIds : r = handler.run
    BY <1>6 DEF CancelCommit, TypeOK, HandlerTypeOK
  <2>1. handler.op = "commit" /\ cancel_commit(r) /\ pc'[r] = pc[r] /\ locker[r] = "handler"
    BY <1>0, <1>6 DEF CancelCommit, HandlerInv, SameThread
  <2>2. RunInv(r)'
    BY <1>0, <1>1, <2>1, CancelCommitInv
  <2>3. \A q \in RunIds \ {r} : Same(q)
    BY <1>0, <2>1 DEF cancel_commit, Same, SameRow, SameLock, TypeOK, LedgerTypeOK
  <2>4. \A q \in RunIds : RunInv(q)'
    BY <2>2, <2>3, SameRunInv
  <2>5. handler'.op \in {"forward", "reply"} /\ handler'.run = r
    BY <1>6 DEF CancelCommit, Answered, TypeOK, HandlerTypeOK
  <2>6. locker' = [locker EXCEPT ![r] = "none"] /\ status' = [status EXCEPT ![r] = "cancelled"]
    BY <2>1 DEF cancel_commit
  <2>7. \A q \in RunIds : locker'[q] # "handler"
    BY <2>1, <2>6 DEF HandlerInv, TypeOK, LedgerTypeOK
  <2>8. HandlerInv'
    BY <2>5, <2>6, <2>7 DEF HandlerInv, Exists, TypeOK, LedgerTypeOK
  <2> QED
    BY <2>4, <2>8
<1> QED
    BY <1>3, <1>4, <1>5, <1>6 DEF Serve, HandlerSteps

\* cancel_run forwards the cancellation to the runtime.
LEMMA ForwardInv ==
    ASSUME IInv, TypeOK', Forward
    PROVE  IInv'
<1> USE DEF IInv
<1> PICK r \in RunIds : r = handler.run
    BY DEF Forward, TypeOK, HandlerTypeOK
<1>1. UNCHANGED <<ledger, threadVars, inflight>> /\ refused \subseteq refused'
    BY DEF Forward
<1>2. ASSUME NEW q \in RunIds PROVE Moves(q)
  <2>1. CASE q = r
    BY <1>1, <2>1, HaltMoves, StillMoves DEF Forward
  <2>2. CASE q # r
    BY <1>1, <2>2, RuntimeFrame DEF Forward
  <2> QED
    BY <2>1, <2>2
<1>3. \A q \in RunIds : Same(q)
    BY <1>1, <1>2 DEF Same, SameRow, SameLock, SameThread, ledger, threadVars
<1>4. \A q \in RunIds : RunInv(q)'
    BY <1>3, SameRunInv
<1>5. handler.op = "forward" /\ handler'.op = "reply" /\ handler'.run = handler.run
    BY DEF Forward, TypeOK, HandlerTypeOK
<1>6. HandlerInv'
    BY <1>1, <1>5 DEF HandlerInv, Exists, ledger
<1> QED
    BY <1>4, <1>6

LEMMA SpawnThreadInv ==
    ASSUME IInv, TypeOK', SpawnThread
    PROVE  IInv'
<1> USE DEF IInv
<1> PICK r \in RunIds : r = handler.run
    BY DEF SpawnThread, TypeOK, HandlerTypeOK
<1>1. /\ pc[r] = "none" /\ pc'[r] = "start" /\ Exists(r) /\ RunInv(r)
      /\ UNCHANGED <<ledger, snapshot, local, pos, polls, extStatus, extStep, inflight, refused>>
    BY DEF SpawnThread, HandlerInv, Goto, TypeOK, runtime, history
<1>2. \A q \in RunIds : SameRow(q) /\ SameLock(q)
    BY <1>1 DEF ledger, SameRow, SameLock
<1>3. \A q \in RunIds : Moves(q)
    BY <1>1, StillMoves
<1>4. RunInv(r)'
  <2>1. RowInv(r)'
    BY <1>1, <1>2 DEF RunInv, RowInv, SameRow, SameLock, Exists, Working
  <2>2. LockInv(r)'
    BY <1>1, <1>2 DEF RunInv, LockInv, SameRow, SameLock
  <2>3. StepInv(r)' /\ SettledInv(r)'
    BY <1>1, <1>2, <1>3, KeepSteps
  <2>4. ExtInv(r)'
    BY <1>1, <1>2, <1>3, KeepExt DEF SameRow, Submitted, Working
  <2>5. WalkInv(r)'
    BY <1>1, NoWalk DEF Mirroring
  <2> QED
    BY <2>1, <2>2, <2>3, <2>4, <2>5 DEF RunInv
<1>5. \A q \in RunIds \ {r} : SameThread(q)
    BY <1>1 DEF SpawnThread, Goto, SameThread, TypeOK
<1>6. \A q \in RunIds : RunInv(q)'
    BY <1>2, <1>3, <1>4, <1>5, SameRunInv DEF Same
<1>7. handler.op = "spawn" /\ handler'.op = "reply" /\ handler'.run = r
    BY DEF SpawnThread, TypeOK, HandlerTypeOK
<1>8. HandlerInv'
    BY <1>1, <1>7 DEF HandlerInv, Exists, ledger
<1> QED
    BY <1>6, <1>8

LEMMA FaultsInv ==
    ASSUME IInv, TypeOK',
           \/ \E r \in RunIds : ThreadDies(r)
           \/ RequestFails /\ UNCHANGED <<threadVars, runtime, history>>
           \/ Restart
    PROVE  IInv'
<1> USE DEF IInv
<1>1. ASSUME NEW r \in RunIds, ThreadDies(r) PROVE IInv'
  <2>1. /\ pc'[r] = "done" /\ pc[r] # "none" /\ Exists(r)
        /\ UNCHANGED <<handler, snapshot, local, pos, polls, extStatus, extStep, inflight, refused>>
    BY <1>1 DEF ThreadDies, Goto, TypeOK, runtime, RunInv, RowInv
  <2>2. \A q \in RunIds : Moves(q)
    BY <2>1, StillMoves
  <2>3. \A q \in RunIds : SameRow(q)
    BY <1>1 DEF ThreadDies, rollback, ledger, rowVars, SameRow
  <2>4. \/ pc[r] = "cancelCommit" /\ locker[r] = "thread" /\ locker'[r] = "none"
        \/ pc[r] # "cancelCommit" /\ SameLock(r)
    BY <1>1 DEF ThreadDies, rollback, ledger, SameLock, TypeOK, LedgerTypeOK, RunInv, LockInv
  <2>5. \A q \in RunIds \ {r} : SameLock(q) /\ SameThread(q)
    BY <1>1, <2>1 DEF ThreadDies, rollback, ledger, Goto, SameLock, SameThread, TypeOK, LedgerTypeOK
  <2>6. RunInv(r)'
    BY <2>1, <2>2, <2>3, <2>4, ReleaseInv
  <2>7. \A q \in RunIds : RunInv(q)'
    BY <2>2, <2>3, <2>5, <2>6, SameRunInv DEF Same
  <2>8. \A q \in RunIds : locker'[q] = "handler" <=> locker[q] = "handler"
    BY <2>4, <2>5 DEF SameLock
  <2>9. handler.op # "idle" => handler.run \in RunIds
    BY DEF TypeOK, HandlerTypeOK
  <2>10. handler.op = "spawn" => pc'[handler.run] = "none"
    BY <2>1, <2>5, <2>9 DEF HandlerInv, SameThread
  <2>11. handler.op # "idle" => status'[handler.run] # "absent"
    BY <2>3, <2>9 DEF HandlerInv, SameRow, Exists
  <2>12. HandlerInv'
    BY <2>1, <2>8, <2>10, <2>11 DEF HandlerInv, Exists
  <2> QED
    BY <2>7, <2>12
<1>2. ASSUME RequestFails, UNCHANGED <<threadVars, runtime, history>> PROVE IInv'
  <2>0. \A q \in RunIds : SameThread(q) /\ Moves(q)
    BY <1>2, Untouched
  <2>1. CASE UNCHANGED ledger /\ handler.op # "commit"
    <3>1. \A q \in RunIds : RunInv(q)'
      BY <2>0, <2>1, SameRunInv DEF ledger, Same, SameRow, SameLock
    <3>2. HandlerInv'
      BY <1>2, <2>1 DEF RequestFails, HandlerInv, ledger, Idle, Handler
    <3> QED
      BY <3>1, <3>2
  <2>2. CASE handler.op = "commit" /\ rollback(handler.run)
    <3> PICK r \in RunIds : r = handler.run
      BY <2>2 DEF TypeOK, HandlerTypeOK
    <3>1. locker[r] = "handler" /\ locker' = [locker EXCEPT ![r] = "none"]
      BY <2>2 DEF HandlerInv, rollback
    <3>2. pc[r] # "cancelCommit" /\ pc'[r] = pc[r]
      BY <2>0, <3>1 DEF RunInv, LockInv, SameThread
    <3>3. \A q \in RunIds : SameRow(q)
      BY <2>2 DEF rollback, rowVars, SameRow
    <3>4. \A q \in RunIds \ {r} : SameLock(q)
      BY <2>2 DEF rollback, SameLock, TypeOK, LedgerTypeOK
    <3>5. UNCHANGED <<snapshot, local, pos, polls>> /\ locker'[r] = "none"
      BY <1>2, <3>1 DEF threadVars, TypeOK, LedgerTypeOK
    <3>6. RunInv(r)'
      BY <2>0, <3>2, <3>3, <3>5, ReleaseInv
    <3>7. \A q \in RunIds : RunInv(q)'
      BY <2>0, <3>3, <3>4, <3>6, SameRunInv DEF Same
    <3>8. \A q \in RunIds : locker'[q] # "handler"
      BY <2>2, <3>1 DEF HandlerInv, TypeOK, LedgerTypeOK
    <3>9. HandlerInv'
      BY <1>2, <3>8 DEF RequestFails, HandlerInv, Idle, Handler
    <3> QED
      BY <3>7, <3>9
  <2> QED
    BY <1>2, <2>1, <2>2 DEF RequestFails
<1>3. CASE Restart
  <2>1. /\ UNCHANGED <<snapshot, local, pos, polls, extStatus, extStep, inflight>>
        /\ refused \subseteq refused'
    BY <1>3 DEF Restart, runtime
  <2>2. ASSUME NEW r \in RunIds PROVE RunInv(r)'
    <3>1. SameRow(r) /\ locker'[r] = "none"
      BY <1>3 DEF Restart, rowVars, SameRow
    <3>2. (pc'[r] = "done" /\ pc[r] # "none") \/ (pc'[r] = pc[r] /\ pc[r] # "cancelCommit")
      BY <1>3 DEF Restart
    <3>3. Moves(r)
      BY <2>1, StillMoves
    <3> QED
      BY <2>1, <3>1, <3>2, <3>3, ReleaseInv
  <2>3. HandlerInv'
    BY <1>3 DEF Restart, HandlerInv, Idle, Handler
  <2> QED
    BY <2>2, <2>3
<1> QED
    BY <1>1, <1>2, <1>3

LEMMA InvStep == IInv /\ [Next]_vars => IInv'
<1> SUFFICES ASSUME IInv, [Next]_vars PROVE IInv'
    OBVIOUS
<1>1. TypeOK'
    BY TypeStep DEF IInv, RunInv
<1>2. CASE UNCHANGED vars
  <2>1. \A q \in RunIds : Same(q)
    BY <1>2, Untouched DEF IInv, vars, apiVars, ledger, threadVars, Same, SameRow, SameLock
  <2>2. \A q \in RunIds : RunInv(q)'
    BY <2>1, SameRunInv DEF IInv
  <2>3. HandlerInv'
    BY <1>2 DEF IInv, HandlerInv, Exists, vars, apiVars, ledger, threadVars
  <2> QED
    BY <1>1, <2>2, <2>3 DEF IInv
<1> QED
    BY <1>1, <1>2, RequestsInv, ServeInv, ForwardInv, SpawnThreadInv, ThreadStepInv, RuntimeStepInv,
       FaultsInv DEF Next

\* The inductive invariant holds in every reachable state.
THEOREM InvariantHolds == Spec => []IInv
    BY InvInit, InvStep, PTL DEF Spec

-----------------------------------------------------------------------------
(***************************************************************************)
(* What follows from the invariant.                                        *)
(***************************************************************************)
LEMMA InvImplies ==
    IInv => SuccessIsReal /\ MirrorIsTruthful /\ CancelSettlesSteps /\ FailureStopsRuntime
<1> SUFFICES ASSUME IInv
             PROVE  SuccessIsReal /\ MirrorIsTruthful /\ CancelSettlesSteps /\ FailureStopsRuntime
    OBVIOUS
<1>1. SuccessIsReal
    BY DEF IInv, RunInv, SettledInv, Mirrored, SuccessIsReal
<1>2. MirrorIsTruthful
    BY DEF IInv, RunInv, StepInv, MirrorIsTruthful
<1>3. CancelSettlesSteps
    BY DEF IInv, RunInv, StepInv, CancelSettlesSteps
<1>4. FailureStopsRuntime
    BY DEF IInv, RunInv, ExtInv, FailureStopsRuntime, ExtActive, Stopped
<1> QED
    BY <1>1, <1>2, <1>3, <1>4

\* The ledger, the request being served, the threads and the runtime keep to
\* their types: the walk over a snapshot ends one past its last step, and the
\* number of polls stays below its bound.
THEOREM TypeCorrect == Spec => []TypeOK
<1>1. IInv => TypeOK
    BY DEF IInv
<1> QED
    BY <1>1, InvariantHolds, PTL

\* A run succeeds in the ledger only if the runtime finished it and every step
\* was mirrored but those its last snapshot omitted, whoever cancels.
THEOREM SuccessReal == Spec => []SuccessIsReal
    BY InvariantHolds, InvImplies, PTL

\* _sync_external_steps never reports a success the runtime did not have and
\* starts a step at most once, however many snapshots it applies.
THEOREM MirrorTruthful == Spec => []MirrorIsTruthful
    BY InvariantHolds, InvImplies, PTL

\* Whoever cancels a delegated run, and wherever its poller is, no step of it is
\* left to run.
THEOREM CancelSettles == Spec => []CancelSettlesSteps
    BY InvariantHolds, InvImplies, PTL

\* A delegated run that failed here does not go on at the runtime, unless a call
\* to the runtime failed.
THEOREM FailureStops == Spec => []FailureStopsRuntime
    BY InvariantHolds, InvImplies, PTL

-----------------------------------------------------------------------------
(***************************************************************************)
(* The refinement: every step is a step of RunLifecycle or changes neither *)
(* a status nor an owner.                                                  *)
(***************************************************************************)
LEMMA LifecycleThread ==
    ASSUME IInv, NEW r \in RunIds, Thread(r)
    PROVE  [Lifecycle!Next]_(Lifecycle!vars)
<1> USE DEF Lifecycle!vars, ledger, rowVars
<1>1. ASSUME UNCHANGED <<status, owner>> PROVE [Lifecycle!Next]_(Lifecycle!vars)
    BY <1>1
<1>2. CASE start(r)
  <2>1. Lifecycle!Begin(r)
    BY <1>2 DEF start, Startable, Lifecycle!Begin
  <2> QED
    BY <2>1 DEF Lifecycle!Next
<1>3. CASE succeed(r)
  <2>1. Lifecycle!Finish(r, "succeeded")
    BY <1>3 DEF succeed, Finishable, Lifecycle!Finish
  <2> QED
    BY <2>1 DEF Lifecycle!Next
<1>4. CASE fail(r)
  <2>1. Lifecycle!Finish(r, "failed")
    BY <1>4 DEF fail, Finishable, Lifecycle!Finish
  <2> QED
    BY <2>1 DEF Lifecycle!Next
<1>5. CASE ThreadCancelCommit(r)
  <2>1. status[r] \in {"queued", "running"}
    BY <1>5 DEF ThreadCancelCommit, IInv, RunInv, LockInv
  <2>2. Lifecycle!Cancel(r)
    BY <1>5, <2>1 DEF ThreadCancelCommit, cancel_commit, Lifecycle!Cancel
  <2> QED
    BY <2>2 DEF Lifecycle!Next
<1>6. CASE Start(r) \/ Succeed(r) \/ Fail(r)
    BY <1>1, <1>2, <1>3, <1>4, <1>6 DEF Start, Succeed, Fail
<1>7. CASE Submit(r) \/ Sync(r) \/ Step(r) \/ Write(r) \/ Settle(r) \/ Poll(r) \/ Timeout(r)
    BY <1>1, <1>7 DEF Submit, Sync, Step, Write, Settle, Poll, Timeout, apiVars
<1>8. CASE Link(r) \/ StartStepApply(r) \/ WriteApply(r) \/ Cancel(r)
    BY <1>1, <1>8 DEF Link, set_runtime_run_id, StartStepApply, start_step, WriteApply, succeed_step,
                      fail_step, Cancel, cancel_update
<1> QED
    BY <1>5, <1>6, <1>7, <1>8 DEF Thread

LEMMA LifecycleStep == IInv /\ [Next]_vars => [Lifecycle!Next]_(Lifecycle!vars)
<1> SUFFICES ASSUME IInv, [Next]_vars PROVE [Lifecycle!Next]_(Lifecycle!vars)
    OBVIOUS
<1> USE DEF Lifecycle!vars
<1>1. ASSUME UNCHANGED <<status, owner>> PROVE [Lifecycle!Next]_(Lifecycle!vars)
    BY <1>1
<1>2. CASE Requests
  <2>1. ASSUME NEW r \in RunIds, NEW t \in Tenants, NEW k \in Keys, NEW pl \in Plans,
               SubmitRun(r, t, k, pl)
        PROVE  [Lifecycle!Next]_(Lifecycle!vars)
    <3>1. <<t, k>> \in Tenants \X Keys
      OBVIOUS
    <3>2. Lifecycle!Create(r, <<t, k>>)
      BY <2>1 DEF SubmitRun, submit, Exists, Conflict, Lifecycle!Create
    <3> QED
      BY <3>1, <3>2 DEF Lifecycle!Next
  <2>2. ASSUME NEW r \in RunIds, NEW t \in Tenants, NEW k \in Keys, ResubmitRun(r, t, k)
        PROVE  UNCHANGED <<status, owner>>
    BY <2>2 DEF ResubmitRun, ledger
  <2>3. ASSUME NEW r \in RunIds, GetRun(r) \/ CancelRun(r)
        PROVE  UNCHANGED <<status, owner>>
    BY <2>3 DEF GetRun, CancelRun, ledger
  <2> QED
    BY <1>1, <1>2, <2>1, <2>2, <2>3 DEF Requests
<1>3. CASE Serve
  <2>1. CASE CancelCommit
    <3>1. handler.run \in RunIds /\ locker[handler.run] = "handler"
      BY <2>1 DEF CancelCommit, IInv, HandlerInv, TypeOK, HandlerTypeOK
    <3>2. status[handler.run] \in {"queued", "running"}
      BY <3>1 DEF IInv, RunInv, LockInv
    <3>3. Lifecycle!Cancel(handler.run)
      BY <2>1, <3>2 DEF CancelCommit, cancel_commit, Lifecycle!Cancel
    <3> QED
      BY <3>1, <3>3 DEF Lifecycle!Next
  <2>2. CASE LoadSteps \/ CancelUpdate \/ CancelTerminal \/ Reply
    BY <1>1, <2>2 DEF LoadSteps, CancelUpdate, cancel_update, CancelTerminal, Reply, ledger, rowVars
  <2> QED
    BY <1>3, <2>1, <2>2 DEF Serve, HandlerSteps
<1>4. CASE SpawnThread \/ Forward \/ Restart \/ RequestFails \/ \E r \in RunIds : ThreadDies(r)
    BY <1>1, <1>4 DEF SpawnThread, Forward, Restart, RequestFails, ThreadDies, rollback, ledger, rowVars
<1>5. ASSUME NEW r \in RunIds, Runtime(r) PROVE UNCHANGED <<status, owner>>
    BY <1>5 DEF Runtime, apiVars, ledger
<1>6. CASE UNCHANGED vars
    BY <1>1, <1>6 DEF vars, apiVars, ledger
<1> QED
    BY <1>1, <1>2, <1>3, <1>4, <1>5, <1>6, LifecycleThread DEF Next

\* Delegated runs implement RunLifecycle, although the poller and cancel_run may
\* both cancel the run and the runtime may disagree with both.
THEOREM LifecycleImplemented == Spec => ImplementsLifecycle
<1>1. Init => Lifecycle!Init
    BY DEF Init, ApiInit, LedgerInit, Lifecycle!Init
<1> QED
    BY <1>1, LifecycleStep, InvariantHolds, PTL DEF Spec, ImplementsLifecycle, Lifecycle!Spec

=============================================================================
