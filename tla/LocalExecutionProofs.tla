------------------------ MODULE LocalExecutionProofs ------------------------
(***************************************************************************)
(* Theorems about LocalExecution, for any number of runs, tenants, keys,   *)
(* plans and steps and any retry budgets.                                  *)
(***************************************************************************)
EXTENDS LocalExecution, RunApiProofs

LEMMA TypeInit == Init => TypeOK
<1> SUFFICES ASSUME Init PROVE TypeOK
    OBVIOUS
<1>1. LedgerTypeOK /\ HandlerTypeOK
    BY ApiTypeInit DEF Init, ApiTypeOK
<1> QED
    BY <1>1, PlanAssumption DEF Init, TypeOK, PCs, Positions

LEMMA TypeStep == TypeOK /\ [Next]_vars => TypeOK'
<1> SUFFICES ASSUME TypeOK, [Next]_vars PROVE TypeOK'
    OBVIOUS
<1>0. ApiTypeOK
    BY DEF TypeOK, ApiTypeOK
<1>1. ASSUME ApiTypeOK', UNCHANGED <<threadVars, lost>>
      PROVE  TypeOK'
    BY <1>1 DEF TypeOK, ApiTypeOK, threadVars
<1>2. CASE SpawnThread
    BY <1>2 DEF SpawnThread, Goto, PCs, ledger, TypeOK, LedgerTypeOK, HandlerTypeOK, HandlerOps
<1>3. ASSUME NEW r \in RunIds, Thread(r)
      PROVE  TypeOK'
  <2> USE DEF Goto, PCs, Stay, TypeOK
  <2>0. HandlerTypeOK'
    BY <1>3 DEF Thread, Start, Load, StartStep, StartStepApply, Complete, SucceedStep,
                SucceedStepApply, FailStep, FailStepApply, Succeed, Fail, apiVars, HandlerTypeOK
  <2>1. CASE Start(r)
    BY <2>0, <2>1, RunUpdateType DEF Start
  <2>2. CASE Load(r)
    <3>1. attempts[r] \in [Positions -> Nat] /\ 1 \in 1 .. NumSteps
      BY PlanAssumption DEF LedgerTypeOK
    <3>2. idx' \in [RunIds -> 1 .. NumSteps] /\ tries' \in [RunIds -> [Positions -> Nat]]
      BY <2>2, <3>1 DEF Load
    <3> QED
      BY <2>0, <2>2, <3>2 DEF Load, apiVars, ledger, LedgerTypeOK
  <2>3. CASE StartStep(r) \/ Complete(r) \/ SucceedStep(r)
    BY <2>0, <2>3 DEF StartStep, Complete, SucceedStep, apiVars, ledger, LedgerTypeOK
  <2>4. CASE StartStepApply(r)
    <3>1. LedgerTypeOK'
      BY <2>4, StepUpdateType DEF StartStepApply
    <3>2. [tries EXCEPT ![r][Here(r)] = @ + 1] \in [RunIds -> [Positions -> Nat]]
      BY BumpType
    <3>3. tries' \in [RunIds -> [Positions -> Nat]]
      BY <2>4, <3>2 DEF StartStepApply
    <3> QED
      BY <2>0, <2>4, <3>1, <3>3 DEF StartStepApply
  <2>5. CASE SucceedStepApply(r)
    <3>1. LedgerTypeOK'
      BY <2>5, StepUpdateType DEF SucceedStepApply
    <3>2. idx' \in [RunIds -> 1 .. NumSteps]
      <4>1. idx[r] \in 1 .. NumSteps /\ NumSteps \in Nat
        BY PlanAssumption
      <4>2. idx[r] < NumSteps => idx[r] + 1 \in 1 .. NumSteps
        BY <4>1
      <4>3. CASE idx[r] < NumSteps /\ idx' = [idx EXCEPT ![r] = idx[r] + 1]
        BY <4>2, <4>3
      <4>4. CASE UNCHANGED idx
        BY <4>4
      <4> QED
        BY <2>5, <4>3, <4>4 DEF SucceedStepApply
    <3> QED
      BY <2>0, <2>5, <3>1, <3>2 DEF SucceedStepApply
  <2>6. CASE FailStep(r)
    BY <2>0, <2>6 DEF FailStep, AfterFailure, apiVars, ledger, LedgerTypeOK
  <2>7. CASE FailStepApply(r)
    <3>1. LedgerTypeOK'
      BY <2>7, StepUpdateType DEF FailStepApply
    <3> QED
      BY <2>0, <2>7, <3>1 DEF FailStepApply, AfterFailure
  <2>8. CASE Succeed(r) \/ Fail(r)
    <3>1. LedgerTypeOK'
      BY <2>8, RunUpdateType DEF Succeed, Fail
    <3> QED
      BY <2>0, <2>8, <3>1 DEF Succeed, Fail
  <2> QED
    BY <1>3, <2>1, <2>2, <2>3, <2>4, <2>5, <2>6, <2>7, <2>8 DEF Thread
<1>4. ASSUME NEW r \in RunIds, ThreadDies(r)
      PROVE  TypeOK'
    BY <1>4 DEF ThreadDies, Goto, PCs, apiVars, ledger, TypeOK, LedgerTypeOK, HandlerTypeOK
<1>5. CASE Restart
  <2> USE DEF TypeOK
  <2>1. HandlerTypeOK'
    BY <1>5 DEF Restart, HandlerTypeOK, HandlerOps, Idle, Handler, NoView, RunStatus, StepStatus, Terminal
  <2>2. LedgerTypeOK'
    BY <1>5 DEF Restart, rowVars, LedgerTypeOK
  <2>3. lost' \subseteq RunIds
    BY <1>5 DEF Restart, Abandoned, HandlerTypeOK
  <2> QED
    BY <1>5, <2>1, <2>2, <2>3 DEF Restart, PCs
<1>6. CASE UNCHANGED vars
    BY <1>6 DEF vars, apiVars, ledger, threadVars, TypeOK, LedgerTypeOK, HandlerTypeOK
<1> QED
    BY <1>0, <1>1, <1>2, <1>3, <1>4, <1>5, <1>6, RequestsType, HandlerStepsType, RequestFailsType
       DEF Next, Serve

\* The ledger, the request being served and the threads keep to their types: in
\* particular a thread never walks past the last step of its plan.
THEOREM TypeCorrect == Spec => []TypeOK
    BY TypeInit, TypeStep, PTL DEF Spec

-----------------------------------------------------------------------------
(***************************************************************************)
(* The inductive invariant IInv.  A step touches at most one run; Same says*)
(* of a run that the step leaves it alone.                                 *)
(***************************************************************************)
Same(q) ==
    /\ status'[q] = status[q]
    /\ owner'[q] = owner[q]
    /\ plan'[q] = plan[q]
    /\ cancelled'[q] = cancelled[q]
    /\ finished'[q] = finished[q]
    /\ linked'[q] = linked[q]
    /\ stepStatus'[q] = stepStatus[q]
    /\ attempts'[q] = attempts[q]
    /\ locker'[q] = locker[q]
    /\ marked'[q] = marked[q]
    /\ pc'[q] = pc[q]
    /\ idx'[q] = idx[q]
    /\ tries'[q] = tries[q]

LEMMA SameRunInv ==
    ASSUME NEW q \in RunIds, RunInv(q), Same(q)
    PROVE  RunInv(q)'
<1>1. RowInv(q)'
    BY DEF RunInv, RowInv, Same, Exists, Accepted
<1>2. LockInv(q)'
    BY DEF RunInv, LockInv, Same
<1>3. Exists(q)' => WalkInv(q)'
    BY DEF RunInv, WalkInv, Same, Exists
<1>4. Exists(q)' => PlaceInv(q)'
    BY DEF RunInv, PlaceInv, Same, Exists, Here, Budget
<1>5. Exists(q)' => SettledInv(q)'
    BY DEF RunInv, SettledInv, Same, Exists
<1> QED
    BY <1>1, <1>2, <1>3, <1>4, <1>5 DEF RunInv

\* The order of an accepted plan, seen from the place where its thread is.
LEMMA HereFacts ==
    ASSUME TypeOK, NEW r \in RunIds, RunInv(r), Exists(r)
    PROVE  /\ plan[r] \in Plans
           /\ idx[r] \in 1 .. NumSteps
           /\ Here(r) \in Positions
           /\ \A j \in 1 .. NumSteps :
                  /\ Order[plan[r]][j] \in Positions
                  /\ Order[plan[r]][j] = Here(r) <=> j = idx[r]
           /\ \A p \in Positions : MaxRetries[plan[r]][p] \in Nat
<1>1. plan[r] \in Plans /\ Order[plan[r]] # NoOrder
    BY DEF RunInv, RowInv, Accepted
<1>2. Order[plan[r]] \in [1 .. NumSteps -> Positions]
    BY <1>1, PlanAssumption
<1>3. idx[r] \in 1 .. NumSteps
    BY DEF TypeOK
<1>4. \A i, j \in 1 .. NumSteps : Order[plan[r]][i] = Order[plan[r]][j] => i = j
    BY <1>1, OrderAssumption
<1>5. \A p \in Positions : MaxRetries[plan[r]][p] \in Nat
    BY <1>1, PlanAssumption
<1> QED
    BY <1>1, <1>2, <1>3, <1>4, <1>5 DEF Here

LEMMA BudgetFacts ==
    ASSUME TypeOK, NEW r \in RunIds, RunInv(r), Exists(r)
    PROVE  /\ Budget(r) \in Nat
           /\ attempts[r] \in [Positions -> Nat]
           /\ attempts[r][Here(r)] \in Nat
           /\ attempts[r][Here(r)] <= Budget(r) + 1
<1>1. Here(r) \in Positions
    BY HereFacts
<1>2. Budget(r) \in Nat
    BY <1>1, HereFacts DEF Budget
<1>3. attempts[r] \in [Positions -> Nat]
    BY DEF TypeOK, LedgerTypeOK
<1>4. attempts[r][Here(r)] <= Budget(r) + 1
    BY <1>1 DEF RunInv, WalkInv, Budget
<1> QED
    BY <1>1, <1>2, <1>3, <1>4

LEMMA InvInit == Init => IInv
<1> SUFFICES ASSUME Init PROVE IInv
    OBVIOUS
<1> USE DEF Init, ApiInit, LedgerInit
<1>1. TypeOK
    BY TypeInit
<1>2. Unique
    BY DEF Unique
<1>3. HandlerInv
    BY DEF HandlerInv, Idle, Handler, AnswersAreConsistent
<1>4. ASSUME NEW r \in RunIds PROVE RunInv(r)
    BY DEF RunInv, RowInv, LockInv, Exists, Terminal, Walking
<1> QED
    BY <1>1, <1>2, <1>3, <1>4 DEF IInv

\* Thread steps that leave the ledger alone: only the place changes.
LEMMA QuietStepInv ==
    ASSUME TypeOK, TypeOK', NEW r \in RunIds, RunInv(r), UNCHANGED ledger,
           StartStep(r) \/ Complete(r) \/ SucceedStep(r) \/ FailStep(r) \/ Load(r)
    PROVE  RunInv(r)'
<1> USE DEF Goto, Stay, ledger
<1>0. Exists(r) /\ Exists(r)'
    BY DEF RunInv, RowInv, Exists, StartStep, Complete, SucceedStep, FailStep, Load
<1>1. pc[r] \in Walking \cup {"load"} /\ pc'[r] \in Walking \cup {"fail", "done"}
    BY DEF StartStep, Complete, SucceedStep, FailStep, Load, Walking, AfterFailure, TypeOK
<1>2. RowInv(r)'
    BY <1>1 DEF RunInv, RowInv, Exists, Accepted, Walking
<1>3. LockInv(r)' /\ SettledInv(r)'
    BY <1>0 DEF RunInv, LockInv, SettledInv
<1>4. idx' = idx
  <2>1. CASE Load(r)
    <3>1. idx[r] = 1
        BY <1>0, <2>1 DEF Load, RunInv, PlaceInv, Unstarted
    <3> QED
        BY <2>1, <3>1 DEF Load, TypeOK
  <2> QED
    BY <2>1 DEF StartStep, Complete, SucceedStep, FailStep
<1>5. WalkInv(r)'
    BY <1>0, <1>4 DEF RunInv, WalkInv
<1>6. Here(r)' = Here(r) /\ Budget(r)' = Budget(r)
    BY <1>4 DEF Here, Budget
<1>7. PlaceInv(r)'
  <2> USE <1>0, HereFacts
  <2> USE DEF RunInv, PlaceInv, Unstarted, Walking, Completing, Live
  <2>1. CASE StartStep(r)
    BY <1>6, <2>1 DEF StartStep, TypeOK
  <2>2. CASE Complete(r)
    BY <1>6, <2>2 DEF Complete, TypeOK
  <2>3. CASE SucceedStep(r)
    BY <1>6, <2>3 DEF SucceedStep, TypeOK
  <2>4. CASE FailStep(r)
    <3>1. CASE Live(r)
      BY <1>6, <2>4, <3>1 DEF FailStep, TypeOK
    <3>2. CASE ~Live(r) /\ tries[r][Here(r)] <= Budget(r)
      <4>1. pc'[r] = "startStep" /\ cancelled'[r] /\ tries'[r] = tries[r] /\ tries[r] = attempts[r]
        BY <2>4, <3>2 DEF FailStep, AfterFailure, Budget, TypeOK
      <4> QED
        BY <1>6, <3>2, <4>1
    <3>3. CASE ~Live(r) /\ ~(tries[r][Here(r)] <= Budget(r))
      <4>1. pc'[r] = "fail" /\ cancelled'[r] /\ tries[r] = attempts[r]
        BY <2>4, <3>3 DEF FailStep, AfterFailure, Budget, TypeOK
      <4>2. attempts[r][Here(r)] \in Nat /\ Budget(r) \in Nat /\ attempts[r][Here(r)] <= Budget(r) + 1
        BY BudgetFacts
      <4>3. attempts[r][Here(r)] = Budget(r) + 1
        BY <3>3, <4>1, <4>2
      <4> QED
        BY <1>6, <4>1, <4>3
    <3> QED
      BY <3>1, <3>2, <3>3
  <2>5. CASE Load(r)
    <3>1. \A p \in Positions : attempts[r][p] = 0
      BY <2>5 DEF Load
    <3>2. tries'[r] = attempts'[r] /\ pc'[r] \in {"startStep", "fail"}
      BY <2>5 DEF Load, TypeOK
    <3>3. 0 <= Budget(r)
      BY DEF Budget
    <3>4. ~cancelled[r] => stepStatus[r][Here(r)] = "queued"
      BY <2>5, <3>1 DEF Load, WalkInv, RowInv
    <3> QED
      BY <1>6, <3>1, <3>2, <3>3, <3>4
  <2> QED
    BY <2>1, <2>2, <2>3, <2>4, <2>5
<1> QED
    BY <1>0, <1>2, <1>3, <1>5, <1>7 DEF RunInv

\* start: the run begins, nothing of it has been touched.
LEMMA StartInv ==
    ASSUME TypeOK, TypeOK', NEW r \in RunIds, RunInv(r), Start(r)
    PROVE  RunInv(r)'
<1>0. Exists(r) /\ pc[r] = "start" /\ locker[r] = "none"
    BY DEF Start, RunInv, RowInv, Exists, Unlocked
<1>1. CASE UNCHANGED ledger /\ Goto(r, "done")
  <2> USE <1>0, <1>1 DEF Goto, ledger, Start, Stay, RunInv, Exists
  <2>1. RowInv(r)'
    BY DEF RowInv, Accepted, TypeOK, Walking
  <2>2. LockInv(r)' /\ SettledInv(r)' /\ WalkInv(r)'
    BY DEF LockInv, SettledInv, WalkInv
  <2>3. PlaceInv(r)'
    BY DEF PlaceInv, TypeOK, Walking, Unstarted, Completing
  <2> QED
    BY <2>1, <2>2, <2>3
<1>2. CASE start(r) /\ Goto(r, "load")
  <2> USE <1>0, <1>2 DEF start, Startable, Goto, rowVars, lockVars, Start, Stay, RunInv, Exists
  <2>1. status'[r] = "running" /\ pc'[r] = "load"
    BY DEF TypeOK, LedgerTypeOK
  <2>2. RowInv(r)'
    BY <2>1 DEF RowInv, Accepted, Walking, Terminal
  <2>3. LockInv(r)' /\ SettledInv(r)'
    BY <2>1 DEF LockInv, SettledInv
  <2>4. WalkInv(r)'
    BY <2>1 DEF WalkInv
  <2>5. PlaceInv(r)'
    BY <2>1 DEF PlaceInv, Walking, Unstarted, Completing
  <2> QED
    BY <2>1, <2>2, <2>3, <2>4, <2>5
<1> QED
    BY <1>1, <1>2 DEF Start

\* A thread that stops leaves its run as it is.
LEMMA StopInv ==
    ASSUME TypeOK, NEW r \in RunIds, RunInv(r), UNCHANGED <<ledger, idx, tries>>,
           pc'[r] = "done", Exists(r)
    PROVE  RunInv(r)'
<1> USE DEF ledger, RunInv, Exists
<1>1. RowInv(r)'
    BY DEF RowInv, Accepted, Walking
<1>2. LockInv(r)' /\ SettledInv(r)' /\ WalkInv(r)'
    BY DEF LockInv, SettledInv, WalkInv
<1>3. PlaceInv(r)'
    BY DEF PlaceInv, Walking, Unstarted, Completing
<1> QED
    BY <1>1, <1>2, <1>3

\* start_step takes effect: the budget was not used up, and if a cancellation
\* has swept the steps, or is about to, this is a retry.
LEMMA StartStepApplyInv ==
    ASSUME TypeOK, TypeOK', NEW r \in RunIds, RunInv(r), StartStepApply(r)
    PROVE  RunInv(r)'
<1>0. Exists(r) /\ pc[r] = "startStepApply" /\ Here(r) \notin marked[r]
    BY DEF StartStepApply, RunInv, RowInv, Exists, StepFree, Walking
<1>1. CASE UNCHANGED <<ledger, tries>> /\ Goto(r, "done")
  <2>1. pc'[r] = "done"
    BY <1>1 DEF Goto, TypeOK
  <2> QED
    BY <1>0, <1>1, <2>1, StopInv DEF StartStepApply
<1>2. CASE /\ start_step(r, Here(r))
           /\ tries' = [tries EXCEPT ![r][Here(r)] = @ + 1]
           /\ Goto(r, "complete")
  <2> DEFINE h == Here(r)
  <2>1. h \in Positions /\ Here(r)' = h /\ Budget(r)' = Budget(r)
    BY <1>0, <1>2, HereFacts DEF Here, Budget, start_step, rowVars, StartStepApply
  <2>2. /\ \A p \in Positions : stepStatus'[r][p] = IF p = h THEN "running" ELSE stepStatus[r][p]
        /\ \A p \in Positions : attempts'[r][p] = IF p = h THEN attempts[r][h] + 1 ELSE attempts[r][p]
    BY <1>2, <2>1 DEF start_step, TypeOK, LedgerTypeOK
  <2>3. tries'[r] = attempts'[r]
    <3>1. tries[r] = attempts[r]
      BY <1>0 DEF RunInv, PlaceInv, Walking
    <3>2. /\ tries'[r] = [tries[r] EXCEPT ![h] = tries[r][h] + 1]
          /\ attempts'[r] = [attempts[r] EXCEPT ![h] = attempts[r][h] + 1]
      BY <1>2 DEF start_step, TypeOK, LedgerTypeOK
    <3> QED
      BY <3>1, <3>2
  <2>4. pc'[r] = "complete" /\ idx'[r] = idx[r] /\ UNCHANGED <<status, owner, plan, finished, linked, cancelled, locker, marked>>
    BY <1>2 DEF Goto, TypeOK, StartStepApply, start_step, rowVars, lockVars
  <2>5. /\ attempts[r][h] \in Nat /\ Budget(r) \in Nat /\ attempts[r][h] <= Budget(r)
        /\ stepStatus[r][h] \in {"queued", "failed"}
        /\ stepStatus[r][h] = "failed" => attempts[r][h] >= 1
        /\ MaxRetries[plan[r]][h] = Budget(r)
    <3>1. attempts[r][h] \in Nat /\ Budget(r) \in Nat
      BY <1>0, BudgetFacts
    <3>2. attempts[r][h] <= Budget(r)
      BY <1>0 DEF RunInv, PlaceInv
    <3>3. stepStatus[r][h] \in {"queued", "failed"}
      BY <1>2 DEF start_step, StepStartable
    <3>4. attempts[r][h] = 0 => stepStatus[r][h] # "failed"
      BY <1>0, <2>1 DEF RunInv, WalkInv
    <3> QED
      BY <3>1, <3>2, <3>3, <3>4 DEF Budget
  <2>6. \A p \in Positions : attempts[r][p] \in Nat
    BY DEF TypeOK, LedgerTypeOK
  <2> HIDE DEF h
  <2>7. RowInv(r)'
    BY <1>0, <2>4 DEF RunInv, RowInv, Exists, Accepted, Walking
  <2>8. LockInv(r)'
    BY <1>0, <2>1, <2>2, <2>4, <2>5, <2>6 DEF RunInv, LockInv, h
  <2>9. WalkInv(r)'
    <3>1. \A j \in 1 .. NumSteps : Order[plan[r]][j] \in Positions /\ (Order[plan[r]][j] = h <=> j = idx[r])
      BY <1>0, HereFacts DEF h
    <3>2. idx[r] \in 1 .. NumSteps /\ WalkInv(r)
      BY <1>0 DEF RunInv, TypeOK
    <3>3. ASSUME NEW j \in 1 .. NumSteps
          PROVE  /\ j < idx'[r] => stepStatus'[r][Order[plan'[r]][j]] = "succeeded"
                 /\ j > idx'[r] => attempts'[r][Order[plan'[r]][j]] = 0
      BY <2>2, <2>4, <3>1, <3>2 DEF WalkInv
    <3>4. ASSUME NEW p \in Positions
          PROVE  /\ attempts'[r][p] <= MaxRetries[plan'[r]][p] + 1
                 /\ attempts'[r][p] = 0 => stepStatus'[r][p] \in {"queued", "cancelled"}
                 /\ stepStatus'[r][p] = "queued" => attempts'[r][p] = 0
      BY <2>2, <2>4, <2>5, <2>6, <3>2 DEF WalkInv
    <3>5. ASSUME NEW p \in Positions
          PROVE  /\ stepStatus'[r][p] = "cancelled" => status'[r] \in {"cancelled", "failed"}
                 /\ status'[r] = "queued" => stepStatus'[r][p] = "queued"
                 /\ status'[r] = "cancelled" =>
                      /\ stepStatus'[r][p] # "queued"
                      /\ stepStatus'[r][p] = "running" => attempts'[r][p] >= 2
      <4>1. status[r] # "queued"
        BY <1>0 DEF RunInv, RowInv, Walking
      <4> QED
        BY <2>1, <2>2, <2>4, <2>5, <2>6, <3>2, <4>1 DEF WalkInv
    <3> QED
      BY <3>3, <3>4, <3>5 DEF WalkInv
  <2>10. PlaceInv(r)'
    BY <2>1, <2>2, <2>3, <2>4, <2>5 DEF PlaceInv, Unstarted, Walking, Completing, h
  <2>11. SettledInv(r)'
    <3>1. status'[r] \in {"running", "cancelled"}
      BY <1>0, <2>4 DEF RunInv, RowInv, Walking
    <3> QED
      BY <3>1 DEF SettledInv
  <2> QED
    BY <2>7, <2>8, <2>9, <2>10, <2>11 DEF RunInv
<1> QED
    BY <1>1, <1>2 DEF StartStepApply

\* succeed_step takes effect: one more step is behind the walk.
LEMMA SucceedStepApplyInv ==
    ASSUME TypeOK, TypeOK', NEW r \in RunIds, RunInv(r), SucceedStepApply(r)
    PROVE  RunInv(r)'
<1> DEFINE h == Here(r)
<1>0. Exists(r) /\ pc[r] = "succeedStepApply" /\ h \notin marked[r]
    BY DEF SucceedStepApply, RunInv, RowInv, Exists, StepFree, Walking
<1>1. h \in Positions
    BY <1>0, HereFacts
<1>2. \A p \in Positions : stepStatus'[r][p] = IF p = h THEN "succeeded" ELSE stepStatus[r][p]
    BY <1>1 DEF SucceedStepApply, succeed_step, TypeOK, LedgerTypeOK
<1>3. UNCHANGED <<status, owner, plan, finished, linked, cancelled, attempts, tries, locker, marked>>
    BY DEF SucceedStepApply, succeed_step, rowVars, lockVars
<1>4. attempts[r][h] >= 1 /\ tries[r] = attempts[r] /\ status[r] \in {"running", "cancelled"}
    BY <1>0 DEF RunInv, PlaceInv, RowInv, Walking, Completing
<1>5. \A p \in Positions : attempts[r][p] \in Nat
    BY DEF TypeOK, LedgerTypeOK
<1>6. /\ idx[r] \in 1 .. NumSteps /\ NumSteps \in Nat
      /\ \/ idx[r] < NumSteps /\ idx'[r] = idx[r] + 1 /\ pc'[r] = "startStep"
         \/ idx[r] = NumSteps /\ idx'[r] = idx[r] /\ pc'[r] = "succeed"
    BY PlanAssumption DEF SucceedStepApply, Goto, TypeOK
<1>7. \A j \in 1 .. NumSteps : Order[plan[r]][j] \in Positions /\ (Order[plan[r]][j] = h <=> j = idx[r])
    BY <1>0, HereFacts
<1>8. WalkInv(r)
    BY <1>0 DEF RunInv
<1> HIDE DEF h
<1>9. RowInv(r)'
    BY <1>0, <1>3, <1>6 DEF RunInv, RowInv, Exists, Accepted, Walking
<1>10. LockInv(r)'
    BY <1>0, <1>2, <1>3 DEF RunInv, LockInv
<1>11. WalkInv(r)'
  <2>1. ASSUME NEW j \in 1 .. NumSteps
        PROVE  /\ j < idx'[r] => stepStatus'[r][Order[plan'[r]][j]] = "succeeded"
               /\ j > idx'[r] => attempts'[r][Order[plan'[r]][j]] = 0
    <3>1. j < idx'[r] => j < idx[r] \/ j = idx[r]
      BY <1>6
    <3>2. j > idx'[r] => j > idx[r]
      BY <1>6
    <3> QED
      BY <1>2, <1>3, <1>7, <1>8, <3>1, <3>2 DEF WalkInv
  <2>2. ASSUME NEW p \in Positions
        PROVE  /\ attempts'[r][p] <= MaxRetries[plan'[r]][p] + 1
               /\ attempts'[r][p] = 0 => stepStatus'[r][p] \in {"queued", "cancelled"}
               /\ stepStatus'[r][p] = "queued" => attempts'[r][p] = 0
               /\ stepStatus'[r][p] = "cancelled" => status'[r] \in {"cancelled", "failed"}
               /\ status'[r] = "queued" => stepStatus'[r][p] = "queued"
               /\ status'[r] = "cancelled" =>
                    /\ stepStatus'[r][p] # "queued"
                    /\ stepStatus'[r][p] = "running" => attempts'[r][p] >= 2
    BY <1>2, <1>3, <1>4, <1>8 DEF WalkInv
  <2> QED
    BY <2>1, <2>2 DEF WalkInv
<1>12. PlaceInv(r)'
  <2>1. CASE pc'[r] = "startStep"
    <3> DEFINE k == Order[plan[r]][idx[r] + 1]
    <3>1. Here(r)' = k /\ k \in Positions /\ k # h /\ idx[r] + 1 \in 1 .. NumSteps
      BY <1>3, <1>6, <1>7, <2>1 DEF Here
    <3>2. attempts[r][k] = 0
      BY <1>6, <1>8, <2>1, <3>1 DEF WalkInv
    <3>3. ~cancelled[r] => stepStatus[r][k] = "queued"
      BY <1>4, <1>8, <3>1, <3>2 DEF WalkInv, RunInv, RowInv
    <3>4. Budget(r)' \in Nat
      BY <1>0, <1>3, <3>1, HereFacts DEF Budget
    <3> HIDE DEF k
    <3> QED
      BY <1>2, <1>3, <1>4, <2>1, <3>1, <3>2, <3>3, <3>4 DEF PlaceInv, Unstarted, Walking, Completing
  <2>2. CASE pc'[r] = "succeed"
    <3>1. ASSUME NEW p \in Positions PROVE stepStatus'[r][p] = "succeeded"
      <4>1. PICK j \in 1 .. NumSteps : Order[plan[r]][j] = p
        BY <1>0, OrderAssumption DEF RunInv, RowInv, Accepted
      <4>2. j < idx[r] \/ j = idx[r]
        BY <1>6, <2>2
      <4> QED
        BY <1>2, <1>7, <1>8, <4>1, <4>2 DEF WalkInv
    <3> QED
      BY <2>2, <3>1 DEF PlaceInv, Unstarted, Walking, Completing
  <2> QED
    BY <1>6, <2>1, <2>2
<1>13. SettledInv(r)'
    BY <1>3, <1>4 DEF SettledInv
<1> QED
    BY <1>9, <1>10, <1>11, <1>12, <1>13 DEF RunInv

\* fail_step takes effect: the step may be tried again if its budget allows.
LEMMA FailStepApplyInv ==
    ASSUME TypeOK, TypeOK', NEW r \in RunIds, RunInv(r), FailStepApply(r)
    PROVE  RunInv(r)'
<1> DEFINE h == Here(r)
<1>0. Exists(r) /\ pc[r] = "failStepApply" /\ h \notin marked[r]
    BY DEF FailStepApply, RunInv, RowInv, Exists, StepFree, Walking
<1>1. h \in Positions
    BY <1>0, HereFacts
<1>2. \A p \in Positions : stepStatus'[r][p] = IF p = h THEN "failed" ELSE stepStatus[r][p]
    BY <1>1 DEF FailStepApply, fail_step, TypeOK, LedgerTypeOK
<1>3. UNCHANGED <<status, owner, plan, finished, linked, cancelled, attempts, idx, tries, locker, marked>>
    BY DEF FailStepApply, fail_step, rowVars, lockVars, Stay
<1>4. attempts[r][h] >= 1 /\ tries[r] = attempts[r] /\ status[r] \in {"running", "cancelled"}
    BY <1>0 DEF RunInv, PlaceInv, RowInv, Walking, Completing
<1>5. Here(r)' = h /\ Budget(r)' = Budget(r)
    BY <1>3 DEF Here, Budget
<1>6. \/ pc'[r] = "startStep" /\ attempts[r][h] <= Budget(r)
      \/ pc'[r] = "fail" /\ attempts[r][h] = Budget(r) + 1
  <2>1. /\ attempts[r][h] \in Nat /\ Budget(r) \in Nat /\ attempts[r][h] <= Budget(r) + 1
    BY <1>0, BudgetFacts
  <2>2. pc'[r] = IF attempts[r][h] <= Budget(r) THEN "startStep" ELSE "fail"
    BY <1>4 DEF FailStepApply, AfterFailure, Budget, Goto, TypeOK
  <2> QED
    BY <2>1, <2>2
<1>7. \A j \in 1 .. NumSteps : Order[plan[r]][j] \in Positions /\ (Order[plan[r]][j] = h <=> j = idx[r])
    BY <1>0, HereFacts
<1>8. WalkInv(r) /\ idx[r] \in 1 .. NumSteps
    BY <1>0 DEF RunInv, TypeOK
<1> HIDE DEF h
<1>9. RowInv(r)'
    BY <1>0, <1>3, <1>6 DEF RunInv, RowInv, Exists, Accepted, Walking
<1>10. LockInv(r)'
    BY <1>0, <1>2, <1>3 DEF RunInv, LockInv
<1>11. WalkInv(r)'
  <2>1. ASSUME NEW j \in 1 .. NumSteps
        PROVE  /\ j < idx'[r] => stepStatus'[r][Order[plan'[r]][j]] = "succeeded"
               /\ j > idx'[r] => attempts'[r][Order[plan'[r]][j]] = 0
    BY <1>2, <1>3, <1>7, <1>8 DEF WalkInv
  <2>2. ASSUME NEW p \in Positions
        PROVE  /\ attempts'[r][p] <= MaxRetries[plan'[r]][p] + 1
               /\ attempts'[r][p] = 0 => stepStatus'[r][p] \in {"queued", "cancelled"}
               /\ stepStatus'[r][p] = "queued" => attempts'[r][p] = 0
               /\ stepStatus'[r][p] = "cancelled" => status'[r] \in {"cancelled", "failed"}
               /\ status'[r] = "queued" => stepStatus'[r][p] = "queued"
               /\ status'[r] = "cancelled" =>
                    /\ stepStatus'[r][p] # "queued"
                    /\ stepStatus'[r][p] = "running" => attempts'[r][p] >= 2
    BY <1>2, <1>3, <1>4, <1>8 DEF WalkInv
  <2> QED
    BY <2>1, <2>2 DEF WalkInv
<1>12. PlaceInv(r)'
    BY <1>1, <1>2, <1>3, <1>4, <1>5, <1>6 DEF PlaceInv, Unstarted, Walking, Completing
<1>13. SettledInv(r)'
    BY <1>3, <1>4 DEF SettledInv
<1> QED
    BY <1>9, <1>10, <1>11, <1>12, <1>13 DEF RunInv

\* succeed: by then every step has succeeded.
LEMMA SucceedInv ==
    ASSUME TypeOK, NEW r \in RunIds, RunInv(r), Succeed(r)
    PROVE  RunInv(r)'
<1>0. Exists(r) /\ pc[r] = "succeed" /\ locker[r] = "none" /\ pc'[r] = "done" /\ UNCHANGED <<idx, tries>>
    BY DEF Succeed, RunInv, RowInv, Exists, Unlocked, Goto, Stay, TypeOK
<1>1. CASE UNCHANGED ledger
    BY <1>0, <1>1, StopInv
<1>2. CASE succeed(r)
  <2>1. /\ status'[r] = "succeeded" /\ finished'[r] = TRUE
        /\ UNCHANGED <<owner, plan, linked, cancelled, stepStatus, attempts, locker, marked>>
    BY <1>2 DEF succeed, TypeOK, LedgerTypeOK, lockVars
  <2>2. ~cancelled[r] /\ status[r] = "running"
    BY <1>2 DEF succeed, Finishable
  <2>3. \A p \in Positions : stepStatus[r][p] = "succeeded"
    BY <1>0 DEF RunInv, PlaceInv
  <2> USE <1>0 DEF RunInv
  <2>4. RowInv(r)'
    BY <2>1, <2>2 DEF RowInv, Exists, Accepted, Walking, Terminal
  <2>5. LockInv(r)'
    BY <2>1 DEF LockInv
  <2>6. WalkInv(r)'
    BY <2>1, <2>3 DEF WalkInv
  <2>7. PlaceInv(r)'
    BY <2>1 DEF PlaceInv, Unstarted, Walking, Completing
  <2>8. SettledInv(r)'
    BY <2>1, <2>3 DEF SettledInv
  <2> QED
    BY <2>4, <2>5, <2>6, <2>7, <2>8
<1> QED
    BY <1>1, <1>2 DEF Succeed

\* fail: the step at hand used up its budget, or nothing was started; what was
\* still queued is swept.
LEMMA FailInv ==
    ASSUME TypeOK, NEW r \in RunIds, RunInv(r), Fail(r)
    PROVE  RunInv(r)'
<1>0. Exists(r) /\ pc[r] = "fail" /\ locker[r] = "none" /\ pc'[r] = "done" /\ UNCHANGED <<idx, tries>>
    BY DEF Fail, RunInv, RowInv, Exists, Unlocked, Goto, Stay, TypeOK
<1>1. CASE UNCHANGED ledger
    BY <1>0, <1>1, StopInv
<1>2. CASE fail(r)
  <2>1. /\ status'[r] = "failed" /\ finished'[r] = TRUE
        /\ UNCHANGED <<owner, plan, linked, cancelled, attempts, locker, marked>>
    BY <1>2 DEF fail, TypeOK, LedgerTypeOK, lockVars
  <2>2. ~cancelled[r] /\ status[r] = "running"
    BY <1>2 DEF fail, Finishable
  <2>3. \A p \in Positions :
            stepStatus'[r][p] = IF stepStatus[r][p] = "queued" THEN "cancelled" ELSE stepStatus[r][p]
    BY <1>2 DEF fail, TypeOK, LedgerTypeOK
  <2>4. Here(r) \in Positions /\ Budget(r) = MaxRetries[plan[r]][Here(r)] /\ Budget(r) \in Nat
    BY <1>0, HereFacts DEF Budget
  <2>5. \A j \in 1 .. NumSteps : Order[plan[r]][j] \in Positions
    BY <1>0, HereFacts
  <2>6. RowInv(r)'
    BY <1>0, <2>1, <2>2 DEF RunInv, RowInv, Exists, Accepted, Walking, Terminal
  <2>7. LockInv(r)'
    BY <1>0, <2>1 DEF RunInv, LockInv
  <2>8. WalkInv(r)'
    BY <1>0, <2>1, <2>2, <2>3, <2>5 DEF RunInv, WalkInv
  <2>9. PlaceInv(r)'
    BY <1>0 DEF PlaceInv, Unstarted, Walking, Completing
  <2>10. SettledInv(r)'
    <3>1. CASE \A p \in Positions : attempts[r][p] = 0
      BY <1>0, <2>1, <2>3, <3>1 DEF RunInv, WalkInv, SettledInv, Terminal
    <3>2. CASE attempts[r][Here(r)] = Budget(r) + 1 /\ stepStatus[r][Here(r)] = "failed"
      <4>1. ASSUME NEW p \in Positions PROVE stepStatus'[r][p] \in Terminal
        <5>1. PICK j \in 1 .. NumSteps : Order[plan[r]][j] = p
          BY <1>0, OrderAssumption DEF RunInv, RowInv, Accepted
        <5>2. idx[r] \in 1 .. NumSteps
          BY DEF TypeOK
        <5>3. CASE j < idx[r]
          BY <1>0, <2>3, <5>1, <5>3 DEF RunInv, WalkInv, Terminal
        <5>4. CASE j = idx[r]
          BY <2>3, <3>2, <5>1, <5>4 DEF Here, Terminal
        <5>5. CASE j > idx[r]
          BY <1>0, <2>3, <5>1, <5>5 DEF RunInv, WalkInv, Terminal
        <5> QED
          BY <5>2, <5>3, <5>4, <5>5
      <4>2. stepStatus'[r][Here(r)] = "failed" /\ attempts'[r][Here(r)] = MaxRetries[plan'[r]][Here(r)] + 1
        BY <2>1, <2>3, <2>4, <3>2
      <4> QED
        BY <2>1, <2>4, <4>1, <4>2 DEF SettledInv
    <3> QED
      BY <1>0, <2>2, <3>1, <3>2 DEF RunInv, PlaceInv
  <2> QED
    BY <2>6, <2>7, <2>8, <2>9, <2>10 DEF RunInv
<1> QED
    BY <1>1, <1>2 DEF Fail

\* submit: a fresh row.
LEMMA SubmitInv ==
    ASSUME TypeOK, NEW r \in RunIds, NEW t \in Tenants, NEW k \in Keys, NEW pl \in Plans,
           RunInv(r), SubmitRun(r, t, k, pl), UNCHANGED threadVars,
           locker[r] = "none"
    PROVE  RunInv(r)'
<1> USE DEF SubmitRun, submit
<1>1. /\ status[r] = "absent" /\ pc'[r] = "none" /\ ~cancelled[r] /\ ~finished[r] /\ ~linked[r]
      /\ marked[r] = {}
    BY DEF RunInv, RowInv, LockInv, Exists, threadVars, Terminal
<1>2. /\ status'[r] = "queued" /\ owner'[r] = <<t, k>> /\ plan'[r] = pl
      /\ \A p \in Positions : stepStatus'[r][p] = "queued" /\ attempts'[r][p] = 0
      /\ UNCHANGED <<cancelled, finished, linked, locker, marked>>
    BY DEF TypeOK, LedgerTypeOK, lockVars
<1>3. <<t, k>> # None
    BY PlanAssumption
<1>4. RowInv(r)'
    BY <1>1, <1>2, <1>3 DEF RowInv, Exists, Terminal, Walking, Accepted
<1>5. LockInv(r)'
    BY <1>1, <1>2 DEF LockInv
<1>6. idx'[r] = 1
    BY <1>1 DEF RunInv, RowInv, Exists, threadVars
<1>7. WalkInv(r)'
  <2>1. Order[pl] \in [1 .. NumSteps -> Positions] /\ MaxRetries[pl] \in [Positions -> Nat]
    BY PlanAssumption DEF Accepted
  <2>2. \A j \in 1 .. NumSteps :
            /\ ~(j < idx'[r])
            /\ attempts'[r][Order[plan'[r]][j]] = 0
    <3> SUFFICES ASSUME NEW j \in 1 .. NumSteps
                 PROVE  ~(j < idx'[r]) /\ attempts'[r][Order[plan'[r]][j]] = 0
        OBVIOUS
    <3>1. Order[pl][j] \in Positions /\ plan'[r] = pl
        BY <1>2, <2>1
    <3>2. attempts'[r][Order[pl][j]] = 0
        BY <1>2, <3>1
    <3> QED
        BY <1>6, <3>1, <3>2
  <2>3. \A p \in Positions : attempts'[r][p] <= MaxRetries[plan'[r]][p] + 1
    BY <1>2, <2>1
  <2> HIDE DEF SubmitRun, submit
  <2> QED
    BY <1>2, <2>2, <2>3 DEF WalkInv
<1>8. PlaceInv(r)'
    BY <1>1, <1>2, <1>6 DEF PlaceInv, Unstarted, Walking, Completing
<1>9. SettledInv(r)'
    BY <1>2 DEF SettledInv
<1> QED
    BY <1>4, <1>5, <1>7, <1>8, <1>9 DEF RunInv

\* cancel opens its transaction: nothing is visible yet.
LEMMA CancelUpdateInv ==
    ASSUME TypeOK, NEW r \in RunIds, RunInv(r), Exists(r), UNCHANGED threadVars,
           cancel_update(r, "handler")
    PROVE  RunInv(r)'
<1> USE DEF cancel_update, rowVars, threadVars
<1>1. /\ locker'[r] = "handler"
      /\ marked'[r] = {p \in Positions : stepStatus[r][p] \in {"queued", "running"}}
      /\ UNCHANGED <<status, owner, plan, finished, linked, cancelled, stepStatus, attempts, pc, idx, tries>>
    BY DEF TypeOK, LedgerTypeOK
<1>2. status[r] \in {"queued", "running"}
    BY DEF Exists, Cancellable, TypeOK, LedgerTypeOK, RunStatus
<1>3. LockInv(r)'
    BY <1>1, <1>2 DEF LockInv
<1>4. RowInv(r)'
    BY <1>1 DEF RunInv, RowInv, Exists, Accepted
<1>5. WalkInv(r)' /\ SettledInv(r)'
    BY <1>1, SMTT(30) DEF RunInv, WalkInv, SettledInv
<1>6. PlaceInv(r)'
    BY <1>1 DEF RunInv, PlaceInv, Here, Budget
<1> QED
    BY <1>3, <1>4, <1>5, <1>6 DEF RunInv

\* cancel commits: what was queued is swept, and a step that is still running
\* is a retry the sweep has missed.
LEMMA CancelCommitInv ==
    ASSUME TypeOK, NEW r \in RunIds, RunInv(r), Exists(r), UNCHANGED threadVars,
           locker[r] # "none", cancel_commit(r)
    PROVE  RunInv(r)'
<1> USE DEF cancel_commit, threadVars
<1>1. /\ status'[r] = "cancelled" /\ cancelled'[r] = TRUE /\ finished'[r] = TRUE
      /\ locker'[r] = "none" /\ marked'[r] = {}
      /\ UNCHANGED <<owner, plan, linked, attempts, pc, idx, tries>>
    BY DEF TypeOK, LedgerTypeOK
<1>2. \A p \in Positions :
          stepStatus'[r][p] = IF p \in marked[r] THEN "cancelled" ELSE stepStatus[r][p]
    BY DEF Swept, TypeOK, LedgerTypeOK
<1>3. /\ status[r] \in {"queued", "running"}
      /\ \A p \in Positions :
             /\ p \in marked[r] => stepStatus[r][p] \in {"queued", "running"}
             /\ stepStatus[r][p] = "queued" => p \in marked[r]
             /\ stepStatus[r][p] = "running" /\ p \notin marked[r] => attempts[r][p] >= 2
    BY DEF RunInv, LockInv
<1>4. \A j \in 1 .. NumSteps : Order[plan[r]][j] \in Positions
    BY HereFacts
<1>5. Here(r) \in Positions /\ Here(r)' = Here(r) /\ Budget(r)' = Budget(r)
    BY <1>1, HereFacts DEF Here, Budget
<1>6. RowInv(r)'
    BY <1>1, <1>3 DEF RunInv, RowInv, Exists, Accepted, Walking, Terminal
<1>7. LockInv(r)'
    BY <1>1 DEF LockInv
<1>8. WalkInv(r)'
  <2>0. WalkInv(r)
    BY DEF RunInv
  <2>1. ASSUME NEW j \in 1 .. NumSteps
        PROVE  /\ j < idx'[r] => stepStatus'[r][Order[plan'[r]][j]] = "succeeded"
               /\ j > idx'[r] => attempts'[r][Order[plan'[r]][j]] = 0
    BY <1>1, <1>2, <1>3, <1>4, <2>0 DEF WalkInv
  <2>2. ASSUME NEW p \in Positions
        PROVE  /\ attempts'[r][p] <= MaxRetries[plan'[r]][p] + 1
               /\ attempts'[r][p] = 0 => stepStatus'[r][p] \in {"queued", "cancelled"}
               /\ stepStatus'[r][p] = "queued" => attempts'[r][p] = 0
               /\ stepStatus'[r][p] # "queued"
               /\ stepStatus'[r][p] = "running" => attempts'[r][p] >= 2
    BY <1>1, <1>2, <1>3, <2>0 DEF WalkInv
  <2> QED
    BY <1>1, <2>1, <2>2 DEF WalkInv
<1>9. PlaceInv(r)'
  <2>1. pc[r] = "startStepApply" => stepStatus'[r][Here(r)] \in {"queued", "failed", "cancelled"}
    BY <1>2, <1>5 DEF RunInv, PlaceInv
  <2>2. pc[r] = "succeed" => \A p \in Positions : stepStatus'[r][p] = "succeeded"
    BY <1>2, <1>3 DEF RunInv, PlaceInv
  <2>3. pc[r] \in Completing => stepStatus'[r][Here(r)] \in {"running", "cancelled"}
    BY <1>2, <1>5 DEF RunInv, PlaceInv
  <2> QED
    BY <1>1, <1>5, <2>1, <2>2, <2>3 DEF RunInv, PlaceInv
<1>10. SettledInv(r)'
    BY <1>1 DEF SettledInv
<1> QED
    BY <1>6, <1>7, <1>8, <1>9, <1>10 DEF RunInv

\* A transaction that is rolled back leaves no trace.
LEMMA RollbackInv ==
    ASSUME NEW r \in RunIds, RunInv(r), locker'[r] = "none", marked'[r] = {},
           UNCHANGED <<status, owner, plan, finished, linked, cancelled, stepStatus, attempts, idx, tries>>,
           pc'[r] = pc[r] \/ (pc'[r] = "done" /\ pc[r] # "none")
    PROVE  RunInv(r)'
<1>1. RowInv(r)'
    BY DEF RunInv, RowInv, Exists, Accepted, Walking
<1>2. LockInv(r)'
    BY DEF LockInv
<1>3. Exists(r)' => WalkInv(r)' /\ SettledInv(r)'
    BY DEF RunInv, WalkInv, SettledInv, Exists
<1>4. Exists(r)' => PlaceInv(r)'
  <2>1. CASE pc'[r] = pc[r]
    BY <2>1 DEF RunInv, PlaceInv, Here, Budget, Exists
  <2>2. CASE pc'[r] = "done"
    BY <2>2 DEF PlaceInv, Unstarted, Walking, Completing
  <2> QED
    BY <2>1, <2>2
<1> QED
    BY <1>1, <1>2, <1>3, <1>4 DEF RunInv

-----------------------------------------------------------------------------
\* A step of a thread changes only its own run, never its owner or a row lock,
\* and moves the run's status only if it is not final.
LEMMA ThreadFrame ==
    ASSUME TypeOK, NEW r \in RunIds, RunInv(r), Thread(r)
    PROVE  /\ \A q \in RunIds \ {r} : Same(q)
           /\ UNCHANGED <<owner, plan, locker, marked, handler, lost>>
           /\ pc[r] # "none"
           /\ Exists(r)
           /\ status[r] \in Terminal => status'[r] = status[r]
           /\ status'[r] # "absent"
<1> USE DEF Same, Goto, Stay, ledger, rowVars, lockVars, TypeOK, LedgerTypeOK, Exists, Terminal
<1>0. pc[r] \notin {"none", "done"} /\ status[r] # "absent"
    BY DEF Thread, Start, Load, StartStep, StartStepApply, Complete, SucceedStep, SucceedStepApply,
           FailStep, FailStepApply, Succeed, Fail, RunInv, RowInv
<1>1. CASE Start(r)
    BY <1>0, <1>1 DEF Start, start, Startable
<1>2. CASE Load(r)
    BY <1>0, <1>2 DEF Load
<1>3. CASE StartStep(r) \/ Complete(r) \/ SucceedStep(r) \/ FailStep(r)
    BY <1>0, <1>3 DEF StartStep, Complete, SucceedStep, FailStep
<1>4. CASE StartStepApply(r)
    BY <1>0, <1>4 DEF StartStepApply, start_step
<1>5. CASE SucceedStepApply(r)
    BY <1>0, <1>5 DEF SucceedStepApply, succeed_step
<1>6. CASE FailStepApply(r)
    BY <1>0, <1>6 DEF FailStepApply, fail_step
<1>7. CASE Succeed(r)
    BY <1>0, <1>7 DEF Succeed, succeed, Finishable
<1>8. CASE Fail(r)
    BY <1>0, <1>8 DEF Fail, fail, Finishable
<1> QED
    BY <1>1, <1>2, <1>3, <1>4, <1>5, <1>6, <1>7, <1>8 DEF Thread

LEMMA ThreadRunInv ==
    ASSUME TypeOK, TypeOK', NEW r \in RunIds, RunInv(r), Thread(r)
    PROVE  RunInv(r)'
<1>1. CASE StartStep(r) \/ Complete(r) \/ SucceedStep(r) \/ FailStep(r) \/ Load(r)
    BY <1>1, QuietStepInv DEF StartStep, Complete, SucceedStep, FailStep, Load
<1> QED
    BY <1>1, StartInv, StartStepApplyInv, SucceedStepApplyInv, FailStepApplyInv,
       SucceedInv, FailInv DEF Thread

LEMMA ThreadStepInv ==
    ASSUME IInv, TypeOK', NEW r \in RunIds, Thread(r)
    PROVE  IInv'
<1> USE DEF IInv
<1>1. \A q \in RunIds : RunInv(q)'
  <2>1. RunInv(r)'
    BY ThreadRunInv
  <2>2. ASSUME NEW q \in RunIds \ {r} PROVE RunInv(q)'
    BY ThreadFrame, SameRunInv
  <2> QED
    BY <2>1, <2>2
<1>2. Unique'
    BY ThreadFrame DEF Unique
<1>3. HandlerInv'
    BY ThreadFrame DEF HandlerInv, AnswersAreConsistent, Exists, Same, TypeOK, HandlerTypeOK
<1> QED
    BY <1>1, <1>2, <1>3

LEMMA RequestsInv ==
    ASSUME IInv, TypeOK', Requests, UNCHANGED <<threadVars, lost>>
    PROVE  IInv'
<1> USE DEF IInv
<1>1. ASSUME NEW r \in RunIds, NEW t \in Tenants, NEW k \in Keys, NEW pl \in Plans,
             SubmitRun(r, t, k, pl)
      PROVE  IInv'
  <2>1. /\ status[r] = "absent" /\ handler.op = "idle" /\ \A q \in RunIds : owner[q] # <<t, k>>
        /\ handler' = Handler("spawn", r, FALSE, "queued", NoView)
    BY <1>1 DEF SubmitRun, submit, Exists, Conflict
  <2>2. locker[r] = "none"
    BY <2>1 DEF HandlerInv
  <2>3. \A q \in RunIds \ {r} : Same(q)
    BY <1>1 DEF SubmitRun, submit, Same, threadVars, lockVars, TypeOK, LedgerTypeOK
  <2>4. RunInv(r)'
    BY <1>1, <2>2, SubmitInv
  <2>5. \A q \in RunIds : RunInv(q)'
    BY <2>3, <2>4, SameRunInv
  <2>6. owner'[r] = <<t, k>> /\ status'[r] = "queued" /\ pc'[r] = "none" /\ locker' = locker
    BY <1>1, <2>1 DEF SubmitRun, submit, threadVars, lockVars, TypeOK, LedgerTypeOK, RunInv, RowInv, Exists
  <2>7. Unique'
    BY <2>1, <2>3, <2>6 DEF Unique, Same
  <2>8. HandlerInv'
    BY <2>1, <2>6 DEF HandlerInv, Handler, AnswersAreConsistent, Exists
  <2> QED
    BY <2>5, <2>7, <2>8
<1>2. ASSUME NEW r \in RunIds, UNCHANGED ledger, Exists(r),
             \/ handler' = Handler("steps", r, FALSE, status[r], NoView)
             \/ handler' = Handler("cancel", r, linked[r], "absent", NoView),
             handler.op = "idle"
      PROVE  IInv'
  <2>1. \A q \in RunIds : Same(q)
    BY <1>2 DEF ledger, threadVars, Same
  <2>2. \A q \in RunIds : RunInv(q)'
    BY <2>1, SameRunInv
  <2>3. Unique'
    BY <1>2 DEF Unique, ledger
  <2>4. HandlerInv'
    BY <1>2 DEF HandlerInv, Handler, AnswersAreConsistent, Exists, ledger, RunInv, RowInv
  <2> QED
    BY <2>2, <2>3, <2>4
<1>3. ASSUME NEW r \in RunIds, NEW t \in Tenants, NEW k \in Keys, ResubmitRun(r, t, k)
      PROVE  Exists(r)
  <2>1. <<t, k>> # None
    BY PlanAssumption
  <2> QED
    BY <1>3, <2>1 DEF ResubmitRun, RunInv, RowInv
<1> QED
    BY <1>1, <1>2, <1>3 DEF Requests, ResubmitRun, GetRun, CancelRun

LEMMA ServeInv ==
    ASSUME IInv, TypeOK', Serve
    PROVE  IInv'
<1> USE DEF IInv, Serve
<1>0. LoadSteps \/ CancelUpdate \/ CancelTerminal \/ CancelCommit => handler.run \in RunIds
    BY DEF LoadSteps, CancelUpdate, CancelTerminal, CancelCommit, TypeOK, HandlerTypeOK
<1>1. CASE LoadSteps
  <2> PICK r \in RunIds : r = handler.run
    BY <1>0, <1>1
  <2>0. r \in RunIds /\ Exists(r) /\ RunInv(r) /\ ~handler.link
    BY <1>1 DEF LoadSteps, HandlerInv, TypeOK, HandlerTypeOK
  <2>1. \A q \in RunIds : RunInv(q)'
    BY <1>1, SameRunInv DEF LoadSteps, ledger, threadVars, Same
  <2>2. Unique'
    BY <1>1 DEF LoadSteps, Unique, ledger
  <2>3. /\ handler'.op = "reply" /\ handler'.run = r /\ handler'.link = handler.link
        /\ handler'.seen = handler.seen /\ handler'.view = stepStatus[r]
    BY <1>1, <2>0 DEF LoadSteps, Answered, TypeOK, HandlerTypeOK
  <2>4. handler.seen \in Terminal => status[r] = handler.seen
    BY <1>1 DEF LoadSteps, HandlerInv
  <2>5. AnswersAreConsistent'
    BY <2>0, <2>3, <2>4 DEF AnswersAreConsistent, RunInv, WalkInv, SettledInv, Terminal
  <2>6. HandlerInv'
    BY <1>1, <2>0, <2>3, <2>5 DEF HandlerInv, LoadSteps, ledger, Exists
  <2> QED
    BY <2>1, <2>2, <2>6
<1>2. CASE CancelUpdate
  <2> PICK r \in RunIds : r = handler.run
    BY <1>0, <1>2
  <2>0. r \in RunIds /\ Exists(r) /\ RunInv(r) /\ handler.op = "cancel"
    BY <1>2 DEF CancelUpdate, HandlerInv, TypeOK, HandlerTypeOK
  <2>1. RunInv(r)'
    BY <1>2, <2>0, CancelUpdateInv DEF CancelUpdate
  <2>2. \A q \in RunIds \ {r} : Same(q)
    BY <1>2 DEF CancelUpdate, cancel_update, threadVars, rowVars, Same, TypeOK, LedgerTypeOK
  <2>3. \A q \in RunIds : RunInv(q)'
    BY <2>1, <2>2, SameRunInv
  <2>4. Unique'
    BY <1>2 DEF CancelUpdate, cancel_update, rowVars, Unique
  <2>5. /\ handler'.op = "commit" /\ handler'.run = r /\ handler'.link = handler.link
        /\ handler'.seen = handler.seen
    BY <1>2 DEF CancelUpdate, TypeOK, HandlerTypeOK
  <2>6. locker' = [locker EXCEPT ![r] = "handler"] /\ status' = status
    BY <1>2 DEF CancelUpdate, cancel_update
  <2>7. \A q \in RunIds : locker'[q] # "none" <=> (handler'.op = "commit" /\ handler'.run = q)
    BY <2>0, <2>5, <2>6 DEF HandlerInv, TypeOK, LedgerTypeOK
  <2>8. HandlerInv'
    BY <2>0, <2>5, <2>6, <2>7 DEF HandlerInv, AnswersAreConsistent, Exists
  <2> QED
    BY <2>3, <2>4, <2>8
<1>3. CASE CancelTerminal
  <2> PICK r \in RunIds : r = handler.run
    BY <1>0, <1>3
  <2>0. r \in RunIds /\ Exists(r) /\ handler.op = "cancel"
    BY <1>3 DEF CancelTerminal, HandlerInv, TypeOK, HandlerTypeOK
  <2>1. \A q \in RunIds : RunInv(q)'
    BY <1>3, SameRunInv DEF CancelTerminal, ledger, threadVars, Same
  <2>2. Unique'
    BY <1>3 DEF CancelTerminal, Unique, ledger
  <2>3. /\ handler'.op = "steps" /\ handler'.run = r /\ handler'.link = handler.link
        /\ handler'.seen = status[r]
    BY <1>3 DEF CancelTerminal, TypeOK, HandlerTypeOK
  <2>4. HandlerInv'
    BY <1>3, <2>0, <2>3 DEF HandlerInv, CancelTerminal, ledger, Exists, AnswersAreConsistent
  <2> QED
    BY <2>1, <2>2, <2>4
<1>4. CASE CancelCommit
  <2> PICK r \in RunIds : r = handler.run
    BY <1>0, <1>4
  <2>0. r \in RunIds /\ Exists(r) /\ RunInv(r) /\ handler.op = "commit" /\ ~handler.link
    BY <1>4 DEF CancelCommit, HandlerInv, TypeOK, HandlerTypeOK
  <2>1. locker[r] # "none"
    BY <2>0 DEF HandlerInv
  <2>2. RunInv(r)'
    BY <1>4, <2>0, <2>1, CancelCommitInv DEF CancelCommit
  <2>3. \A q \in RunIds \ {r} : Same(q)
    BY <1>4 DEF CancelCommit, cancel_commit, threadVars, Same, TypeOK, LedgerTypeOK
  <2>4. \A q \in RunIds : RunInv(q)'
    BY <2>2, <2>3, SameRunInv
  <2>5. Unique'
    BY <1>4 DEF CancelCommit, cancel_commit, Unique
  <2>6. /\ handler'.op = "reply" /\ handler'.run = r /\ handler'.link = handler.link
        /\ handler'.seen = "cancelled" /\ handler'.view = Swept(r)
    BY <1>4, <2>0 DEF CancelCommit, Answered, TypeOK, HandlerTypeOK
  <2>7. \A p \in Positions : Swept(r)[p] # "queued"
    BY <2>0, <2>1 DEF Swept, RunInv, LockInv
  <2>8. status' = [status EXCEPT ![r] = "cancelled"] /\ locker' = [locker EXCEPT ![r] = "none"]
    BY <1>4 DEF CancelCommit, cancel_commit
  <2>9. \A q \in RunIds : locker'[q] = "none"
    BY <2>0, <2>8 DEF HandlerInv, TypeOK, LedgerTypeOK
  <2>10. HandlerInv'
    BY <2>0, <2>6, <2>7, <2>8, <2>9 DEF HandlerInv, AnswersAreConsistent, Exists, TypeOK, LedgerTypeOK
  <2> QED
    BY <2>4, <2>5, <2>10
<1>5. CASE Reply
  <2>1. \A q \in RunIds : RunInv(q)'
    BY <1>5, SameRunInv DEF Reply, ledger, threadVars, Same
  <2>2. Unique'
    BY <1>5 DEF Reply, Unique, ledger
  <2>3. HandlerInv'
    BY <1>5 DEF HandlerInv, Reply, ledger, Idle, Handler, AnswersAreConsistent
  <2> QED
    BY <2>1, <2>2, <2>3
<1> QED
    BY <1>1, <1>2, <1>3, <1>4, <1>5 DEF HandlerSteps

LEMMA SpawnThreadInv ==
    ASSUME IInv, TypeOK', SpawnThread
    PROVE  IInv'
<1> USE DEF IInv
<1> PICK r \in RunIds : r = handler.run
    BY DEF SpawnThread, TypeOK, HandlerTypeOK
<1>1. /\ status[r] = "queued" /\ pc[r] = "none" /\ pc'[r] = "start" /\ RunInv(r) /\ Exists(r)
      /\ UNCHANGED <<ledger, idx, tries>>
    BY DEF SpawnThread, HandlerInv, Goto, TypeOK, Exists
<1>2. RunInv(r)'
  <2> USE <1>1 DEF RunInv, ledger, Exists
  <2>1. RowInv(r)'
    BY DEF RowInv, Accepted, Walking
  <2>2. LockInv(r)' /\ WalkInv(r)' /\ SettledInv(r)'
    BY DEF LockInv, WalkInv, SettledInv
  <2>3. PlaceInv(r)'
    BY DEF PlaceInv, Unstarted, Walking, Completing
  <2> QED
    BY <2>1, <2>2, <2>3
<1>3. \A q \in RunIds \ {r} : Same(q)
    BY <1>1 DEF SpawnThread, Goto, ledger, Same, TypeOK
<1>4. \A q \in RunIds : RunInv(q)'
    BY <1>2, <1>3, SameRunInv
<1>5. Unique'
    BY <1>1 DEF Unique, ledger
<1>6. /\ handler'.op = "reply" /\ handler'.run = r /\ handler'.link = handler.link
      /\ handler'.seen = handler.seen /\ handler'.view = handler.view
    BY DEF SpawnThread, TypeOK, HandlerTypeOK
<1>7. handler.seen = "queued"
    BY DEF SpawnThread, HandlerInv
<1>8. HandlerInv'
    BY <1>1, <1>6, <1>7 DEF HandlerInv, AnswersAreConsistent, SpawnThread, ledger, Exists
<1> QED
    BY <1>4, <1>5, <1>8

LEMMA FaultsInv ==
    ASSUME IInv, TypeOK',
           \/ \E r \in RunIds : ThreadDies(r)
           \/ RequestFails /\ UNCHANGED <<threadVars, lost>>
           \/ Restart
    PROVE  IInv'
<1> USE DEF IInv
<1>1. ASSUME NEW r \in RunIds, ThreadDies(r) PROVE IInv'
  <2>1. pc'[r] = "done" /\ pc[r] # "none" /\ Exists(r) /\ UNCHANGED <<ledger, handler, idx, tries>>
    BY <1>1 DEF ThreadDies, Goto, TypeOK, apiVars, RunInv, RowInv
  <2>2. RunInv(r)'
    BY <2>1, StopInv
  <2>3. \A q \in RunIds \ {r} : Same(q)
    BY <1>1, <2>1 DEF ThreadDies, Goto, ledger, Same, TypeOK
  <2>4. \A q \in RunIds : RunInv(q)'
    BY <2>2, <2>3, SameRunInv
  <2>5. Unique'
    BY <2>1 DEF Unique, ledger
  <2>6. HandlerInv'
    BY <2>1, <2>3 DEF HandlerInv, AnswersAreConsistent, ledger, Exists, Same, TypeOK, HandlerTypeOK
  <2> QED
    BY <2>4, <2>5, <2>6
<1>2. ASSUME RequestFails, UNCHANGED <<threadVars, lost>> PROVE IInv'
  <2>1. CASE UNCHANGED ledger /\ handler.op # "commit"
    <3>1. \A q \in RunIds : RunInv(q)'
      BY <1>2, <2>1, SameRunInv DEF ledger, threadVars, Same
    <3>2. Unique'
      BY <2>1 DEF Unique, ledger
    <3>3. HandlerInv'
      BY <1>2, <2>1 DEF RequestFails, HandlerInv, ledger, Idle, Handler, AnswersAreConsistent
    <3> QED
      BY <3>1, <3>2, <3>3
  <2>2. CASE handler.op = "commit" /\ rollback(handler.run)
    <3> PICK r \in RunIds : r = handler.run
      BY <2>2 DEF TypeOK, HandlerTypeOK
    <3>1. RunInv(r)'
      BY <1>2, <2>2, RollbackInv DEF rollback, rowVars, threadVars, TypeOK, LedgerTypeOK
    <3>2. \A q \in RunIds \ {r} : Same(q)
      BY <1>2, <2>2 DEF rollback, rowVars, threadVars, Same, TypeOK, LedgerTypeOK
    <3>3. \A q \in RunIds : RunInv(q)'
      BY <3>1, <3>2, SameRunInv
    <3>4. Unique'
      BY <2>2 DEF Unique, rollback, rowVars
    <3>5. \A q \in RunIds : locker'[q] = "none"
      BY <2>2 DEF rollback, HandlerInv, TypeOK, LedgerTypeOK
    <3>6. HandlerInv'
      BY <1>2, <3>5 DEF RequestFails, HandlerInv, Idle, Handler, AnswersAreConsistent
    <3> QED
      BY <3>3, <3>4, <3>6
  <2> QED
    BY <1>2, <2>1, <2>2 DEF RequestFails
<1>3. CASE Restart
  <2>1. ASSUME NEW r \in RunIds PROVE RunInv(r)'
    <3>1. /\ locker'[r] = "none" /\ marked'[r] = {}
          /\ UNCHANGED <<status, owner, plan, finished, linked, cancelled, stepStatus, attempts, idx, tries>>
          /\ pc'[r] = pc[r] \/ (pc'[r] = "done" /\ pc[r] # "none")
      BY <1>3 DEF Restart, rowVars
    <3> QED
      BY <3>1, RollbackInv
  <2>2. Unique'
    BY <1>3 DEF Restart, rowVars, Unique
  <2>3. HandlerInv'
    BY <1>3 DEF Restart, HandlerInv, Idle, Handler, AnswersAreConsistent
  <2> QED
    BY <2>1, <2>2, <2>3
<1> QED
    BY <1>1, <1>2, <1>3

LEMMA InvStep == IInv /\ [Next]_vars => IInv'
<1> SUFFICES ASSUME IInv, [Next]_vars PROVE IInv'
    OBVIOUS
<1>1. TypeOK'
    BY TypeStep DEF IInv
<1>2. CASE UNCHANGED vars
  <2> USE DEF vars, apiVars, ledger, threadVars
  <2>1. \A q \in RunIds : RunInv(q)'
    BY <1>2, SameRunInv DEF Same, IInv
  <2>2. Unique' /\ HandlerInv'
    BY <1>2 DEF IInv, Unique, HandlerInv, AnswersAreConsistent, Exists
  <2> QED
    BY <1>1, <2>1, <2>2 DEF IInv
<1> QED
    BY <1>1, <1>2, RequestsInv, ServeInv, SpawnThreadInv, ThreadStepInv, FaultsInv DEF Next

\* The inductive invariant holds in every reachable state.
THEOREM InvariantHolds == Spec => []IInv
    BY InvInit, InvStep, PTL DEF Spec

-----------------------------------------------------------------------------
(***************************************************************************)
(* What follows from the invariant.                                        *)
(***************************************************************************)
LEMMA InvImpliesWalkProperties == IInv => RetryBudget /\ DependenciesFirst /\ CancelSweepsSteps
<1> SUFFICES ASSUME IInv PROVE RetryBudget /\ DependenciesFirst /\ CancelSweepsSteps
    OBVIOUS
<1> USE DEF IInv
<1>1. RetryBudget
  <2> SUFFICES ASSUME NEW r \in RunIds, Exists(r), NEW p \in Positions
               PROVE  /\ attempts[r][p] <= MaxRetries[plan[r]][p] + 1
                      /\ stepStatus[r][p] \in {"running", "succeeded", "failed"} => attempts[r][p] >= 1
    BY DEF RetryBudget
  <2>1. attempts[r][p] \in Nat
    BY DEF TypeOK, LedgerTypeOK
  <2> QED
    BY <2>1 DEF RunInv, WalkInv
<1>2. DependenciesFirst
  <2> SUFFICES ASSUME NEW r \in RunIds, NEW p \in Positions, Exists(r), attempts[r][p] > 0,
                      NEW d \in DependsOn[plan[r]][p]
               PROVE  stepStatus[r][d] = "succeeded"
    BY DEF DependenciesFirst
  <2>1. plan[r] \in Plans /\ Order[plan[r]] # NoOrder /\ WalkInv(r)
    BY DEF RunInv, RowInv, Accepted
  <2>2. PICK i \in 1 .. NumSteps : Order[plan[r]][i] = p
    BY <2>1, OrderAssumption
  <2>3. PICK j \in 1 .. i - 1 : Order[plan[r]][j] = d
    <3>1. \A e \in DependsOn[plan[r]][Order[plan[r]][i]] :
              \E j \in 1 .. i - 1 : Order[plan[r]][j] = e
      BY <2>1, OrderAssumption
    <3> QED
      BY <2>2, <3>1
  <2>4. idx[r] \in 1 .. NumSteps /\ NumSteps \in Nat
    BY PlanAssumption DEF TypeOK
  <2>5. ~(i > idx[r])
    BY <2>1, <2>2 DEF WalkInv
  <2>6. j \in 1 .. NumSteps /\ j < idx[r]
    BY <2>3, <2>4, <2>5
  <2> QED
    BY <2>1, <2>3, <2>6 DEF WalkInv
<1>3. CancelSweepsSteps
    BY DEF CancelSweepsSteps, RunInv, WalkInv, Exists
<1> QED
    BY <1>1, <1>2, <1>3

LEMMA InvImpliesRowProperties == IInv => FlagsAgree /\ FinishedRunsAreSettled /\ AnswersAreConsistent
<1> SUFFICES ASSUME IInv PROVE FlagsAgree /\ FinishedRunsAreSettled /\ AnswersAreConsistent
    OBVIOUS
<1>1. FlagsAgree
    BY DEF IInv, FlagsAgree, RunInv, RowInv
<1>2. FinishedRunsAreSettled
    BY DEF IInv, FinishedRunsAreSettled, RunInv, SettledInv, Exists
<1>3. AnswersAreConsistent
    BY DEF IInv, HandlerInv
<1> QED
    BY <1>1, <1>2, <1>3

\* No interleaving of thread, cancellation, database error and restart starts a
\* step more often than its retry budget allows.
THEOREM RetriesBounded == Spec => []RetryBudget
    BY InvariantHolds, InvImpliesWalkProperties, PTL

\* For every accepted DAG, a step that was ever started has all its
\* dependencies succeeded, for good.
THEOREM DependenciesRespected == Spec => []DependenciesFirst
    BY InvariantHolds, InvImpliesWalkProperties, PTL

\* After cancel, no step is queued, and only a retry can be running.
THEOREM CancelSweeps == Spec => []CancelSweepsSteps
    BY InvariantHolds, InvImpliesWalkProperties, PTL

\* cancelled, status and finished_at of a run row always agree.
THEOREM FlagsConsistent == Spec => []FlagsAgree
    BY InvariantHolds, InvImpliesRowProperties, PTL

\* A run that succeeded has only succeeded steps; a failed one is settled and
\* shows why it failed.
THEOREM FinishedSettled == Spec => []FinishedRunsAreSettled
    BY InvariantHolds, InvImpliesRowProperties, PTL

\* An answer of the API that reports a final status shows steps that fit it,
\* although _load reads the run and its steps with two snapshots.
THEOREM AnswersConsistent == Spec => []AnswersAreConsistent
    BY InvariantHolds, InvImpliesRowProperties, PTL

-----------------------------------------------------------------------------
(***************************************************************************)
(* The refinement: every step is a step of RunLifecycle or changes neither *)
(* a status nor an owner.                                                  *)
(***************************************************************************)
LEMMA LifecycleStep == IInv /\ [Next]_vars => [Lifecycle!Next]_(Lifecycle!vars)
<1> SUFFICES ASSUME IInv, [Next]_vars PROVE [Lifecycle!Next]_(Lifecycle!vars)
    OBVIOUS
<1> USE DEF Lifecycle!vars
<1>1. ASSUME UNCHANGED <<status, owner>> PROVE [Lifecycle!Next]_(Lifecycle!vars)
    BY <1>1
<1>2. ASSUME NEW r \in RunIds, NEW t \in Tenants, NEW k \in Keys, NEW pl \in Plans,
             SubmitRun(r, t, k, pl)
      PROVE  [Lifecycle!Next]_(Lifecycle!vars)
  <2>1. <<t, k>> \in Tenants \X Keys
    OBVIOUS
  <2>2. Lifecycle!Create(r, <<t, k>>)
    BY <1>2 DEF SubmitRun, submit, Exists, Conflict, Lifecycle!Create
  <2> QED
    BY <2>1, <2>2 DEF Lifecycle!Next
<1>3. CASE Requests
  <2>1. ASSUME NEW r \in RunIds, NEW t \in Tenants, NEW k \in Keys, ResubmitRun(r, t, k)
        PROVE  UNCHANGED <<status, owner>>
    BY <2>1 DEF ResubmitRun, ledger
  <2>2. ASSUME NEW r \in RunIds, GetRun(r) \/ CancelRun(r)
        PROVE  UNCHANGED <<status, owner>>
    BY <2>2 DEF GetRun, CancelRun, ledger
  <2> QED
    BY <1>1, <1>2, <1>3, <2>1, <2>2 DEF Requests
<1>4. CASE Serve
  <2>1. CASE CancelCommit
    <3>1. handler.run \in RunIds /\ locker[handler.run] # "none"
      BY <2>1 DEF CancelCommit, IInv, HandlerInv, TypeOK, HandlerTypeOK
    <3>2. status[handler.run] \in {"queued", "running"}
      BY <3>1 DEF IInv, RunInv, LockInv
    <3>3. Lifecycle!Cancel(handler.run)
      BY <2>1, <3>2 DEF CancelCommit, cancel_commit, Lifecycle!Cancel
    <3> QED
      BY <3>1, <3>3 DEF Lifecycle!Next
  <2>2. CASE LoadSteps \/ CancelUpdate \/ CancelTerminal \/ Reply
    BY <1>1, <2>2 DEF LoadSteps, CancelUpdate, cancel_update, CancelTerminal, Reply, ledger, rowVars
  <2> QED
    BY <1>4, <2>1, <2>2 DEF Serve, HandlerSteps
<1>5. CASE SpawnThread
    BY <1>1, <1>5 DEF SpawnThread, ledger
<1>6. ASSUME NEW r \in RunIds, Thread(r) PROVE [Lifecycle!Next]_(Lifecycle!vars)
  <2> USE DEF ledger, rowVars
  <2>1. CASE Start(r)
    <3>1. CASE start(r)
      <4>1. Lifecycle!Begin(r)
        BY <3>1 DEF start, Startable, Lifecycle!Begin
      <4> QED
        BY <4>1 DEF Lifecycle!Next
    <3> QED
      BY <1>1, <2>1, <3>1 DEF Start
  <2>2. CASE Succeed(r)
    <3>1. CASE succeed(r)
      <4>1. Lifecycle!Finish(r, "succeeded")
        BY <3>1 DEF succeed, Finishable, Lifecycle!Finish
      <4> QED
        BY <4>1 DEF Lifecycle!Next
    <3> QED
      BY <1>1, <2>2, <3>1 DEF Succeed
  <2>3. CASE Fail(r)
    <3>1. CASE fail(r)
      <4>1. Lifecycle!Finish(r, "failed")
        BY <3>1 DEF fail, Finishable, Lifecycle!Finish
      <4> QED
        BY <4>1 DEF Lifecycle!Next
    <3> QED
      BY <1>1, <2>3, <3>1 DEF Fail
  <2>4. CASE Load(r) \/ StartStep(r) \/ StartStepApply(r) \/ Complete(r) \/ SucceedStep(r)
             \/ SucceedStepApply(r) \/ FailStep(r) \/ FailStepApply(r)
    BY <1>1, <2>4 DEF Load, StartStep, StartStepApply, start_step, Complete, SucceedStep,
           SucceedStepApply, succeed_step, FailStep, FailStepApply, fail_step
  <2> QED
    BY <1>6, <2>1, <2>2, <2>3, <2>4 DEF Thread
<1>7. ASSUME NEW r \in RunIds, ThreadDies(r) PROVE [Lifecycle!Next]_(Lifecycle!vars)
    BY <1>1, <1>7 DEF ThreadDies, apiVars, ledger
<1>8. CASE RequestFails
    BY <1>1, <1>8 DEF RequestFails, rollback, ledger, rowVars
<1>9. CASE Restart
    BY <1>1, <1>9 DEF Restart, rowVars
<1>10. CASE UNCHANGED vars
    BY <1>1, <1>10 DEF vars, apiVars, ledger
<1> QED
    BY <1>3, <1>4, <1>5, <1>6, <1>7, <1>8, <1>9, <1>10 DEF Next

\* The ledger with its handlers and threads implements RunLifecycle.
THEOREM LifecycleImplemented == Spec => ImplementsLifecycle
<1>1. Init => Lifecycle!Init
    BY DEF Init, ApiInit, LedgerInit, Lifecycle!Init
<1> QED
    BY <1>1, LifecycleStep, InvariantHolds, PTL DEF Spec, ImplementsLifecycle, Lifecycle!Spec

LEMMA SuccessStep ==
    ASSUME IInv, Next, NEW q \in RunIds, NEW p \in Positions, stepStatus[q][p] = "succeeded"
    PROVE  stepStatus'[q][p] = "succeeded"
<1> USE DEF IInv, TypeOK, LedgerTypeOK
<1>0. ASSUME UNCHANGED stepStatus PROVE stepStatus'[q][p] = "succeeded"
    BY <1>0
<1>1. CASE Requests
  <2>1. ASSUME NEW r \in RunIds, NEW t \in Tenants, NEW k \in Keys, NEW pl \in Plans,
               SubmitRun(r, t, k, pl)
        PROVE  stepStatus'[q][p] = "succeeded"
    <3>1. \A s \in Positions : stepStatus[r][s] = "queued"
      BY <2>1 DEF SubmitRun, submit, RunInv, RowInv
    <3> QED
      BY <2>1, <3>1 DEF SubmitRun, submit
  <2>2. ASSUME NEW r \in RunIds, NEW t \in Tenants, NEW k \in Keys, ResubmitRun(r, t, k)
        PROVE  UNCHANGED stepStatus
    BY <2>2 DEF ResubmitRun, ledger
  <2>3. ASSUME NEW r \in RunIds, GetRun(r) \/ CancelRun(r)
        PROVE  UNCHANGED stepStatus
    BY <2>3 DEF GetRun, CancelRun, ledger
  <2> QED
    BY <1>0, <1>1, <2>1, <2>2, <2>3 DEF Requests
<1>2. CASE Serve
  <2>1. CASE CancelCommit
    <3> PICK r \in RunIds : r = handler.run
      BY <2>1 DEF CancelCommit, HandlerTypeOK
    <3>1. locker[r] # "none"
      BY <2>1 DEF CancelCommit, HandlerInv
    <3>2. \A s \in marked[r] : stepStatus[r][s] \in {"queued", "running"}
      BY <3>1 DEF RunInv, LockInv
    <3> QED
      BY <2>1, <3>2 DEF CancelCommit, cancel_commit, Swept
  <2>2. CASE LoadSteps \/ CancelUpdate \/ CancelTerminal \/ Reply
    BY <1>0, <2>2 DEF LoadSteps, CancelUpdate, cancel_update, CancelTerminal, Reply, ledger
  <2> QED
    BY <1>2, <2>1, <2>2 DEF Serve, HandlerSteps
<1>3. ASSUME NEW r \in RunIds, Thread(r) PROVE stepStatus'[q][p] = "succeeded"
  <2> USE DEF ledger, Stay
  <2>1. CASE StartStepApply(r)
    <3>1. CASE start_step(r, Here(r))
      <4>1. stepStatus[r][Here(r)] # "succeeded"
        BY <3>1 DEF start_step, StepStartable
      <4>2. stepStatus' = [stepStatus EXCEPT ![r][Here(r)] = "running"]
        BY <3>1 DEF start_step
      <4> QED
        BY <4>1, <4>2
    <3>2. CASE UNCHANGED ledger
      BY <1>0, <3>2
    <3> QED
      BY <2>1, <3>1, <3>2 DEF StartStepApply
  <2>2. CASE SucceedStepApply(r)
    BY <2>2 DEF SucceedStepApply, succeed_step
  <2>3. CASE FailStepApply(r)
    <3>1. stepStatus[r][Here(r)] # "succeeded"
      BY <2>3 DEF FailStepApply, RunInv, RowInv, PlaceInv, Completing, Walking
    <3> QED
      BY <2>3, <3>1 DEF FailStepApply, fail_step
  <2>4. CASE Fail(r)
    <3>1. CASE fail(r)
      BY <3>1 DEF fail
    <3> QED
      BY <1>0, <2>4, <3>1 DEF Fail
  <2>5. CASE Start(r) \/ Load(r) \/ StartStep(r) \/ Complete(r) \/ SucceedStep(r) \/ FailStep(r)
             \/ Succeed(r)
    BY <1>0, <2>5 DEF Start, start, Load, StartStep, Complete, SucceedStep, FailStep, Succeed, succeed
  <2> QED
    BY <1>3, <2>1, <2>2, <2>3, <2>4, <2>5 DEF Thread
<1>4. CASE SpawnThread \/ Restart \/ RequestFails \/ \E r \in RunIds : ThreadDies(r)
    BY <1>0, <1>4 DEF SpawnThread, Restart, RequestFails, rollback, ThreadDies, apiVars, ledger
<1> QED
    BY <1>1, <1>2, <1>3, <1>4 DEF Next

\* A step that succeeded stays succeeded, although succeed_step and fail_step
\* do not look at the status they overwrite.
THEOREM SuccessKept == Spec => SuccessIsKept
<1>1. IInv /\ [Next]_vars =>
          [\A r \in RunIds, p \in Positions :
               stepStatus[r][p] = "succeeded" => stepStatus'[r][p] = "succeeded"]_vars
    BY SuccessStep
<1> QED
    BY <1>1, InvariantHolds, PTL DEF Spec, SuccessIsKept

=============================================================================
