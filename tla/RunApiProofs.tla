---------------------------- MODULE RunApiProofs ----------------------------
(***************************************************************************)
(* Facts about the ledger's methods and the HTTP handlers that hold        *)
(* whatever executes the runs: every one of them keeps the types of the    *)
(* ledger and of the request being served.                                 *)
(***************************************************************************)
EXTENDS RunApi, TLAPS

ApiTypeOK == LedgerTypeOK /\ HandlerTypeOK

\* Updating one entry of a table keeps its type.
LEMMA UpdateType ==
    ASSUME NEW I, NEW J, NEW S, NEW f \in [I -> [J -> S]], NEW i \in I, NEW j,
           NEW v, j \in J => v \in S
    PROVE  [f EXCEPT ![i][j] = v] \in [I -> [J -> S]]
    OBVIOUS

LEMMA BumpType ==
    ASSUME NEW I, NEW J, NEW f \in [I -> [J -> Nat]], NEW i \in I, NEW j
    PROVE  [f EXCEPT ![i][j] = @ + 1] \in [I -> [J -> Nat]]
<1>1. j \in J => f[i][j] + 1 \in Nat
    OBVIOUS
<1>2. [f EXCEPT ![i][j] = f[i][j] + 1] \in [I -> [J -> Nat]]
    BY <1>1, UpdateType
<1> QED
    BY <1>2

LEMMA ApiTypeInit == ApiInit => ApiTypeOK
<1> SUFFICES ASSUME ApiInit PROVE ApiTypeOK
    OBVIOUS
<1> USE DEF ApiInit, LedgerInit
<1>1. LedgerTypeOK
    BY DEF LedgerTypeOK, RunStatus, StepStatus, Terminal
<1>2. HandlerTypeOK
    BY DEF HandlerTypeOK, Idle, Handler, NoView, HandlerOps, RunStatus, StepStatus, Terminal
<1> QED
    BY <1>1, <1>2 DEF ApiTypeOK

-----------------------------------------------------------------------------
(***************************************************************************)
(* The methods of the store.                                               *)
(***************************************************************************)
\* start, succeed, set_runtime_run_id and fail: UPDATEs of a run row.
LEMMA RunUpdateType ==
    ASSUME LedgerTypeOK, NEW r \in RunIds,
           start(r) \/ succeed(r) \/ fail(r) \/ set_runtime_run_id(r) \/ UNCHANGED ledger
    PROVE  LedgerTypeOK'
<1> USE DEF LedgerTypeOK, ledger, rowVars, lockVars
<1>1. CASE start(r)
    BY <1>1 DEF start, RunStatus
<1>2. CASE succeed(r)
    BY <1>2 DEF succeed, RunStatus, Terminal
<1>3. CASE fail(r)
  <2>1. [p \in Positions |-> IF stepStatus[r][p] = "queued" THEN "cancelled" ELSE stepStatus[r][p]]
            \in [Positions -> StepStatus]
    BY DEF StepStatus, Terminal
  <2> QED
    BY <1>3, <2>1 DEF fail, RunStatus, Terminal
<1>4. CASE set_runtime_run_id(r)
    BY <1>4 DEF set_runtime_run_id
<1>5. CASE UNCHANGED ledger
    BY <1>5
<1> QED
    BY <1>1, <1>2, <1>3, <1>4, <1>5

\* start_step, succeed_step and fail_step: UPDATEs of a step row.
LEMMA StepUpdateType ==
    ASSUME LedgerTypeOK, NEW r \in RunIds, NEW p,
           start_step(r, p) \/ succeed_step(r, p) \/ fail_step(r, p) \/ UNCHANGED ledger
    PROVE  LedgerTypeOK'
<1> USE DEF LedgerTypeOK, ledger, rowVars, lockVars
<1>1. \A s \in StepStatus : [stepStatus EXCEPT ![r][p] = s] \in [RunIds -> [Positions -> StepStatus]]
    BY UpdateType
<1>2. {"running", "succeeded", "failed"} \subseteq StepStatus
    BY DEF StepStatus, Terminal
<1>3. CASE start_step(r, p)
  <2>1. [attempts EXCEPT ![r][p] = @ + 1] \in [RunIds -> [Positions -> Nat]]
    BY BumpType
  <2>2. stepStatus' \in [RunIds -> [Positions -> StepStatus]]
    BY <1>1, <1>2, <1>3 DEF start_step
  <2>3. attempts' \in [RunIds -> [Positions -> Nat]]
    BY <1>3, <2>1 DEF start_step
  <2> QED
    BY <1>3, <2>2, <2>3 DEF start_step
<1>4. CASE succeed_step(r, p)
  <2>1. stepStatus' \in [RunIds -> [Positions -> StepStatus]]
    BY <1>1, <1>2, <1>4 DEF succeed_step
  <2> QED
    BY <1>4, <2>1 DEF succeed_step
<1>5. CASE fail_step(r, p)
  <2>1. stepStatus' \in [RunIds -> [Positions -> StepStatus]]
    BY <1>1, <1>2, <1>5 DEF fail_step
  <2> QED
    BY <1>5, <2>1 DEF fail_step
<1>6. CASE UNCHANGED ledger
    BY <1>6
<1> QED
    BY <1>3, <1>4, <1>5, <1>6

\* The transaction of cancel.
LEMMA CancelType ==
    ASSUME LedgerTypeOK, NEW r \in RunIds, NEW who \in {"handler", "thread"},
           cancel_update(r, who) \/ cancel_commit(r) \/ rollback(r)
    PROVE  LedgerTypeOK'
<1> USE DEF LedgerTypeOK, rowVars
<1>1. CASE cancel_update(r, who)
    BY <1>1 DEF cancel_update
<1>2. CASE cancel_commit(r)
  <2>1. Swept(r) \in [Positions -> StepStatus]
    BY DEF Swept, StepStatus, Terminal
  <2> QED
    BY <1>2, <2>1 DEF cancel_commit, RunStatus, Terminal
<1>3. CASE rollback(r)
    BY <1>3 DEF rollback
<1> QED
    BY <1>1, <1>2, <1>3

-----------------------------------------------------------------------------
(***************************************************************************)
(* The handlers.                                                           *)
(***************************************************************************)
LEMMA RequestsType ==
    ASSUME ApiTypeOK, Requests
    PROVE  ApiTypeOK'
<1> USE DEF ApiTypeOK
<1>1. NoView \in [Positions -> StepStatus]
    BY DEF NoView, StepStatus
<1>2. ASSUME NEW r \in RunIds, NEW t \in Tenants, NEW k \in Keys, NEW pl \in Plans,
             SubmitRun(r, t, k, pl)
      PROVE  ApiTypeOK'
  <2>1. LedgerTypeOK'
    BY <1>2 DEF SubmitRun, submit, lockVars, LedgerTypeOK, RunStatus, StepStatus
  <2>2. HandlerTypeOK'
    BY <1>1, <1>2 DEF SubmitRun, HandlerTypeOK, Handler, HandlerOps, RunStatus
  <2> QED
    BY <2>1, <2>2
<1>3. ASSUME NEW r \in RunIds, UNCHANGED ledger,
             \/ handler' = Handler("steps", r, FALSE, status[r], NoView)
             \/ handler' = Handler("cancel", r, linked[r], "absent", NoView)
      PROVE  ApiTypeOK'
  <2>1. LedgerTypeOK'
    BY <1>3 DEF LedgerTypeOK, ledger
  <2>2. CASE handler' = Handler("steps", r, FALSE, status[r], NoView)
    BY <1>1, <2>1, <2>2 DEF LedgerTypeOK, HandlerTypeOK, Handler, HandlerOps
  <2>3. CASE handler' = Handler("cancel", r, linked[r], "absent", NoView)
    BY <1>1, <2>1, <2>3 DEF LedgerTypeOK, HandlerTypeOK, Handler, HandlerOps, RunStatus
  <2> QED
    BY <1>3, <2>2, <2>3
<1> QED
    BY <1>2, <1>3 DEF Requests, ResubmitRun, GetRun, CancelRun

LEMMA HandlerStepsType ==
    ASSUME ApiTypeOK, HandlerSteps
    PROVE  ApiTypeOK'
<1> USE DEF ApiTypeOK
<1>1. CASE LoadSteps
  <2>1. LedgerTypeOK'
    BY <1>1 DEF LoadSteps, LedgerTypeOK, ledger
  <2>2. HandlerTypeOK'
    BY <1>1 DEF LoadSteps, LedgerTypeOK, HandlerTypeOK, HandlerOps, Answered
  <2> QED
    BY <2>1, <2>2
<1>2. CASE CancelUpdate
  <2>1. LedgerTypeOK'
    BY <1>2, CancelType DEF CancelUpdate, HandlerTypeOK
  <2>2. HandlerTypeOK'
    BY <1>2 DEF CancelUpdate, HandlerTypeOK, HandlerOps
  <2> QED
    BY <2>1, <2>2
<1>3. CASE CancelTerminal
  <2>1. LedgerTypeOK'
    BY <1>3 DEF CancelTerminal, LedgerTypeOK, ledger
  <2>2. HandlerTypeOK'
    BY <1>3 DEF CancelTerminal, LedgerTypeOK, HandlerTypeOK, HandlerOps
  <2> QED
    BY <2>1, <2>2
<1>4. CASE CancelCommit
  <2>1. LedgerTypeOK'
    BY <1>4, CancelType DEF CancelCommit, HandlerTypeOK
  <2>2. Swept(handler.run) \in [Positions -> StepStatus]
    BY <1>4 DEF CancelCommit, Swept, LedgerTypeOK, HandlerTypeOK, StepStatus, Terminal
  <2>3. HandlerTypeOK'
    BY <1>4, <2>2 DEF CancelCommit, HandlerTypeOK, HandlerOps, Answered, RunStatus, Terminal
  <2> QED
    BY <2>1, <2>3
<1>5. CASE Reply
  <2>1. LedgerTypeOK'
    BY <1>5 DEF Reply, LedgerTypeOK, ledger
  <2>2. HandlerTypeOK'
    BY <1>5 DEF Reply, HandlerTypeOK, HandlerOps, Idle, Handler, NoView, RunStatus, StepStatus, Terminal
  <2> QED
    BY <2>1, <2>2
<1> QED
    BY <1>1, <1>2, <1>3, <1>4, <1>5 DEF HandlerSteps

LEMMA RequestFailsType ==
    ASSUME ApiTypeOK, RequestFails
    PROVE  ApiTypeOK'
<1> USE DEF ApiTypeOK
<1>1. HandlerTypeOK'
    BY DEF RequestFails, HandlerTypeOK, HandlerOps, Idle, Handler, NoView,
           RunStatus, StepStatus, Terminal
<1>2. CASE handler.op = "commit" /\ rollback(handler.run)
    BY <1>1, <1>2, CancelType DEF HandlerTypeOK
<1>3. CASE UNCHANGED ledger
    BY <1>1, <1>3 DEF LedgerTypeOK, ledger
<1> QED
    BY <1>2, <1>3 DEF RequestFails

=============================================================================
