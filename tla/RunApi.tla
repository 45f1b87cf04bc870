------------------------------- MODULE RunApi -------------------------------
(***************************************************************************)
(* The HTTP handlers of backend/app/main.py over the ledger: submit_run,   *)
(* get_run and cancel_run.  They are coroutines without an await, so the   *)
(* one event loop of the one replica runs them one after another: a single *)
(* slot, handler, holds the request being served.  The executor threads    *)
(* (modules LocalExecution and ExternalExecution) run beside it, and may   *)
(* take steps between any two statements of a handler.                     *)
(*                                                                         *)
(* A request for a run of another tenant, or for an unknown id, is a 404   *)
(* and changes nothing, so requests name an existing run.                  *)
(***************************************************************************)
EXTENDS RunLedger

VARIABLE handler   \* the request being served and what it has read so far

HandlerOps == {"idle", "spawn", "cancel", "commit", "steps", "forward", "reply"}

Handler(op, r, link, seen, view) ==
    [op |-> op, run |-> r, link |-> link, seen |-> seen, view |-> view]

NoView == [p \in Positions |-> "queued"]
Idle == Handler("idle", None, FALSE, "absent", NoView)

HandlerTypeOK ==
    /\ handler \in [op : HandlerOps, run : RunIds \cup {None}, link : BOOLEAN,
                    seen : RunStatus, view : [Positions -> StepStatus]]
    /\ handler.op # "idle" => handler.run \in RunIds

apiVars == <<ledger, handler>>

ApiInit == LedgerInit /\ handler = Idle

Accepted(pl) == Order[pl] # NoOrder

\* What follows the answer of store.cancel or store.get.
Answered(link) == IF link THEN "forward" ELSE "reply"

\* A new (tenant, key): the run and its steps are committed, and the handler
\* still has to start the executor thread.  A plan without an order is a 422.
SubmitRun(r, t, k, pl) ==
    /\ handler.op = "idle"
    /\ Accepted(pl)
    /\ submit(r, t, k, pl)
    /\ handler' = Handler("spawn", r, FALSE, "queued", NoView)

\* A (tenant, key) that has a run: the handler loads that run, whatever nodes
\* the repeated request carries, and starts no thread.
ResubmitRun(r, t, k) ==
    /\ handler.op = "idle"
    /\ \E pl \in Plans : Accepted(pl)
    /\ Conflict(t, k)
    /\ owner[r] = <<t, k>>
    /\ handler' = Handler("steps", r, FALSE, status[r], NoView)
    /\ UNCHANGED ledger

GetRun(r) ==
    /\ handler.op = "idle"
    /\ Exists(r)
    /\ handler' = Handler("steps", r, FALSE, status[r], NoView)
    /\ UNCHANGED ledger

\* The second SELECT of _load.
LoadSteps ==
    /\ handler.op = "steps"
    /\ handler' = [handler EXCEPT !.op = Answered(handler.link),
                                  !.view = stepStatus[handler.run]]
    /\ UNCHANGED ledger

\* cancel_run reads runtime_run_id before it calls store.cancel.
CancelRun(r) ==
    /\ handler.op = "idle"
    /\ Exists(r)
    /\ handler' = Handler("cancel", r, linked[r], "absent", NoView)
    /\ UNCHANGED ledger

CancelUpdate ==
    /\ handler.op = "cancel"
    /\ cancel_update(handler.run, "handler")
    /\ handler' = [handler EXCEPT !.op = "commit"]

\* The UPDATE matches no row: cancel only loads the run.
CancelTerminal ==
    /\ handler.op = "cancel"
    /\ ~Cancellable(handler.run)
    /\ handler' = [handler EXCEPT !.op = "steps", !.seen = status[handler.run]]
    /\ UNCHANGED ledger

\* Mutant of CancelCommit: the answer is loaded outside the transaction.
CancelAnswersOldSteps ==
    /\ handler.op = "commit"
    /\ cancel_commit(handler.run)
    /\ handler' = [handler EXCEPT !.op = Answered(handler.link),
                                  !.seen = "cancelled",
                                  !.view = stepStatus[handler.run]]

CancelCommit ==
    /\ handler.op = "commit"
    /\ cancel_commit(handler.run)
    /\ handler' = [handler EXCEPT !.op = Answered(handler.link),
                                  !.seen = "cancelled",
                                  !.view = Swept(handler.run)]

Reply ==
    /\ handler.op = "reply"
    /\ handler' = Idle
    /\ UNCHANGED ledger

\* The database refuses a statement of the handler: the transaction is rolled
\* back and the client gets a 500.
RequestFails ==
    /\ \/ handler.op = "commit" /\ rollback(handler.run)
       \/ handler.op \in {"cancel", "steps"} /\ UNCHANGED ledger
    /\ handler' = Idle

Requests ==
    \E r \in RunIds :
        \/ \E t \in Tenants, k \in Keys :
               \/ \E pl \in Plans : SubmitRun(r, t, k, pl)
               \/ ResubmitRun(r, t, k)
        \/ GetRun(r)
        \/ CancelRun(r)

HandlerSteps == LoadSteps \/ CancelUpdate \/ CancelTerminal \/ CancelCommit \/ Reply

=============================================================================
