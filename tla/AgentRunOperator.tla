-------------------------- MODULE AgentRunOperator --------------------------
(***************************************************************************)
(* The operator's AgentRun controller (controllers/agentrun_controller.go) *)
(* between the Kubernetes API server and the control plane.                *)
(*                                                                         *)
(* The control plane is RunLifecycle, which LocalExecution and             *)
(* ExternalExecution implement.  The API server and the client library are *)
(* not in the repository; what the controller relies on is modelled:       *)
(*                                                                         *)
(*  - the controller reads an AgentRun from a cache that follows the API   *)
(*    server with a delay, and every change the cache sees queues the run; *)
(*  - a write carries the resourceVersion it was read with and is refused  *)
(*    if the object has changed since.  Versions are only ever compared    *)
(*    with the newest, so current and worker.current say whether they are  *)
(*    equal to it;                                                         *)
(*  - leader election and one worker per controller: one reconcile at a    *)
(*    time; an error or a RequeueAfter queues the run again;               *)
(*  - an object with a finalizer is only marked as being deleted.          *)
(***************************************************************************)
EXTENDS Integers

CONSTANTS AgentRuns,   \* AgentRun objects of one namespace
          RunIds,      \* runs of the control plane
          Tenants,     \* tenants, as labels name them
          NoTenant,    \* no tenant label, or an empty one
          Home,        \* the tenant of the namespace
          Keys,        \* idempotency keys
          Key,         \* spec.idempotencyKey, or the UID, of each AgentRun
          None,
          Gone         \* the object no longer exists

ASSUME KeyAssumption ==
    /\ Home \in Tenants
    /\ NoTenant \notin Tenants
    /\ Key \in [AgentRuns -> Keys]
    /\ None \notin RunIds
    /\ None \notin Tenants \X Keys

VARIABLES status, owner,  \* the control plane (RunLifecycle)
          obj,            \* AgentRuns in the API server
          cache,          \* AgentRuns in the controller's cache
          current,        \* AgentRuns whose cached version is the newest
          queue,          \* AgentRuns waiting to be reconciled
          worker,         \* the reconcile under way
          agentReady      \* the Agent exists and is ready for its generation

cp == <<status, owner>>
vars == <<cp, obj, cache, current, queue, worker, agentReady>>

ControlPlane == INSTANCE RunLifecycle

Phases == {"", "Queued", "Running", "Succeeded", "Failed", "Cancelled"}

Labels == Tenants \cup {NoTenant}

isTerminal(phase) == phase \in {"Succeeded", "Failed", "Cancelled"}

\* What the reconciler reads and writes of an AgentRun: metadata, spec.cancel
\* and the status.  ttl: ttlSecondsAfterFinished is not 0; early: the condition
\* Cancelled/CancelledBeforeSubmit; ready: the condition Ready; reachable: the
\* condition ControlPlaneReady is not False.
Objects == [finalizer : BOOLEAN, deleting : BOOLEAN, label : Labels, cancel : BOOLEAN,
            ttl : BOOLEAN, backend : RunIds \cup {None}, phase : Phases, finished : BOOLEAN,
            early : BOOLEAN, ready : BOOLEAN, reachable : BOOLEAN]

ASSUME GoneAssumption == Gone \notin Objects

Applied(ttl) ==
    [finalizer |-> FALSE, deleting |-> FALSE, label |-> Home, cancel |-> FALSE,
     ttl |-> ttl, backend |-> None, phase |-> "", finished |-> FALSE,
     early |-> FALSE, ready |-> FALSE, reachable |-> TRUE]

\* at: what the reconcile does next; copy: its private copy of the object;
\* current: that copy has the newest version; then: what follows the write.
Workers == [at : {"idle", "submit", "poll", "cancel", "delete", "write", "ttl"},
            run : AgentRuns \cup {None}, copy : Objects, current : BOOLEAN,
            then : {"requeue", "end", "ttl", "finalizer"}]

Idle == [at |-> "idle", run |-> None, copy |-> Applied(FALSE), current |-> FALSE, then |-> "end"]

TypeOK ==
    /\ status \in [RunIds -> {"absent", "queued", "running"} \cup ControlPlane!Terminal]
    /\ owner \in [RunIds -> (Tenants \X Keys) \cup {None}]
    /\ obj \in [AgentRuns -> Objects \cup {Gone}]
    /\ cache \in [AgentRuns -> Objects \cup {Gone}]
    /\ current \subseteq AgentRuns
    /\ queue \subseteq AgentRuns
    /\ worker \in Workers
    /\ agentReady \in BOOLEAN

Init ==
    /\ ControlPlane!Init
    /\ obj \in [AgentRuns -> {Applied(ttl) : ttl \in BOOLEAN}]
    /\ cache = obj
    /\ current = AgentRuns
    /\ queue = AgentRuns
    /\ worker = Idle
    /\ agentReady \in BOOLEAN

-----------------------------------------------------------------------------
(***************************************************************************)
(* The API server, the cache and the users.                                *)
(***************************************************************************)
\* The object is replaced by new; a write that changes nothing leaves its
\* version alone.
Store(c, new) ==
    /\ obj' = [obj EXCEPT ![c] = new]
    /\ current' = IF new = obj[c] THEN current ELSE current \ {c}

\* Somebody other than the worker writes the object.
Edit(c, new) ==
    /\ obj[c] # Gone /\ obj[c] # new
    /\ Store(c, new)
    /\ worker' = IF worker.run = c THEN [worker EXCEPT !.current = FALSE] ELSE worker
    /\ UNCHANGED <<cp, cache, queue, agentReady>>

SetCancel(c, b) == obj[c] # Gone /\ Edit(c, [obj[c] EXCEPT !.cancel = b])

\* The tenant label is changed, removed or put back.
Relabel(c, t) == obj[c] # Gone /\ Edit(c, [obj[c] EXCEPT !.label = t])

Deleted(o) == IF o.finalizer THEN [o EXCEPT !.deleting = TRUE] ELSE Gone

Delete(c) == obj[c] # Gone /\ Edit(c, Deleted(obj[c]))

Users(c) ==
    \/ \E b \in BOOLEAN : SetCancel(c, b)
    \/ \E t \in Labels : Relabel(c, t)
    \/ Delete(c)

\* A watch event arrives.
Observe(c) ==
    /\ c \notin current
    /\ cache' = [cache EXCEPT ![c] = obj[c]]
    /\ current' = current \cup {c}
    /\ queue' = queue \cup {c}
    /\ UNCHANGED <<cp, obj, worker, agentReady>>

\* The Agent, or its status, changes: runsForAgent queues the runs that are
\* not finished, or none if it cannot list them.
runsForAgent == {c \in AgentRuns : cache[c] # Gone /\ ~isTerminal(cache[c].phase)}

AgentChanges ==
    /\ agentReady' = ~agentReady
    /\ queue' \in {queue, queue \cup runsForAgent}
    /\ UNCHANGED <<cp, obj, cache, current, worker>>

-----------------------------------------------------------------------------
(***************************************************************************)
(* Reconcile.                                                              *)
(***************************************************************************)
validateReferences(o) == o.label = Home /\ agentReady

reject(o) == [o EXCEPT !.ready = FALSE]
markReferencesReady(o) == [o EXCEPT !.ready = TRUE]
markControlPlaneReady(o) == [o EXCEPT !.reachable = TRUE]

Call(at, c, o) == [at |-> at, run |-> c, copy |-> o, current |-> c \in current, then |-> "end"]

\* The reconcile writes o and goes on with then.
Write(w, o, then) == [w EXCEPT !.at = "write", !.copy = o, !.then = then]

\* The status of a cancellation that finds no recorded run.
CancelledBeforeSubmit(o) ==
    markReferencesReady([o EXCEPT !.phase = "Cancelled", !.finished = TRUE, !.early = TRUE])

\* Mutant of sanitizeTerminalStatus: a stale gateway failure is kept.
SanitizeKeepsFailure(w) == [w EXCEPT !.at = "ttl"]

\* A terminal status that is not written again goes straight to reconcileTTL.
sanitizeTerminalStatus(w) ==
    LET o == markControlPlaneReady(w.copy)
    IN  IF o = w.copy THEN [w EXCEPT !.at = "ttl"] ELSE Write(w, o, "ttl")

\* The branches of Reconcile, in the order of the code.
Branch(c, o) ==
    LET w == Call("idle", c, o)
        unfinished == o.backend # None /\ ~isTerminal(o.phase)
    IN  IF o.deleting THEN
            IF ~o.finalizer THEN Idle
            ELSE IF unfinished THEN Call("delete", c, o)
            ELSE Write(w, [o EXCEPT !.finalizer = FALSE], "end")
        ELSE IF ~o.finalizer THEN Write(w, [o EXCEPT !.finalizer = TRUE], "requeue")
        ELSE IF ~validateReferences(o) THEN Write(w, reject(o), "requeue")
        ELSE IF o.cancel THEN
            IF o.backend = None THEN Write(w, CancelledBeforeSubmit(o), "end")
            ELSE Call("cancel", c, o)
        ELSE IF o.backend = None THEN Call("submit", c, o)
        ELSE IF isTerminal(o.phase) THEN sanitizeTerminalStatus(w)
        ELSE Call("poll", c, o)

Reconcile(c) ==
    /\ worker.at = "idle"
    /\ c \in queue
    /\ queue' = queue \ {c}
    /\ worker' = IF cache[c] = Gone THEN Idle ELSE Branch(c, cache[c])
    /\ UNCHANGED <<cp, obj, cache, current, agentReady>>

\* A failed read of the Namespace or of the Agent in validateReferences is
\* reported like a reference that is not ready.
ReferencesUnread(c) ==
    LET o == cache[c]
    IN  /\ worker.at = "idle"
        /\ c \in queue
        /\ o # Gone /\ ~o.deleting /\ o.finalizer
        /\ queue' = queue \ {c}
        /\ worker' = Write(Call("idle", c, o), reject(o), "requeue")
        /\ UNCHANGED <<cp, obj, cache, current, agentReady>>

\* Mutant of projectPhase: an unexpected word is passed on.
ProjectVerbatim(word) ==
    CASE word = "running"   -> "Running"
      [] word = "succeeded" -> "Succeeded"
      [] word = "failed"    -> "Failed"
      [] word = "cancelled" -> "Cancelled"
      [] OTHER              -> word

\* The words of the control plane in the words of the CRD.
projectPhase(word) ==
    CASE word = "running"   -> "Running"
      [] word = "succeeded" -> "Succeeded"
      [] word = "failed"    -> "Failed"
      [] word = "cancelled" -> "Cancelled"
      [] OTHER              -> "Queued"

applyControlPlaneStatus(o, r, word) ==
    [o EXCEPT !.backend = r, !.phase = projectPhase(word),
              !.finished = @ \/ isTerminal(projectPhase(word))]

gatewayFailure == worker' = Write(worker, [worker.copy EXCEPT !.reachable = FALSE], "requeue")

\* A reconcile that returns an error is queued again.
ReturnError == worker' = Idle /\ queue' = queue \cup {worker.run}

Environment == UNCHANGED <<obj, cache, current, agentReady>>

\* POST /api/agent-runs: the run of this key is created unless it exists.
SubmitTo(r) ==
    LET key == <<Home, Key[worker.run]>>
    IN  ControlPlane!Create(r, key) \/ (owner[r] = key /\ UNCHANGED cp)

reconcileSubmit ==
    /\ worker.at = "submit"
    /\ \E r \in RunIds :
           /\ SubmitTo(r)
           /\ worker' = Write(worker,
                  markControlPlaneReady(markReferencesReady(
                      applyControlPlaneStatus(worker.copy, r, status'[r]))), "requeue")
    /\ UNCHANGED queue /\ Environment

\* The submission is carried out, but the answer does not arrive.
SubmitUnanswered ==
    /\ worker.at = "submit"
    /\ \E r \in RunIds : SubmitTo(r)
    /\ gatewayFailure
    /\ UNCHANGED queue /\ Environment

\* Mutant of reconcilePoll: reconcileTTL is called whatever the phase is.
PollThenTTL ==
    LET o == markControlPlaneReady(applyControlPlaneStatus(
                 worker.copy, worker.copy.backend, status[worker.copy.backend]))
    IN  /\ worker.at = "poll"
        /\ IF o # worker.copy
           THEN worker' = Write(worker, o, "ttl") /\ UNCHANGED queue
           ELSE worker' = Idle /\ queue' = queue \cup {worker.run}
        /\ UNCHANGED cp /\ Environment

\* Mutant of reconcilePoll: a poll that shows nothing new is the last one.
PollStops ==
    LET o == markControlPlaneReady(applyControlPlaneStatus(
                 worker.copy, worker.copy.backend, status[worker.copy.backend]))
        then == IF isTerminal(o.phase) THEN "ttl" ELSE "requeue"
    IN  /\ worker.at = "poll"
        /\ worker' = IF o # worker.copy THEN Write(worker, o, then) ELSE Idle
        /\ UNCHANGED <<cp, queue>> /\ Environment

\* GET /api/agent-runs/{id}; the status is written only if it changed.
reconcilePoll ==
    LET o == markControlPlaneReady(applyControlPlaneStatus(
                 worker.copy, worker.copy.backend, status[worker.copy.backend]))
        then == IF isTerminal(o.phase) THEN "ttl" ELSE "requeue"
    IN  /\ worker.at = "poll"
        /\ IF o # worker.copy
           THEN worker' = Write(worker, o, then) /\ UNCHANGED queue
           ELSE worker' = Idle /\ queue' = queue \cup {worker.run}
        /\ UNCHANGED cp /\ Environment

\* POST /api/agent-runs/{id}/cancel: store.cancel, a no-op on a finished run.
CancelAt(r) == ControlPlane!Cancel(r) \/ (status[r] \in ControlPlane!Terminal /\ UNCHANGED cp)

\* Mutant of reconcileCancel: the answer of the control plane is not looked at.
CancelUnchecked ==
    LET r == worker.copy.backend
    IN  /\ worker.at = "cancel"
        /\ CancelAt(r)
        /\ worker' = Write(worker, markControlPlaneReady(markReferencesReady(
                         applyControlPlaneStatus(worker.copy, r, "cancelled"))), "ttl")
        /\ UNCHANGED queue /\ Environment

reconcileCancel ==
    LET r == worker.copy.backend
    IN  /\ worker.at = "cancel"
        /\ CancelAt(r)
        /\ LET o == markControlPlaneReady(markReferencesReady(
                        applyControlPlaneStatus(worker.copy, r, status'[r])))
           IN  worker' = Write(worker, o, IF isTerminal(o.phase) THEN "ttl" ELSE "requeue")
        /\ UNCHANGED queue /\ Environment

\* A submission, a poll or a cancellation fails without an effect.
CallFails ==
    /\ worker.at \in {"submit", "poll", "cancel"}
    /\ gatewayFailure
    /\ UNCHANGED <<cp, queue>> /\ Environment

\* reconcileDelete cancels with the label of the AgentRun itself: under another
\* tenant the control plane answers 404, and the finalizer goes at once; without
\* a tenant it answers 400, an error that is returned again and again.
reconcileDelete ==
    LET r == worker.copy.backend
    IN  /\ worker.at = "delete"
        /\ \/ /\ worker.copy.label = Home
              /\ CancelAt(r)
              /\ LET o == applyControlPlaneStatus(worker.copy, r, status'[r])
                 IN  worker' = Write(worker, o,
                         IF isTerminal(o.phase) THEN "finalizer" ELSE "requeue")
              /\ UNCHANGED queue
           \/ /\ worker.copy.label \in Tenants \ {Home}
              /\ worker' = Write(worker, [worker.copy EXCEPT !.finalizer = FALSE], "end")
              /\ UNCHANGED <<cp, queue>>
           \/ /\ worker.copy.label = NoTenant
              /\ ReturnError
              /\ UNCHANGED cp
        /\ Environment

\* Mutant of DeleteCallFails: every error is taken for a 404.
DeleteAnyway ==
    /\ worker.at = "delete"
    /\ worker' = Write(worker, [worker.copy EXCEPT !.finalizer = FALSE], "end")
    /\ UNCHANGED <<cp, queue>> /\ Environment

\* Mutant of DeleteCallFails: the error is logged and not returned.
DeleteErrorSwallowed ==
    /\ worker.at = "delete"
    /\ worker' = Idle
    /\ UNCHANGED <<cp, queue>> /\ Environment

DeleteCallFails ==
    /\ worker.at = "delete"
    /\ ReturnError
    /\ UNCHANGED cp /\ Environment

\* Mutant of WriteSucceeds: the write carries no resourceVersion.
WriteUnconditionally ==
    LET c == worker.run
        o == worker.copy
    IN  /\ worker.at = "write"
        /\ obj[c] # Gone
        /\ Store(c, IF o.deleting /\ ~o.finalizer THEN Gone ELSE o)
        /\ worker' = CASE worker.then = "ttl"       -> [worker EXCEPT !.at = "ttl"]
                       [] worker.then = "finalizer" ->
                              Write(worker, [o EXCEPT !.finalizer = FALSE], "end")
                       [] OTHER                     -> Idle
        /\ queue' = IF worker.then = "requeue" THEN queue \cup {c} ELSE queue
        /\ UNCHANGED <<cp, cache, agentReady>>

\* Update or Status().Update succeeds; an object being deleted that loses its
\* finalizer is gone.
WriteSucceeds ==
    LET c == worker.run
        o == worker.copy
    IN  /\ worker.at = "write"
        /\ worker.current
        /\ Store(c, IF o.deleting /\ ~o.finalizer THEN Gone ELSE o)
        /\ worker' = CASE worker.then = "ttl"       -> [worker EXCEPT !.at = "ttl"]
                       [] worker.then = "finalizer" ->
                              Write(worker, [o EXCEPT !.finalizer = FALSE], "end")
                       [] OTHER                     -> Idle
        /\ queue' = IF worker.then = "requeue" THEN queue \cup {c} ELSE queue
        /\ UNCHANGED <<cp, cache, agentReady>>

\* A conflict, or the API server fails.
WriteFails ==
    /\ worker.at = "write"
    /\ ReturnError
    /\ UNCHANGED cp /\ Environment

\* reconcileTTL.  Delete names the object and carries no version.
Expires == worker.copy.ttl /\ worker.copy.finished

\* Mutant of TTLKeeps: nothing is queued for the moment the TTL runs out.
TTLForgotten ==
    /\ worker.at = "ttl"
    /\ worker' = Idle
    /\ UNCHANGED <<cp, queue>> /\ Environment

TTLKeeps ==
    /\ worker.at = "ttl"
    /\ worker' = Idle
    /\ queue' = IF Expires THEN queue \cup {worker.run} ELSE queue
    /\ UNCHANGED cp /\ Environment

TTLDeletes ==
    /\ worker.at = "ttl"
    /\ Expires
    /\ IF obj[worker.run] = Gone THEN UNCHANGED <<obj, current>>
       ELSE Store(worker.run, Deleted(obj[worker.run]))
    /\ worker' = Idle
    /\ UNCHANGED <<cp, cache, queue, agentReady>>

TTLFails ==
    /\ worker.at = "ttl"
    /\ Expires
    /\ ReturnError
    /\ UNCHANGED cp /\ Environment

\* The operator restarts or loses its lease: the next one lists everything.
Restart ==
    /\ worker' = Idle
    /\ cache' = obj
    /\ current' = AgentRuns
    /\ queue' = {c \in AgentRuns : obj[c] # Gone}
    /\ UNCHANGED <<cp, obj, agentReady>>

\* The control plane executes its runs, and other clients may cancel them.
ControlPlaneStep ==
    /\ \E r \in RunIds :
           \/ ControlPlane!Begin(r)
           \/ \E outcome \in {"succeeded", "failed"} : ControlPlane!Finish(r, outcome)
           \/ ControlPlane!Cancel(r)
    /\ UNCHANGED <<obj, cache, current, queue, worker, agentReady>>

Calls == reconcileSubmit \/ reconcilePoll \/ reconcileCancel \/ reconcileDelete

Failures == SubmitUnanswered \/ CallFails \/ DeleteCallFails \/ WriteFails \/ TTLFails

\* Everything but the edits of the users.
System ==
    \/ \E c \in AgentRuns : Observe(c) \/ Reconcile(c) \/ ReferencesUnread(c)
    \/ Calls \/ WriteSucceeds \/ TTLKeeps \/ TTLDeletes
    \/ Failures
    \/ AgentChanges \/ ControlPlaneStep \/ Restart

Next == (\E c \in AgentRuns : Users(c)) \/ System

Spec == Init /\ [][Next]_vars

\* Watch events arrive, the worker takes what is queued, its calls and writes
\* return (the gateway has a timeout), and a TTL runs out.  Nothing is assumed
\* of the execution of runs.
Fairness ==
    /\ \A c \in AgentRuns : WF_vars(Observe(c)) /\ WF_vars(Reconcile(c))
    /\ WF_vars(Calls \/ WriteSucceeds \/ WriteFails)
    /\ WF_vars(TTLKeeps) /\ SF_vars(TTLDeletes)

\* A step that is no disturbance: users, Agents, restarts and failures other
\* than a conflict are.
Undisturbed ==
    \/ \E c \in AgentRuns : Observe(c) \/ Reconcile(c)
    \/ Calls \/ WriteSucceeds \/ TTLKeeps \/ TTLDeletes
    \/ WriteFails /\ ~worker.current
    \/ ControlPlaneStep

\* What the controller promises once the disturbances are over, in whatever
\* state they left it.
FairSpec == Spec /\ Fairness /\ <>[][Undisturbed]_vars

-----------------------------------------------------------------------------
(***************************************************************************)
(* Properties.                                                             *)
(***************************************************************************)
Recorded(c) == obj[c] # Gone /\ obj[c].backend # None

\* "A terminal status with a durable backend ID was necessarily received from
\* RunGateway" (sanitizeTerminalStatus): the recorded run is the one of this
\* AgentRun's key, it really ended that way, and a finish time is set; so no
\* stale copy or late answer ever closes an AgentRun whose run goes on.
TerminalStatusIsReal ==
    \A c \in AgentRuns : Recorded(c) =>
        /\ owner[obj[c].backend] = <<Home, Key[c]>>
        /\ isTerminal(obj[c].phase) =>
               obj[c].finished /\ obj[c].phase = projectPhase(status[obj[c].backend])

Rank(phase) == CASE phase = "" -> 0 [] phase = "Queued" -> 1
                 [] phase = "Running" -> 2 [] OTHER -> 3

\* What an AgentRun reports of its run never goes back, not after a restart,
\* not through an old cached copy: the run stays recorded, its phase only
\* advances and a terminal phase stays.
ReportsNeverGoBack ==
    [][\A c \in AgentRuns : Recorded(c) /\ obj'[c] # Gone =>
           /\ obj'[c].backend = obj[c].backend
           /\ Rank(obj'[c].phase) >= Rank(obj[c].phase)
           /\ isTerminal(obj[c].phase) => obj'[c].phase = obj[c].phase]_vars

\* The finalizer does its work: an AgentRun that has a run recorded disappears
\* only when that run has ended, unless its label names another tenant.
FinalizerStopsRun ==
    [][\A c \in AgentRuns : Recorded(c) /\ obj'[c] = Gone /\ obj[c].label \in {Home, NoTenant} =>
           status[obj[c].backend] \in ControlPlane!Terminal]_vars

\* reconcileTTL deletes by name, perhaps from an old copy, and yet only an
\* AgentRun whose recorded run has ended.
TTLDeletesOnlyFinished ==
    [][\A c \in AgentRuns :
           worker.at = "ttl" /\ worker'.at # "ttl" /\ obj'[c] # obj[c] =>
               Recorded(c) /\ status[obj[c].backend] \in ControlPlane!Terminal]_vars

\* An AgentRun whose run has to be cancelled and cannot be: it names no tenant.
Stuck(c) == Recorded(c) /\ ~isTerminal(obj[c].phase) /\ obj[c].label = NoTenant

\* A deletion ends, although reconcileDelete may have to repeat its calls and
\* its writes, whether or not the Agent still exists and whichever tenant the
\* label names.  Only an AgentRun that lost its label before its run was seen to
\* end stays, until somebody puts a label back.
DeletionCompletes ==
    \A c \in AgentRuns : (obj[c] # Gone /\ obj[c].deleting) ~> (obj[c] = Gone \/ Stuck(c))

Settled == \A c \in AgentRuns : obj[c] # Gone => obj[c].label = Home

\* While references stay valid, the end of a recorded run is reported: polling
\* goes on until then, over restarts, conflicts and lost events.
EndIsReported ==
    <>[](agentReady /\ Settled) =>
        \A c \in AgentRuns :
            (Recorded(c) /\ status[obj[c].backend] \in ControlPlane!Terminal) ~>
                (obj[c] = Gone \/ isTerminal(obj[c].phase))

\* While references stay valid, an AgentRun with a TTL whose run has ended is
\* deleted, and with the finalizer's work done it disappears.
FinishedRunsAreCleanedUp ==
    <>[](agentReady /\ Settled) =>
        \A c \in AgentRuns :
            (Recorded(c) /\ obj[c].ttl /\ isTerminal(obj[c].phase)) ~> (obj[c] = Gone)

\* While references stay valid, a transient gateway failure does not stay on an
\* AgentRun whose run is recorded, not even on a finished one.
GatewayFailureClears ==
    <>[](agentReady /\ Settled) =>
        \A c \in AgentRuns :
            (Recorded(c) /\ ~obj[c].reachable) ~> (obj[c] = Gone \/ obj[c].reachable)

\* What the condition CancelledBeforeSubmit says: "run was cancelled before
\* control-plane submission", so the control plane has no run of this key.
CancelledBeforeSubmitIsTrue ==
    \A c \in AgentRuns :
        obj[c] # Gone /\ obj[c].early /\ obj[c].cancel /\ obj[c].backend = None =>
            \A r \in RunIds : owner[r] # <<Home, Key[c]>>

=============================================================================
