---------------------------- MODULE RunLifecycle ----------------------------
(***************************************************************************)
(* What the control plane promises the clients of /api/agent-runs about a  *)
(* run, whatever executes it: one run per tenant and idempotency key, a    *)
(* status that only moves forward, and final statuses that never change.   *)
(* The ledger, its executor threads and the external runtime adapter are   *)
(* shown to implement this specification.                                  *)
(***************************************************************************)
CONSTANTS RunIds,    \* the UUIDs the store may draw
          Tenants,   \* values of the X-Tenant-Id header
          Keys,      \* idempotency keys
          None       \* the owner of a run that was never submitted

VARIABLES status,    \* RunIds -> "absent" or a value of the status column
          owner      \* RunIds -> <<tenant, idempotency key>> or None

vars == <<status, owner>>

Terminal == {"succeeded", "failed", "cancelled"}

Init ==
    /\ status = [r \in RunIds |-> "absent"]
    /\ owner = [r \in RunIds |-> None]

\* A submission whose (tenant, key) has no run yet creates one; a repeated
\* submission changes nothing and is a stuttering step.
Create(r, o) ==
    /\ status[r] = "absent"
    /\ \A q \in RunIds : owner[q] # o
    /\ status' = [status EXCEPT ![r] = "queued"]
    /\ owner' = [owner EXCEPT ![r] = o]

Begin(r) ==
    /\ status[r] = "queued"
    /\ status' = [status EXCEPT ![r] = "running"]
    /\ UNCHANGED owner

Finish(r, outcome) ==
    /\ status[r] = "running"
    /\ status' = [status EXCEPT ![r] = outcome]
    /\ UNCHANGED owner

Cancel(r) ==
    /\ status[r] \in {"queued", "running"}
    /\ status' = [status EXCEPT ![r] = "cancelled"]
    /\ UNCHANGED owner

Next ==
    \E r \in RunIds :
        \/ \E o \in Tenants \X Keys : Create(r, o)
        \/ Begin(r)
        \/ \E outcome \in {"succeeded", "failed"} : Finish(r, outcome)
        \/ Cancel(r)

Spec == Init /\ [][Next]_vars

=============================================================================
