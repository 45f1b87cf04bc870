----------------------------- MODULE Readiness ------------------------------
(***************************************************************************)
(* The TenantPolicy controller, the Agent controller and the gate through  *)
(* which the AgentRun controller projects an Agent into a run, in one      *)
(* namespace.                                                              *)
(*                                                                         *)
(* Kubernetes is as in AgentRunOperator: a cache that follows the API      *)
(* server object by object, writes that are refused if the object has      *)
(* changed since it was read, one worker per controller, and requests that *)
(* are queued again after an error.  The kinds have caches of their own,   *)
(* so an Agent may be judged by a policy older than itself.                *)
(*                                                                         *)
(* observed says that status.observedGeneration is the generation of the   *)
(* object: an edit of the spec makes it false, an edit of a label does     *)
(* not.  reason is the reason of the condition Active or Ready, and with   *)
(* it the flags status.active and status.ready.  NamespaceUnread stands    *)
(* for InvalidTenantBinding with the error of a failed read of the         *)
(* Namespace as its message: the controllers compare messages too.         *)
(***************************************************************************)
EXTENDS Integers, Sequences

CONSTANTS Policies,      \* names of TenantPolicies
          Agents,        \* names of Agents
          Tenants,       \* tenant ids
          NoTenant,      \* a missing or malformed tenant label
          Models,        \* models, named by provider and model
          Tools,         \* tools
          PolicySpecs,   \* specs users give to TenantPolicies
          AgentSpecs,    \* specs users give to Agents
          MaxEdits,      \* bound on the users' edits
          None,          \* no name, no spec
          Gone           \* the object does not exist

Names == Policies \cup Agents
Labels == Tenants \cup {NoTenant}

\* What validateTenantPolicy looks at: policyVersion and defaultDenyEgress say
\* whether the field is set.
TenantPolicySpec ==
    [policyVersion : BOOLEAN, defaultDenyEgress : BOOLEAN,
     allowedModels : Seq(Models), allowedTools : Seq(Tools)]

\* What validate looks at: projectID says whether the project is a UUID, and
\* sandbox whether a required sandbox has a runtime class.
AgentSpec ==
    [projectID : BOOLEAN, sandbox : BOOLEAN, model : Models, tools : Seq(Tools),
     policyRef : Policies \cup {None}]

Specs(n) == IF n \in Policies THEN PolicySpecs ELSE AgentSpecs

ASSUME ReadinessAssumption ==
    /\ Policies \cap Agents = {}
    /\ None \notin Names \cup AgentSpecs
    /\ NoTenant \notin Tenants
    /\ PolicySpecs \subseteq TenantPolicySpec
    /\ AgentSpecs \subseteq AgentSpec
    /\ MaxEdits \in Nat

VARIABLES namespace,     \* the tenant label of the Namespace, as the manager sees it
          obj,           \* TenantPolicies and Agents in the API server
          cache,         \* the same in the manager's cache
          current,       \* names whose cached version is the newest
          queue,         \* names waiting for their controller
          worker,        \* the reconcile under way in each controller
          edits,         \* number of edits by users
          activated, approved, admitted,   \* history, see Governance
          missed         \* history: names whose status missed something without
                         \* a trace: nothing will make their controller judge them

server == <<namespace, obj, edits>>
history == <<activated, approved, admitted>>
vars == <<server, cache, current, queue, worker, history, missed>>

PolicyReasons == {"NamespaceUnread", "InvalidTenantBinding", "PolicyVersionRequired",
                  "NoAllowedModels", "DuplicateAllowlistEntry", "DefaultDenyRequired",
                  "PolicyActive"}

AgentReasons == {"NamespaceUnread", "InvalidTenantBinding", "InvalidProjectID",
                 "RuntimeClassRequired", "PolicyRequired", "PolicyNotFound", "TenantMismatch",
                 "PolicyNotActive", "ModelDenied", "ToolDenied", "AgentReady"}

Reasons(n) == IF n \in Policies THEN PolicyReasons ELSE AgentReasons

Objects(n) == [label : Labels, spec : Specs(n), observed : BOOLEAN, reason : {""} \cup Reasons(n)]

ASSUME GoneAssumption == \A n \in Names : Gone \notin Objects(n)

Controllers == {"policy", "agent"}

Handles(k) == IF k = "policy" THEN Policies ELSE Agents

\* at: what the reconcile does next; copy: its private copy of the object;
\* current: that copy has the newest version.
Idle == [at |-> "idle", name |-> None, copy |-> None, current |-> FALSE]

Workers(k) == {Idle} \cup UNION {[at : {"validate", "write"}, name : {n},
                                  copy : Objects(n), current : BOOLEAN] : n \in Handles(k)}

\* What a state is made of.  A reason outside these sets is one that the
\* controllers never write: PolicyLookupFailed comes with an error.
TypeOK ==
    /\ namespace \in Labels
    /\ DOMAIN obj = Names /\ DOMAIN cache = Names /\ DOMAIN worker = Controllers
    /\ \A n \in Names : obj[n] \in Objects(n) \cup {Gone} /\ cache[n] \in Objects(n) \cup {Gone}
    /\ current \subseteq Names
    /\ queue \subseteq Names
    /\ \A k \in Controllers : worker[k] \in Workers(k)
    /\ activated \subseteq PolicySpecs
    /\ approved \subseteq AgentSpecs
    /\ admitted \in AgentSpecs \cup {None}
    /\ missed \subseteq Names
    /\ edits \in 0 .. MaxEdits

New(label, spec) == [label |-> label, spec |-> spec, observed |-> FALSE, reason |-> ""]

Applied(n) == {New(label, spec) : label \in Labels, spec \in Specs(n)}

\* The operator starts in a namespace where some objects have been applied.
Init ==
    /\ namespace \in Labels
    /\ obj \in [Names -> (UNION {Applied(n) : n \in Names}) \cup {Gone}]
    /\ \A n \in Names : obj[n] \in Applied(n) \cup {Gone}
    /\ cache = obj
    /\ current = Names
    /\ queue = {n \in Names : obj[n] # Gone}
    /\ edits = 0
    /\ worker = [k \in Controllers |-> Idle]
    /\ activated = {} /\ approved = {} /\ admitted = None
    /\ missed = {}

-----------------------------------------------------------------------------
(***************************************************************************)
(* The API server, the users and the cache.                                *)
(***************************************************************************)
Store(n, new) ==
    /\ obj' = [obj EXCEPT ![n] = new]
    /\ current' = current \ {n}

\* Somebody other than the controllers writes the object.
Edit(n, new) ==
    /\ new # obj[n]
    /\ edits < MaxEdits
    /\ edits' = edits + 1
    /\ Store(n, new)
    /\ worker' = [k \in Controllers |->
                      IF worker[k].name = n THEN [worker[k] EXCEPT !.current = FALSE]
                      ELSE worker[k]]
    /\ UNCHANGED <<namespace, cache, queue, history, missed>>

Create(n, label, spec) ==
    /\ obj[n] = Gone
    /\ Edit(n, New(label, spec))

EditSpec(n, spec) ==
    /\ obj[n] # Gone
    /\ obj[n].spec # spec
    /\ Edit(n, [obj[n] EXCEPT !.spec = spec, !.observed = FALSE])

Relabel(n, label) ==
    /\ obj[n] # Gone
    /\ Edit(n, [obj[n] EXCEPT !.label = label])

Delete(n) == Edit(n, Gone)

\* No controller watches Namespaces: all that has been judged has missed it.
RelabelNamespace(label) ==
    /\ namespace # label
    /\ edits < MaxEdits
    /\ edits' = edits + 1
    /\ namespace' = label
    /\ missed' = Names
    /\ UNCHANGED <<obj, cache, current, queue, worker, history>>

Users ==
    \/ \E n \in Names, label \in Labels : Relabel(n, label)
    \/ \E n \in Names : \E spec \in Specs(n) :
           EditSpec(n, spec) \/ \E label \in Labels : Create(n, label, spec)
    \/ \E n \in Names : Delete(n)
    \/ \E label \in Labels : RelabelNamespace(label)

\* Mutant of agentsForPolicy: the requests name the policy, not its Agents.
PolicyForPolicy(p) ==
    IF \E a \in Agents : cache[a] # Gone /\ cache[a].spec.policyRef = p THEN {p} ELSE {}

\* The Agents a changed policy queues, as the cache shows them.
agentsForPolicy(p) ==
    {a \in Agents : cache[a] # Gone /\ cache[a].spec.policyRef = p}

\* A watch event: the cache follows, then the handlers queue their requests.
Follow(n, requests) ==
    /\ n \notin current
    /\ cache' = [cache EXCEPT ![n] = obj[n]]
    /\ current' = current \cup {n}
    /\ queue' = queue \cup {n} \cup requests
    /\ UNCHANGED <<server, worker, history>>

Observe(n) ==
    /\ Follow(n, IF n \in Policies THEN agentsForPolicy(n) ELSE {})
    /\ UNCHANGED missed

\* The List of agentsForPolicy fails: the event is lost for the Agents.
ObserveUnlisted(p) ==
    /\ Follow(p, {})
    /\ missed' = missed \cup agentsForPolicy(p)

-----------------------------------------------------------------------------
(***************************************************************************)
(* The verdicts.                                                           *)
(***************************************************************************)
\* tenantIDFor, which has read the Namespace, succeeds; it then answers its label.
Bound(o) == namespace # NoTenant /\ o.label = namespace

hasDuplicates(values) == \E i, j \in DOMAIN values : i # j /\ values[i] = values[j]

allowed(values, candidate) == \E i \in DOMAIN values : values[i] = candidate

validateTenantPolicy(o) ==
    IF ~Bound(o) THEN "InvalidTenantBinding"
    ELSE IF ~o.spec.policyVersion THEN "PolicyVersionRequired"
    ELSE IF o.spec.allowedModels = << >> THEN "NoAllowedModels"
    ELSE IF hasDuplicates(o.spec.allowedModels) \/ hasDuplicates(o.spec.allowedTools)
         THEN "DuplicateAllowlistEntry"
    ELSE IF ~o.spec.defaultDenyEgress THEN "DefaultDenyRequired"
    ELSE "PolicyActive"

Active(o) == o.reason = "PolicyActive"
Ready(o) == o.reason = "AgentReady"

\* Mutant of Judge: the generation the policy was active for is not looked at.
JudgeAnyGeneration(o, policy) ==
    IF policy.label # namespace THEN "TenantMismatch"
    ELSE IF ~Active(policy) THEN "PolicyNotActive"
    ELSE IF ~allowed(policy.spec.allowedModels, o.spec.model) THEN "ModelDenied"
    ELSE IF \E i \in DOMAIN o.spec.tools : ~allowed(policy.spec.allowedTools, o.spec.tools[i])
         THEN "ToolDenied"
    ELSE "AgentReady"

\* The checks of validate that concern the policy.
Judge(o, policy) ==
    IF policy.label # namespace THEN "TenantMismatch"
    ELSE IF ~Active(policy) \/ ~policy.observed THEN "PolicyNotActive"
    ELSE IF ~allowed(policy.spec.allowedModels, o.spec.model) THEN "ModelDenied"
    ELSE IF \E i \in DOMAIN o.spec.tools : ~allowed(policy.spec.allowedTools, o.spec.tools[i])
         THEN "ToolDenied"
    ELSE "AgentReady"

validate(o, policies) ==
    IF ~Bound(o) THEN "InvalidTenantBinding"
    ELSE IF ~o.spec.projectID THEN "InvalidProjectID"
    ELSE IF ~o.spec.sandbox THEN "RuntimeClassRequired"
    ELSE IF o.spec.policyRef = None THEN "PolicyRequired"
    ELSE IF policies[o.spec.policyRef] = Gone THEN "PolicyNotFound"
    ELSE Judge(o, policies[o.spec.policyRef])

-----------------------------------------------------------------------------
(***************************************************************************)
(* The controllers.                                                        *)
(***************************************************************************)
Take(k, n) ==
    /\ worker[k] = Idle
    /\ n \in queue
    /\ queue' = queue \ {n}

\* The status is written only if the verdict changes it.
Report(k, n, copy, isCurrent, reason) ==
    LET new == [copy EXCEPT !.reason = reason, !.observed = TRUE]
    IN  worker' = [worker EXCEPT ![k] =
            IF new = copy THEN Idle
            ELSE [at |-> "write", name |-> n, copy |-> new, current |-> isCurrent]]

ReconcilePolicy(p) ==
    /\ Take("policy", p)
    /\ IF cache[p] = Gone THEN UNCHANGED worker
       ELSE Report("policy", p, cache[p], p \in current, validateTenantPolicy(cache[p]))
    /\ missed' = missed \ {p}
    /\ UNCHANGED <<server, cache, current, history>>

\* tenantIDFor cannot read the Namespace, and that is the verdict: no error, no
\* new request.  A status that changes is an event, after which the object is
\* judged again; one that says so already is not written.
ReportUnread(k, n, copy, isCurrent) ==
    /\ Report(k, n, copy, isCurrent, "NamespaceUnread")
    /\ missed' = missed \cup (IF copy.observed /\ copy.reason = "NamespaceUnread"
                              THEN {n} ELSE {})

PolicyNamespaceUnread(p) ==
    /\ Take("policy", p)
    /\ cache[p] # Gone
    /\ ReportUnread("policy", p, cache[p], p \in current)
    /\ UNCHANGED <<server, cache, current, history>>

ReconcileAgent(a) ==
    /\ Take("agent", a)
    /\ worker' = IF cache[a] = Gone THEN worker
                 ELSE [worker EXCEPT !["agent"] = [at |-> "validate", name |-> a,
                           copy |-> cache[a], current |-> a \in current]]
    /\ UNCHANGED <<server, cache, current, history, missed>>

\* validate reads the policy after the Agent; the cache may have moved on.
ValidateAgent ==
    LET w == worker["agent"]
    IN  /\ w.at = "validate"
        /\ Report("agent", w.name, w.copy, w.current, validate(w.copy, cache))
        /\ missed' = missed \ {w.name}
        /\ UNCHANGED <<server, cache, current, queue, history>>

AgentNamespaceUnread ==
    LET w == worker["agent"]
    IN  /\ w.at = "validate"
        /\ ReportUnread("agent", w.name, w.copy, w.current)
        /\ UNCHANGED <<server, cache, current, queue, history>>

\* A reconcile that returns an error is queued again.
Fail(k) ==
    /\ worker' = [worker EXCEPT ![k] = Idle]
    /\ queue' = queue \cup {worker[k].name}
    /\ UNCHANGED <<server, cache, current, history, missed>>

\* Mutant of PolicyLookupFails: the error of validate is taken for a verdict.
LookupFailureReported ==
    LET w == worker["agent"]
    IN  /\ w.at = "validate"
        /\ Report("agent", w.name, w.copy, w.current, "PolicyLookupFailed")
        /\ UNCHANGED <<server, cache, current, queue, history, missed>>

\* Mutant of PolicyLookupFails: the error of validate is swallowed.
LookupErrorSwallowed ==
    /\ worker["agent"].at = "validate"
    /\ worker' = [worker EXCEPT !["agent"] = Idle]
    /\ UNCHANGED <<server, cache, current, queue, history, missed>>

PolicyLookupFails == worker["agent"].at = "validate" /\ Fail("agent")

\* A conflict, or the API server fails.
WriteFails(k) == worker[k].at = "write" /\ Fail(k)

\* Status().Update succeeds.
WriteStatus(k) ==
    LET w == worker[k]
    IN  /\ w.at = "write"
        /\ w.current
        /\ Store(w.name, w.copy)
        /\ worker' = [worker EXCEPT ![k] = Idle]
        /\ activated' = IF k = "policy" /\ Active(w.copy)
                        THEN activated \cup {w.copy.spec} ELSE activated
        /\ approved' = IF k = "agent" /\ Ready(w.copy)
                       THEN approved \cup {w.copy.spec} ELSE approved
        /\ UNCHANGED <<namespace, edits, cache, queue, admitted, missed>>

\* The AgentRun controller finds an AgentRun's references valid and projects
\* the Agent it has read into the nodes of the run.
validateReferences(a) ==
    /\ cache[a] # Gone
    /\ Bound(cache[a])
    /\ Ready(cache[a]) /\ cache[a].observed

Admit(a) ==
    /\ validateReferences(a)
    /\ admitted' = cache[a].spec
    /\ UNCHANGED <<server, cache, current, queue, worker, activated, approved, missed>>

\* The operator restarts: the caches are listed anew and everything is queued.
Restart ==
    /\ cache' = obj
    /\ current' = Names
    /\ queue' = {n \in Names : obj[n] # Gone}
    /\ worker' = [k \in Controllers |-> Idle]
    /\ missed' = {}
    /\ UNCHANGED <<server, history>>

Work ==
    \/ \E p \in Policies : ReconcilePolicy(p)
    \/ \E a \in Agents : ReconcileAgent(a)
    \/ ValidateAgent
    \/ \E k \in Controllers : WriteStatus(k)

\* Failures that the controllers do not pass on as errors.
SilentFailures ==
    \/ AgentNamespaceUnread
    \/ \E p \in Policies : PolicyNamespaceUnread(p) \/ ObserveUnlisted(p)

System ==
    \/ \E n \in Names : Observe(n)
    \/ Work
    \/ PolicyLookupFails
    \/ \E k \in Controllers : WriteFails(k)
    \/ \E a \in Agents : Admit(a)
    \/ Restart

Next == Users \/ SilentFailures \/ System

Spec == Init /\ [][Next]_vars

\* Watch events arrive, queued objects are reconciled and writes return.
Fairness ==
    /\ \A n \in Names : WF_vars(Observe(n))
    /\ \A p \in Policies : WF_vars(ReconcilePolicy(p))
    /\ \A a \in Agents : WF_vars(ReconcileAgent(a))
    /\ WF_vars(ValidateAgent)
    /\ \A k \in Controllers : WF_vars(WriteStatus(k) \/ WriteFails(k))

\* A step that is no disturbance: of the failures, only conflicts go on.
Undisturbed ==
    \/ \E n \in Names : Observe(n)
    \/ Work
    \/ \E k \in Controllers : WriteFails(k) /\ ~worker[k].current
    \/ \E a \in Agents : Admit(a)

FairSpec == Spec /\ Fairness /\ <>[][Undisturbed]_vars

-----------------------------------------------------------------------------
(***************************************************************************)
(* Properties.                                                             *)
(***************************************************************************)
\* The refinement mapping: the spec of an Agent that is ready for its generation.
Standing(a) ==
    IF obj[a] = Gone THEN None
    ELSE IF Ready(obj[a]) /\ obj[a].observed THEN obj[a].spec
    ELSE None

Governed == INSTANCE Governance WITH standing <- [a \in Agents |-> Standing(a)]

\* The chain of decisions holds whatever the order of edits, events and writes:
\* no run is projected from an Agent spec that was never approved, and none is
\* approved under a policy spec that the TenantPolicy controller has not found
\* valid; an edit of an Agent takes its approval away at once.
ImplementsGovernance == Governed!Spec

Quiet == current = Names /\ queue = {} /\ \A k \in Controllers : worker[k] = Idle

Verdict(n) == IF n \in Policies THEN validateTenantPolicy(obj[n]) ELSE validate(obj[n], obj)

StatusIsCurrent(n) == obj[n] # Gone => obj[n].observed /\ obj[n].reason = Verdict(n)

\* No update gets lost: when the controllers have nothing left to do, every
\* status is the verdict on the objects as they are now, also after edits of a
\* policy that an Agent was judged by, conflicts, restarts and a failed read of
\* the Namespace.  The exceptions, until the object is judged again: a relabelled
\* Namespace, which no controller watches; a second failed read in a row; and,
\* for its Agents, a policy whose event was lost with a failed List.
QuietStatusIsCurrent == Quiet => \A n \in Names \ missed : StatusIsCurrent(n)

\* Once edits and failures are over the controllers stop correcting each
\* other: every status that has missed nothing becomes the verdict on the final
\* objects and stays so, whatever is wrong with the others.
StatusConverges ==
    \A n \in Names : <>[](n \notin missed) => <>[]StatusIsCurrent(n)

=============================================================================
