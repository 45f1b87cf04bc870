--------------------------- MODULE ReadinessProofs ---------------------------
(***************************************************************************)
(* Readiness keeps its types, implements Governance and loses no update,   *)
(* for any number of policies, Agents, tenants, specs and edits.           *)
(***************************************************************************)
EXTENDS Readiness, TLAPS

-----------------------------------------------------------------------------
(***************************************************************************)
(* Types.                                                                  *)
(***************************************************************************)
\* A verdict on a policy is one of the reasons of the TenantPolicy controller.
LEMMA PolicyVerdict ==
    ASSUME NEW o
    PROVE  validateTenantPolicy(o) \in PolicyReasons
BY DEF validateTenantPolicy, PolicyReasons

\* A verdict on an Agent is one of the reasons of the Agent controller.
LEMMA AgentVerdict ==
    ASSUME NEW o, NEW policies
    PROVE  validate(o, policies) \in AgentReasons
BY DEF validate, Judge, AgentReasons

\* A reconcile under way holds a copy of an object that its controller handles.
LEMMA WorkerHolds ==
    ASSUME TypeOK, NEW k \in Controllers, worker[k].at # "idle"
    PROVE  /\ worker[k].at \in {"validate", "write"}
           /\ worker[k].name \in Handles(k)
           /\ worker[k].copy \in Objects(worker[k].name)
           /\ worker[k].current \in BOOLEAN
BY DEF TypeOK, Workers, Idle

\* What a controller handles has a name, and the reasons of its kind.
LEMMA HandledNames ==
    ASSUME NEW k \in Controllers, NEW n \in Handles(k)
    PROVE  /\ n \in Names
           /\ Specs(n) = IF k = "policy" THEN PolicySpecs ELSE AgentSpecs
           /\ Reasons(n) = IF k = "policy" THEN PolicyReasons ELSE AgentReasons
BY ReadinessAssumption DEF Controllers, Handles, Names, Specs, Reasons

\* The end of both Reconcile methods leaves a worker of the right type.
LEMMA ReportKeepsType ==
    ASSUME TypeOK, NEW k \in Controllers, NEW n \in Handles(k), NEW copy \in Objects(n),
           NEW isCurrent \in BOOLEAN, NEW reason \in Reasons(n),
           Report(k, n, copy, isCurrent, reason)
    PROVE  DOMAIN worker' = Controllers /\ \A j \in Controllers : worker'[j] \in Workers(j)
<1> DEFINE new == [copy EXCEPT !.reason = reason, !.observed = TRUE]
           w == [at |-> "write", name |-> n, copy |-> new, current |-> isCurrent]
<1>1. new \in Objects(n)
  BY DEF Objects
<1>2. w \in Workers(k)
  BY <1>1 DEF Workers
<1>3. Idle \in Workers(k)
  BY DEF Workers
<1>4. worker' = [worker EXCEPT ![k] = IF new = copy THEN Idle ELSE w]
  BY DEF Report
<1> HIDE DEF w, new
<1> QED
  BY <1>2, <1>3, <1>4 DEF TypeOK

\* An edit by a user, whatever it writes, keeps the types; the copy of a
\* reconcile under way only becomes outdated.
LEMMA EditKeepsType ==
    ASSUME TypeOK, NEW n \in Names, NEW new \in Objects(n) \cup {Gone}, Edit(n, new)
    PROVE  TypeOK'
<1>1. /\ DOMAIN obj' = Names
      /\ \A m \in Names : obj'[m] \in Objects(m) \cup {Gone}
  BY DEF TypeOK, Edit, Store
<1>2. \A k \in Controllers : worker'[k] \in Workers(k)
  <2> TAKE k \in Controllers
  <2>1. CASE worker[k].name = n
    <3>1. worker[k].at # "idle"
      BY <2>1, ReadinessAssumption DEF TypeOK, Workers, Idle
    <3>2. /\ worker[k] \in [at : {"validate", "write"}, name : {n}, copy : Objects(n),
                            current : BOOLEAN]
          /\ n \in Handles(k)
      BY <2>1, <3>1 DEF TypeOK, Workers, Idle
    <3>3. worker'[k] = [worker[k] EXCEPT !.current = FALSE]
      BY <2>1 DEF Edit
    <3>4. worker'[k] \in [at : {"validate", "write"}, name : {n}, copy : Objects(n),
                          current : BOOLEAN]
      BY <3>2, <3>3
    <3> QED
      BY <3>2, <3>4 DEF Workers
  <2>2. CASE worker[k].name # n
    BY <2>2 DEF Edit, TypeOK
  <2> QED
    BY <2>1, <2>2
<1>3. edits' \in 0 .. MaxEdits
  BY ReadinessAssumption DEF Edit, TypeOK
<1> QED
  BY <1>1, <1>2, <1>3 DEF TypeOK, Edit, Store, history

\* Every step keeps the types.
LEMMA TypeStep == TypeOK /\ [Next]_vars => TypeOK'
<1> SUFFICES ASSUME TypeOK, [Next]_vars PROVE TypeOK'
  OBVIOUS
<1>1. ASSUME NEW n \in Names, NEW label \in Labels, Relabel(n, label) PROVE TypeOK'
  <2>1. [obj[n] EXCEPT !.label = label] \in Objects(n)
    BY <1>1 DEF Relabel, TypeOK, Objects
  <2> QED
    BY <1>1, <2>1, EditKeepsType DEF Relabel
<1>2. ASSUME NEW n \in Names, NEW spec \in Specs(n), EditSpec(n, spec) PROVE TypeOK'
  <2>1. [obj[n] EXCEPT !.spec = spec, !.observed = FALSE] \in Objects(n)
    BY <1>2 DEF EditSpec, TypeOK, Objects
  <2> QED
    BY <1>2, <2>1, EditKeepsType DEF EditSpec
<1>3. ASSUME NEW n \in Names, NEW spec \in Specs(n), NEW label \in Labels,
             Create(n, label, spec)
      PROVE  TypeOK'
  <2>1. New(label, spec) \in Objects(n)
    BY DEF New, Objects
  <2> QED
    BY <1>3, <2>1, EditKeepsType DEF Create
<1>4. ASSUME NEW n \in Names, Delete(n) PROVE TypeOK'
  BY <1>4, EditKeepsType DEF Delete
<1>5. ASSUME NEW label \in Labels, RelabelNamespace(label) PROVE TypeOK'
  BY <1>5, ReadinessAssumption DEF RelabelNamespace, TypeOK, history
<1>6. ASSUME NEW n \in Names, Observe(n) PROVE TypeOK'
  <2>1. agentsForPolicy(n) \subseteq Names
    BY DEF agentsForPolicy, Names
  <2> QED
    BY <1>6, <2>1 DEF Observe, Follow, TypeOK, server, history
<1>17. ASSUME NEW p \in Policies, ObserveUnlisted(p) PROVE TypeOK'
  <2>1. p \in Names /\ agentsForPolicy(p) \subseteq Names
    BY DEF agentsForPolicy, Names
  <2> QED
    BY <1>17, <2>1 DEF ObserveUnlisted, Follow, TypeOK, server, history
<1>18. ASSUME NEW p \in Policies, PolicyNamespaceUnread(p) PROVE TypeOK'
  <2>1. p \in Handles("policy") /\ p \in Names /\ "policy" \in Controllers
    BY DEF Handles, Names, Controllers
  <2>2. cache[p] \in Objects(p) /\ "NamespaceUnread" \in Reasons(p)
    BY <1>18, <2>1 DEF PolicyNamespaceUnread, TypeOK, Reasons, PolicyReasons
  <2>3. (p \in current) \in BOOLEAN
    OBVIOUS
  <2>4. Report("policy", p, cache[p], p \in current, "NamespaceUnread")
    BY <1>18 DEF PolicyNamespaceUnread, ReportUnread
  <2>5. DOMAIN worker' = Controllers /\ \A j \in Controllers : worker'[j] \in Workers(j)
    BY <2>1, <2>2, <2>3, <2>4, ReportKeepsType, Zenon
  <2> QED
    BY <1>18, <2>1, <2>5 DEF PolicyNamespaceUnread, ReportUnread, Take, TypeOK, server, history
<1>19. ASSUME AgentNamespaceUnread PROVE TypeOK'
  <2> DEFINE w == worker["agent"]
  <2>1. "agent" \in Controllers /\ w.at # "idle"
    BY <1>19 DEF AgentNamespaceUnread, Controllers
  <2>2. w.name \in Handles("agent") /\ w.copy \in Objects(w.name) /\ w.current \in BOOLEAN
    BY <2>1, WorkerHolds
  <2>3. w.name \in Names /\ "NamespaceUnread" \in Reasons(w.name)
    BY <2>1, <2>2, HandledNames DEF AgentReasons
  <2>4. Report("agent", w.name, w.copy, w.current, "NamespaceUnread")
    BY <1>19 DEF AgentNamespaceUnread, ReportUnread
  <2>5. DOMAIN worker' = Controllers /\ \A j \in Controllers : worker'[j] \in Workers(j)
    BY <2>1, <2>2, <2>3, <2>4, ReportKeepsType
  <2> QED
    BY <1>19, <2>3, <2>5 DEF AgentNamespaceUnread, ReportUnread, TypeOK, server, history
<1>7. ASSUME NEW p \in Policies, ReconcilePolicy(p) PROVE TypeOK'
  <2>1. p \in Handles("policy") /\ p \in Names /\ "policy" \in Controllers
    BY DEF Handles, Names, Controllers
  <2>2. DOMAIN worker' = Controllers /\ \A j \in Controllers : worker'[j] \in Workers(j)
    <3>1. CASE cache[p] = Gone
      BY <1>7, <3>1 DEF ReconcilePolicy, TypeOK
    <3>2. CASE cache[p] # Gone
      <4>1. cache[p] \in Objects(p) /\ validateTenantPolicy(cache[p]) \in Reasons(p)
        BY <2>1, <3>2, PolicyVerdict DEF TypeOK, Reasons
      <4>2. Report("policy", p, cache[p], p \in current, validateTenantPolicy(cache[p]))
        BY <1>7, <3>2 DEF ReconcilePolicy
      <4>3. (p \in current) \in BOOLEAN
        OBVIOUS
      <4> HIDE DEF Report
      <4> QED
        BY <2>1, <4>1, <4>2, <4>3, ReportKeepsType, Zenon
    <3> QED
      BY <3>1, <3>2
  <2> QED
    BY <1>7, <2>2 DEF ReconcilePolicy, Take, TypeOK, server, history
<1>8. ASSUME NEW a \in Agents, ReconcileAgent(a) PROVE TypeOK'
  <2>1. a \in Handles("agent") /\ a \in Names
    BY DEF Handles, Names
  <2>2. ASSUME cache[a] # Gone
        PROVE  [at |-> "validate", name |-> a, copy |-> cache[a], current |-> a \in current]
                   \in Workers("agent")
    BY <2>1, <2>2 DEF TypeOK, Workers
  <2>3. DOMAIN worker' = Controllers /\ \A j \in Controllers : worker'[j] \in Workers(j)
    BY <1>8, <2>2 DEF ReconcileAgent, TypeOK
  <2> QED
    BY <1>8, <2>3 DEF ReconcileAgent, Take, TypeOK, server, history
<1>9. ASSUME ValidateAgent PROVE TypeOK'
  <2> DEFINE w == worker["agent"]
  <2>1. "agent" \in Controllers /\ w.at # "idle"
    BY <1>9 DEF ValidateAgent, Controllers
  <2>2. w.name \in Handles("agent") /\ w.copy \in Objects(w.name) /\ w.current \in BOOLEAN
    BY <2>1, WorkerHolds
  <2>3. validate(w.copy, cache) \in Reasons(w.name)
    BY <2>1, <2>2, HandledNames, AgentVerdict
  <2>4. Report("agent", w.name, w.copy, w.current, validate(w.copy, cache))
    BY <1>9 DEF ValidateAgent
  <2>5. DOMAIN worker' = Controllers /\ \A j \in Controllers : worker'[j] \in Workers(j)
    BY <2>1, <2>2, <2>3, <2>4, ReportKeepsType
  <2> QED
    BY <1>9, <2>5 DEF ValidateAgent, TypeOK, server, history
<1>10. ASSUME NEW k \in Controllers, worker[k].at # "idle", Fail(k) PROVE TypeOK'
  <2>1. worker[k].name \in Names
    BY <1>10, WorkerHolds, HandledNames
  <2>2. \A j \in Controllers : worker'[j] \in Workers(j)
    BY <1>10 DEF Fail, TypeOK, Workers
  <2> QED
    BY <1>10, <2>1, <2>2 DEF Fail, TypeOK, server, history
<1>11. ASSUME NEW k \in Controllers, WriteStatus(k) PROVE TypeOK'
  <2> DEFINE w == worker[k]
  <2>1. w.at # "idle"
    BY <1>11 DEF WriteStatus
  <2>2. w.name \in Handles(k) /\ w.copy \in Objects(w.name)
    BY <2>1, WorkerHolds
  <2>3. w.name \in Names /\ w.copy.spec \in Specs(w.name)
    BY <2>2, HandledNames DEF Objects
  <2>4. \A j \in Controllers : worker'[j] \in Workers(j)
    BY <1>11 DEF WriteStatus, TypeOK, Workers
  <2>5. /\ k = "policy" => w.copy.spec \in PolicySpecs
        /\ k = "agent" => w.copy.spec \in AgentSpecs
    BY <2>2, <2>3, HandledNames
  <2>6. activated' \subseteq PolicySpecs /\ approved' \subseteq AgentSpecs
    BY <1>11, <2>5 DEF WriteStatus, TypeOK
  <2>7. /\ DOMAIN obj' = Names
        /\ \A m \in Names : obj'[m] \in Objects(m) \cup {Gone}
        /\ current' \subseteq Names
    BY <1>11, <2>2, <2>3 DEF WriteStatus, Store, TypeOK
  <2> QED
    BY <1>11, <2>4, <2>6, <2>7 DEF WriteStatus, TypeOK
<1>12. ASSUME NEW a \in Agents, Admit(a) PROVE TypeOK'
  <2>1. a \in Names /\ cache[a] \in Objects(a) /\ Specs(a) = AgentSpecs
    BY <1>12, ReadinessAssumption DEF Admit, validateReferences, TypeOK, Names, Specs
  <2>2. admitted' \in AgentSpecs
    BY <1>12, <2>1 DEF Admit, Objects
  <2> QED
    BY <1>12, <2>2 DEF Admit, TypeOK, server
<1>13. ASSUME Restart PROVE TypeOK'
  BY <1>13 DEF Restart, TypeOK, Workers, server, history
<1>14. ASSUME UNCHANGED vars PROVE TypeOK'
  BY <1>14 DEF vars, server, history, TypeOK
<1>15. ASSUME PolicyLookupFails PROVE TypeOK'
  BY <1>10, <1>15 DEF PolicyLookupFails, Controllers
<1>16. ASSUME NEW k \in Controllers, WriteFails(k) PROVE TypeOK'
  BY <1>10, <1>16 DEF WriteFails
<1> QED
  BY <1>1, <1>2, <1>3, <1>4, <1>5, <1>6, <1>7, <1>8, <1>9, <1>11, <1>12, <1>13, <1>14,
     <1>15, <1>16, <1>17, <1>18, <1>19 DEF Next, Users, SilentFailures, System, Work

\* The initial states have the types.
LEMMA TypeInit == Init => TypeOK
<1> SUFFICES ASSUME Init PROVE TypeOK
  OBVIOUS
<1>1. /\ DOMAIN obj = Names /\ DOMAIN cache = Names
      /\ \A n \in Names : cache[n] = obj[n] /\ obj[n] \in Objects(n) \cup {Gone}
  <2>1. ASSUME NEW n \in Names, NEW label \in Labels, NEW spec \in Specs(n)
        PROVE  New(label, spec) \in Objects(n)
    BY DEF New, Objects
  <2>2. \A n \in Names : Applied(n) \subseteq Objects(n)
    BY <2>1 DEF Applied
  <2> QED
    BY <2>2 DEF Init
<1>2. \A k \in Controllers : worker[k] \in Workers(k)
  BY DEF Init, Workers
<1>3. edits \in 0 .. MaxEdits
  BY ReadinessAssumption DEF Init
<1>4. /\ namespace \in Labels /\ current \subseteq Names /\ queue \subseteq Names
      /\ activated = {} /\ approved = {} /\ admitted = None /\ missed = {}
      /\ DOMAIN worker = Controllers
  BY DEF Init
<1> QED
  BY <1>1, <1>2, <1>3, <1>4 DEF TypeOK

\* The objects, their cached copies, the queue, the workers of the two
\* controllers and the history keep their types: no request names an object the
\* controller does not handle, and no status has a reason that is not a verdict.
THEOREM ReadinessTypes == Spec => []TypeOK
BY TypeInit, TypeStep, PTL DEF Spec

-----------------------------------------------------------------------------
(***************************************************************************)
(* The refinement of Governance.                                           *)
(***************************************************************************)
\* A status that counts has its grounds in the history.
Grounded(n, o) ==
    o # Gone /\ o.observed =>
        /\ n \in Policies /\ Active(o) => o.spec \in activated
        /\ n \in Agents /\ Ready(o) => o.spec \in approved

\* A verdict that is about to be written has its grounds, although the caches
\* may have moved on since it was found.
Pending(k) ==
    worker[k].at = "write" =>
        /\ worker[k].copy.observed
        /\ k = "policy" /\ Active(worker[k].copy) => Governed!Valid(worker[k].copy.spec)
        /\ k = "agent" /\ Ready(worker[k].copy) =>
               \E p \in activated : Governed!Permits(p, worker[k].copy.spec)

\* The inductive invariant: the grounds of every copy of an object and of every
\* pending verdict.
Grounds ==
    /\ TypeOK
    /\ \A n \in Names : Grounded(n, obj[n]) /\ Grounded(n, cache[n])
    /\ \A k \in Controllers : Pending(k)

\* A policy that validateTenantPolicy finds active is valid.
LEMMA ActiveIsValid ==
    ASSUME NEW p \in Policies, NEW o \in Objects(p), validateTenantPolicy(o) = "PolicyActive"
    PROVE  Governed!Valid(o.spec)
<1>1. o.spec \in TenantPolicySpec
  BY ReadinessAssumption DEF Objects, Specs
<1>2. /\ o.spec.policyVersion /\ o.spec.defaultDenyEgress
      /\ o.spec.allowedModels # << >>
      /\ ~hasDuplicates(o.spec.allowedModels) /\ ~hasDuplicates(o.spec.allowedTools)
  BY DEF validateTenantPolicy
<1>3. 1 \in DOMAIN o.spec.allowedModels
  BY <1>1, <1>2 DEF TenantPolicySpec
<1>4. Governed!Entries(o.spec.allowedModels) # {}
  BY <1>3 DEF Governed!Entries
<1>5. Governed!Unique(o.spec.allowedModels) /\ Governed!Unique(o.spec.allowedTools)
  BY <1>2 DEF hasDuplicates, Governed!Unique
<1> QED
  BY <1>2, <1>4, <1>5 DEF Governed!Valid

\* An Agent that validate finds ready is permitted by a policy that is active
\* for its generation.
LEMMA ReadyIsPermitted ==
    ASSUME NEW o, NEW policies, validate(o, policies) = "AgentReady"
    PROVE  LET policy == policies[o.spec.policyRef]
           IN  /\ o.spec.policyRef # None /\ policy # Gone
               /\ Active(policy) /\ policy.observed
               /\ Governed!Permits(policy.spec, o.spec)
<1> DEFINE policy == policies[o.spec.policyRef]
<1>1. o.spec.policyRef # None /\ policy # Gone /\ Judge(o, policy) = "AgentReady"
  BY DEF validate
<1> HIDE DEF policy
<1>2. /\ Active(policy) /\ policy.observed
      /\ allowed(policy.spec.allowedModels, o.spec.model)
      /\ \A i \in DOMAIN o.spec.tools : allowed(policy.spec.allowedTools, o.spec.tools[i])
  BY <1>1 DEF Judge
<1>3. Governed!Permits(policy.spec, o.spec)
  BY <1>2 DEF allowed, Governed!Permits, Governed!Entries
<1> QED
  BY <1>1, <1>2, <1>3 DEF policy

\* An edit keeps the grounds if what it writes has them.
LEMMA EditKeepsGrounds ==
    ASSUME Grounds, NEW n \in Names, NEW new, Grounded(n, new), Edit(n, new)
    PROVE  /\ \A m \in Names : Grounded(m, obj[m])' /\ Grounded(m, cache[m])'
           /\ \A k \in Controllers : Pending(k)'
<1>1. UNCHANGED <<cache, activated, approved>>
  BY DEF Edit, history
<1>2. \A m \in Names : obj'[m] = IF m = n THEN new ELSE obj[m]
  BY DEF Edit, Store, Grounds, TypeOK
<1>3. \A k \in Controllers : worker'[k].at = worker[k].at /\ worker'[k].copy = worker[k].copy
  <2> TAKE k \in Controllers
  <2>1. worker[k] \in Workers(k)
    BY DEF Grounds, TypeOK
  <2>2. worker'[k] = worker[k] \/ worker'[k] = [worker[k] EXCEPT !.current = FALSE]
    BY DEF Edit
  <2>3. CASE worker[k] = Idle
    BY <2>2, <2>3 DEF Idle
  <2>4. CASE worker[k] # Idle
    BY <2>1, <2>2, <2>4 DEF Workers
  <2> QED
    BY <2>3, <2>4
<1> QED
  BY <1>1, <1>2, <1>3 DEF Grounds, Grounded, Pending

\* A verdict for want of the Namespace makes nothing active or ready.
LEMMA UnreadGrantsNothing ==
    ASSUME Grounds, UNCHANGED <<activated, approved>>,
           NEW k \in Controllers, NEW n \in Handles(k), NEW copy \in Objects(n),
           NEW isCurrent, ReportUnread(k, n, copy, isCurrent)
    PROVE  \A j \in Controllers : Pending(j)'
<1> DEFINE new == [copy EXCEPT !.reason = "NamespaceUnread", !.observed = TRUE]
<1>1. new.observed /\ ~Active(new) /\ ~Ready(new)
  BY DEF Objects, Active, Ready
<1>2. \A j \in Controllers : worker'[j] =
          IF j # k THEN worker[j] ELSE IF new = copy THEN Idle
          ELSE [at |-> "write", name |-> n, copy |-> new, current |-> isCurrent]
  BY DEF ReportUnread, Report, Grounds, TypeOK
<1> HIDE DEF new
<1>3. ASSUME NEW j \in Controllers, j # k PROVE Pending(j)'
  BY <1>2, <1>3 DEF Grounds, Pending
<1>4. Pending(k)'
  BY <1>1, <1>2 DEF Pending, Idle, Active, Ready
<1> QED
  BY <1>3, <1>4

\* Every step keeps the grounds.
LEMMA GroundsStep == Grounds /\ [Next]_vars => Grounds'
<1> SUFFICES ASSUME Grounds, [Next]_vars
             PROVE  /\ \A n \in Names : Grounded(n, obj[n])' /\ Grounded(n, cache[n])'
                    /\ \A k \in Controllers : Pending(k)'
  BY TypeStep DEF Grounds
<1> DEFINE Kept == /\ \A n \in Names : Grounded(n, obj[n])' /\ Grounded(n, cache[n])'
                   /\ \A k \in Controllers : Pending(k)'
<1>1. ASSUME NEW n \in Names, NEW label \in Labels, Relabel(n, label) PROVE Kept
  <2>1. Grounded(n, [obj[n] EXCEPT !.label = label])
    BY <1>1 DEF Relabel, Grounds, Grounded, TypeOK, Objects, Active, Ready
  <2> QED
    BY <1>1, <2>1, EditKeepsGrounds DEF Relabel
<1>2. ASSUME NEW n \in Names, NEW spec \in Specs(n), EditSpec(n, spec) PROVE Kept
  <2>1. Grounded(n, [obj[n] EXCEPT !.spec = spec, !.observed = FALSE])
    BY <1>2 DEF EditSpec, Grounds, Grounded, TypeOK, Objects
  <2> QED
    BY <1>2, <2>1, EditKeepsGrounds DEF EditSpec
<1>3. ASSUME NEW n \in Names, NEW spec \in Specs(n), NEW label \in Labels,
             Create(n, label, spec)
      PROVE  Kept
  <2>1. Grounded(n, New(label, spec))
    BY DEF New, Grounded
  <2> QED
    BY <1>3, <2>1, EditKeepsGrounds DEF Create
<1>4. ASSUME NEW n \in Names, Delete(n) PROVE Kept
  <2>1. Grounded(n, Gone)
    BY DEF Grounded
  <2> QED
    BY <1>4, <2>1, EditKeepsGrounds DEF Delete
<1>5. ASSUME NEW label \in Labels, RelabelNamespace(label) PROVE Kept
  BY <1>5 DEF RelabelNamespace, history, Grounds, Grounded, Pending
<1>6. ASSUME NEW n \in Names, Observe(n) PROVE Kept
  <2>1. \A m \in Names : cache'[m] = IF m = n THEN obj[n] ELSE cache[m]
    BY <1>6 DEF Observe, Follow, Grounds, TypeOK
  <2> QED
    BY <1>6, <2>1 DEF Observe, Follow, server, history, Grounds, Grounded, Pending
<1>15. ASSUME NEW n \in Policies, ObserveUnlisted(n) PROVE Kept
  <2>1. \A m \in Names : cache'[m] = IF m = n THEN obj[n] ELSE cache[m]
    BY <1>15 DEF ObserveUnlisted, Follow, Grounds, TypeOK
  <2> QED
    BY <1>15, <2>1 DEF ObserveUnlisted, Follow, server, history, Grounds, Grounded, Pending
<1>7. ASSUME NEW p \in Policies, ReconcilePolicy(p) PROVE Kept
  <2>1. UNCHANGED <<obj, cache, activated, approved>>
    BY <1>7 DEF ReconcilePolicy, server, history
  <2>2. Pending("policy")'
    <3>1. CASE cache[p] = Gone
      BY <1>7, <2>1, <3>1 DEF ReconcilePolicy, Grounds, Pending, Controllers
    <3>2. CASE cache[p] # Gone
      <4> DEFINE new == [cache[p] EXCEPT !.reason = validateTenantPolicy(cache[p]),
                                         !.observed = TRUE]
      <4>1. cache[p] \in Objects(p)
        BY <3>2 DEF Grounds, TypeOK, Names
      <4>2. new.observed /\ new.spec = cache[p].spec
                /\ new.reason = validateTenantPolicy(cache[p])
        BY <4>1 DEF Objects
      <4>3. Active(new) => Governed!Valid(new.spec)
        BY <4>1, <4>2, ActiveIsValid DEF Active
      <4>4. worker'["policy"] =
                IF new = cache[p] THEN Idle
                ELSE [at |-> "write", name |-> p, copy |-> new, current |-> p \in current]
        BY <1>7, <3>2 DEF ReconcilePolicy, Report, Grounds, TypeOK, Controllers
      <4> HIDE DEF new
      <4> QED
        BY <4>2, <4>3, <4>4 DEF Pending, Idle
    <3> QED
      BY <3>1, <3>2
  <2>3. worker'["agent"] = worker["agent"]
    BY <1>7 DEF ReconcilePolicy, Report, Grounds, TypeOK, Controllers
  <2> QED
    BY <2>1, <2>2, <2>3 DEF Grounds, Grounded, Pending, Controllers
<1>8. ASSUME NEW a \in Agents, ReconcileAgent(a) PROVE Kept
  <2>1. UNCHANGED <<obj, cache, activated, approved>>
    BY <1>8 DEF ReconcileAgent, server, history
  <2>2. worker'["policy"] = worker["policy"]
    BY <1>8 DEF ReconcileAgent, Grounds, TypeOK, Controllers
  <2>3. worker'["agent"] = worker["agent"] \/ worker'["agent"].at = "validate"
    BY <1>8 DEF ReconcileAgent, Grounds, TypeOK, Controllers
  <2> QED
    BY <2>1, <2>2, <2>3 DEF Grounds, Grounded, Pending, Controllers
<1>9. ASSUME ValidateAgent PROVE Kept
  <2> DEFINE w == worker["agent"]
             new == [w.copy EXCEPT !.reason = validate(w.copy, cache), !.observed = TRUE]
             policy == cache[w.copy.spec.policyRef]
  <2>1. UNCHANGED <<obj, cache, activated, approved>>
    BY <1>9 DEF ValidateAgent, server, history
  <2>2. w.name \in Handles("agent") /\ w.copy \in Objects(w.name)
    BY <1>9, WorkerHolds DEF ValidateAgent, Grounds, Controllers
  <2>3. w.copy.spec \in AgentSpec
    BY <2>2, HandledNames, ReadinessAssumption DEF Objects, Controllers
  <2>4. new.observed /\ new.spec = w.copy.spec /\ new.reason = validate(w.copy, cache)
    BY <2>2 DEF Objects
  <2>5. ASSUME Ready(new)
        PROVE  \E p \in activated : Governed!Permits(p, new.spec)
    <3>1. /\ w.copy.spec.policyRef # None /\ policy # Gone
          /\ Active(policy) /\ policy.observed
          /\ Governed!Permits(policy.spec, w.copy.spec)
      BY <2>4, <2>5, ReadyIsPermitted DEF Ready
    <3>2. w.copy.spec.policyRef \in Policies
      BY <2>3, <3>1 DEF AgentSpec
    <3>3. policy.spec \in activated
      BY <3>1, <3>2 DEF Grounds, Grounded, Names
    <3> QED
      BY <2>4, <3>1, <3>3
  <2>6. worker'["agent"] =
            IF new = w.copy THEN Idle
            ELSE [at |-> "write", name |-> w.name, copy |-> new, current |-> w.current]
    BY <1>9 DEF ValidateAgent, Report, Grounds, TypeOK, Controllers
  <2>7. worker'["policy"] = worker["policy"]
    BY <1>9 DEF ValidateAgent, Report, Grounds, TypeOK, Controllers
  <2> HIDE DEF new, w
  <2>8. Pending("agent")'
    BY <2>1, <2>4, <2>5, <2>6 DEF Pending, Idle
  <2> QED
    BY <2>1, <2>7, <2>8 DEF Grounds, Grounded, Pending, Controllers
<1>10. ASSUME NEW k \in Controllers, Fail(k) PROVE Kept
  <2>1. UNCHANGED <<obj, cache, activated, approved>>
    BY <1>10 DEF Fail, server, history
  <2>2. \A j \in Controllers : worker'[j] = worker[j] \/ worker'[j] = Idle
    BY <1>10 DEF Fail, Grounds, TypeOK
  <2> QED
    BY <2>1, <2>2 DEF Grounds, Grounded, Pending, Idle
<1>11. ASSUME NEW k \in Controllers, WriteStatus(k) PROVE Kept
  <2> DEFINE w == worker[k]
  <2>1. w.at = "write" /\ cache' = cache
    BY <1>11 DEF WriteStatus
  <2>2. w.name \in Handles(k) /\ w.name \in Names
    BY <2>1, WorkerHolds, HandledNames DEF Grounds
  <2>3. activated \subseteq activated' /\ approved \subseteq approved'
    BY <1>11 DEF WriteStatus
  <2>4. \A m \in Names : obj'[m] = IF m = w.name THEN w.copy ELSE obj[m]
    BY <1>11 DEF WriteStatus, Store, Grounds, TypeOK
  <2>5. \A j \in Controllers : worker'[j] = worker[j] \/ worker'[j] = Idle
    BY <1>11 DEF WriteStatus, Grounds, TypeOK
  <2>6. /\ w.name \in Policies /\ Active(w.copy) => w.copy.spec \in activated'
        /\ w.name \in Agents /\ Ready(w.copy) => w.copy.spec \in approved'
    BY <1>11, <2>2, ReadinessAssumption DEF WriteStatus, Handles, Controllers
  <2>7. \A n \in Names : Grounded(n, obj[n])'
    BY <2>3, <2>4, <2>6 DEF Grounds, Grounded, Active, Ready
  <2>8. \A n \in Names : Grounded(n, cache[n])'
    BY <2>1, <2>3 DEF Grounds, Grounded
  <2>9. \A j \in Controllers : Pending(j)'
    BY <2>3, <2>5 DEF Grounds, Pending, Idle
  <2> QED
    BY <2>7, <2>8, <2>9
<1>12. ASSUME NEW a \in Agents, Admit(a) PROVE Kept
  BY <1>12 DEF Admit, server, Grounds, Grounded, Pending
<1>13. ASSUME Restart PROVE Kept
  BY <1>13 DEF Restart, server, history, Grounds, Grounded, Pending, Idle
<1>14. ASSUME UNCHANGED vars PROVE Kept
  BY <1>14 DEF vars, server, history, Grounds, Grounded, Pending
<1>16. ASSUME NEW p \in Policies, PolicyNamespaceUnread(p) PROVE Kept
  <2>1. UNCHANGED <<obj, cache, activated, approved>>
    BY <1>16 DEF PolicyNamespaceUnread, server, history
  <2>2. cache[p] \in Objects(p) /\ p \in Handles("policy") /\ "policy" \in Controllers
    BY <1>16 DEF PolicyNamespaceUnread, Grounds, TypeOK, Names, Handles, Controllers
  <2> QED
    BY <1>16, <2>1, <2>2, UnreadGrantsNothing DEF PolicyNamespaceUnread, Grounds, Grounded
<1>17. ASSUME AgentNamespaceUnread PROVE Kept
  <2>1. UNCHANGED <<obj, cache, activated, approved>>
    BY <1>17 DEF AgentNamespaceUnread, server, history
  <2>2. /\ worker["agent"].name \in Handles("agent") /\ "agent" \in Controllers
        /\ worker["agent"].copy \in Objects(worker["agent"].name)
    BY <1>17, WorkerHolds DEF AgentNamespaceUnread, Grounds, Controllers
  <2> QED
    BY <1>17, <2>1, <2>2, UnreadGrantsNothing DEF AgentNamespaceUnread, Grounds, Grounded
<1> QED
  BY <1>1, <1>2, <1>3, <1>4, <1>5, <1>6, <1>7, <1>8, <1>9, <1>10, <1>11, <1>12, <1>13, <1>14,
     <1>15, <1>16, <1>17
     DEF Next, Users, SilentFailures, System, Work, PolicyLookupFails, WriteFails, Controllers

\* Nothing has been decided when the operator starts.
LEMMA GroundsInit == Init => Grounds
<1> SUFFICES ASSUME Init PROVE Grounds
  OBVIOUS
<1>1. TypeOK
  BY TypeInit
<1>2. \A n \in Names : obj[n] # Gone => ~obj[n].observed
  <2>1. ASSUME NEW label, NEW spec PROVE ~New(label, spec).observed
    BY DEF New
  <2>2. \A n \in Names : obj[n] \in Applied(n) \cup {Gone}
    BY DEF Init
  <2> QED
    BY <2>1, <2>2 DEF Applied
<1>3. \A n \in Names : Grounded(n, obj[n]) /\ Grounded(n, cache[n])
  BY <1>2 DEF Init, Grounded
<1>4. \A k \in Controllers : Pending(k)
  BY DEF Init, Pending, Idle
<1> QED
  BY <1>1, <1>3, <1>4 DEF Grounds

\* A step that changes at most the standing of one Agent, to none, withdraws it.
LEMMA StepWithdraws ==
    ASSUME Grounds, NEW n \in Names, UNCHANGED history,
           \A m \in Names : m # n => obj'[m] = obj[m],
           Standing(n)' \in {Standing(n), None}
    PROVE  [Governed!Next]_(Governed!vars)
<1> DEFINE standing == [a \in Agents |-> Standing(a)]
<1>1. \A a \in Agents : a # n => Standing(a)' = Standing(a)
  BY DEF Standing, Names
<1>2. CASE Standing(n)' = Standing(n)
  <2>1. standing' = standing
    BY <1>1, <1>2
  <2> QED
    BY <2>1 DEF Governed!vars, history
<1>3. CASE n \in Agents /\ Standing(n)' = None
  <2>1. standing' = [standing EXCEPT ![n] = None]
    BY <1>1, <1>3
  <2>2. Governed!Withdraw(n)
    BY <2>1 DEF Governed!Withdraw, history
  <2> QED
    BY <1>3, <2>2 DEF Governed!Next
<1>4. CASE n \notin Agents
  <2>1. standing' = standing
    BY <1>1, <1>4
  <2> QED
    BY <2>1 DEF Governed!vars, history
<1> QED
  BY <1>2, <1>3, <1>4

\* Every step is a step of Governance or changes nothing that it knows of.
LEMMA GovernanceStep == Grounds /\ [Next]_vars => [Governed!Next]_(Governed!vars)
<1> SUFFICES ASSUME Grounds, [Next]_vars PROVE [Governed!Next]_(Governed!vars)
  OBVIOUS
<1> DEFINE standing == [a \in Agents |-> Standing(a)]
<1>0. ASSUME UNCHANGED obj PROVE standing' = standing
  BY <1>0 DEF Standing
<1>1. ASSUME NEW n \in Names, NEW new, Edit(n, new),
             \/ new = Gone \/ ~new.observed
             \/ /\ obj[n] # Gone
                /\ new.reason = obj[n].reason /\ new.spec = obj[n].spec
                /\ new.observed = obj[n].observed
      PROVE  [Governed!Next]_(Governed!vars)
  <2>1. \A m \in Names : obj'[m] = IF m = n THEN new ELSE obj[m]
    BY <1>1 DEF Edit, Store, Grounds, TypeOK
  <2>2. Standing(n)' \in {Standing(n), None}
    BY <1>1, <2>1 DEF Standing, Ready
  <2> QED
    BY <1>1, <2>1, <2>2, StepWithdraws DEF Edit
<1>2. ASSUME NEW n \in Names, NEW label \in Labels, Relabel(n, label)
      PROVE  [Governed!Next]_(Governed!vars)
  <2> DEFINE new == [obj[n] EXCEPT !.label = label]
  <2>1. obj[n] # Gone /\ obj[n] \in Objects(n)
    BY <1>2 DEF Relabel, Grounds, TypeOK
  <2>2. /\ new.reason = obj[n].reason /\ new.spec = obj[n].spec
        /\ new.observed = obj[n].observed
    BY <2>1 DEF Objects
  <2> QED
    BY <1>1, <1>2, <2>1, <2>2 DEF Relabel
<1>3. ASSUME NEW n \in Names, NEW spec \in Specs(n), EditSpec(n, spec)
      PROVE  [Governed!Next]_(Governed!vars)
  <2> DEFINE new == [obj[n] EXCEPT !.spec = spec, !.observed = FALSE]
  <2>1. ~new.observed
    BY <1>3 DEF EditSpec, Grounds, TypeOK, Objects
  <2> QED
    BY <1>1, <1>3, <2>1 DEF EditSpec
<1>4. ASSUME NEW n \in Names, NEW spec \in Specs(n), NEW label \in Labels,
             Create(n, label, spec)
      PROVE  [Governed!Next]_(Governed!vars)
  <2>1. ~New(label, spec).observed
    BY DEF New
  <2> QED
    BY <1>1, <1>4, <2>1 DEF Create
<1>5. ASSUME NEW n \in Names, Delete(n) PROVE [Governed!Next]_(Governed!vars)
  BY <1>1, <1>5 DEF Delete
<1>6. ASSUME UNCHANGED <<obj, history>> PROVE [Governed!Next]_(Governed!vars)
  BY <1>0, <1>6 DEF history, Governed!vars
<1>7. ASSUME NEW a \in Agents, Admit(a) PROVE [Governed!Next]_(Governed!vars)
  <2>1. a \in Names /\ cache[a] \in Objects(a) /\ Specs(a) = AgentSpecs
    BY <1>7, ReadinessAssumption
       DEF Admit, validateReferences, Grounds, TypeOK, Names, Specs
  <2>2. cache[a].spec \in AgentSpecs
    BY <2>1 DEF Objects
  <2>3. cache[a].spec \in approved
    BY <1>7, <2>1 DEF Admit, validateReferences, Grounds, Grounded
  <2>4. standing' = standing
    BY <1>0, <1>7 DEF Admit, server
  <2>5. Governed!Admit(cache[a].spec)
    BY <1>7, <2>3, <2>4 DEF Admit, Governed!Admit
  <2> QED
    BY <2>2, <2>5 DEF Governed!Next
<1>8. ASSUME WriteStatus("policy") PROVE [Governed!Next]_(Governed!vars)
  <2> DEFINE w == worker["policy"]
  <2>1. w.name \in Policies /\ w.copy \in Objects(w.name)
    BY <1>8, WorkerHolds DEF WriteStatus, Grounds, Controllers, Handles
  <2>2. \A a \in Agents : obj'[a] = obj[a]
    BY <1>8, <2>1, ReadinessAssumption DEF WriteStatus, Store, Grounds, TypeOK, Names
  <2>3. standing' = standing
    BY <2>2 DEF Standing
  <2>4. CASE Active(w.copy)
    <3>1. w.copy.spec \in PolicySpecs
      BY <2>1 DEF Objects, Specs
    <3>2. Governed!Valid(w.copy.spec)
      BY <1>8, <2>4 DEF WriteStatus, Grounds, Pending, Controllers
    <3>3. activated' = activated \cup {w.copy.spec} /\ UNCHANGED <<approved, admitted>>
      BY <1>8, <2>4 DEF WriteStatus
    <3>4. Governed!Activate(w.copy.spec)
      BY <2>3, <3>2, <3>3 DEF Governed!Activate
    <3> QED
      BY <3>1, <3>4 DEF Governed!Next
  <2>5. CASE ~Active(w.copy)
    BY <1>8, <2>3, <2>5 DEF WriteStatus, Governed!vars
  <2> QED
    BY <2>4, <2>5
<1>9. ASSUME WriteStatus("agent") PROVE [Governed!Next]_(Governed!vars)
  <2> DEFINE w == worker["agent"]
  <2>1. w.name \in Agents /\ w.name \in Names /\ w.copy \in Objects(w.name)
    BY <1>9, WorkerHolds DEF WriteStatus, Grounds, Controllers, Handles, Names
  <2>2. \A m \in Names : obj'[m] = IF m = w.name THEN w.copy ELSE obj[m]
    BY <1>9 DEF WriteStatus, Store, Grounds, TypeOK
  <2>3. \A a \in Agents : a # w.name => Standing(a)' = Standing(a)
    BY <2>2 DEF Standing, Names
  <2>4. CASE Ready(w.copy)
    <3>1. w.copy.spec \in AgentSpecs
      BY <2>1, ReadinessAssumption DEF Objects, Specs
    <3>2. w.copy.observed /\ \E p \in activated : Governed!Permits(p, w.copy.spec)
      BY <1>9, <2>4 DEF WriteStatus, Grounds, Pending, Controllers
    <3>3. approved' = approved \cup {w.copy.spec} /\ UNCHANGED <<activated, admitted>>
      BY <1>9, <2>4 DEF WriteStatus
    <3>4. obj'[w.name] = w.copy
      BY <2>1, <2>2
    <3>5. standing' = [standing EXCEPT ![w.name] = w.copy.spec]
      <4>1. PICK n \in Agents : n = w.name
        BY <2>1
      <4>2. Standing(n)' = w.copy.spec
        BY <2>1, <2>4, <3>2, <3>4, <4>1, GoneAssumption DEF Standing, Ready
      <4> QED
        BY <2>3, <4>1, <4>2
    <3>6. Governed!Approve(w.name, w.copy.spec)
      BY <3>2, <3>3, <3>5 DEF Governed!Approve
    <3> QED
      BY <2>1, <3>1, <3>6 DEF Governed!Next
  <2>5. CASE ~Ready(w.copy)
    <3>1. PICK n \in Names : n = w.name
      BY <2>1
    <3>2. Standing(n)' = None
      BY <2>2, <2>5, <3>1 DEF Standing, Ready
    <3>3. UNCHANGED history
      BY <1>9, <2>5 DEF WriteStatus, history
    <3> QED
      BY <2>2, <3>1, <3>2, <3>3, StepWithdraws
  <2> QED
    BY <2>4, <2>5
<1> QED
  <2>1. CASE UNCHANGED vars
    BY <1>6, <2>1 DEF vars, server
  <2>2. CASE Next
    <3>1. ASSUME NEW label \in Labels, RelabelNamespace(label) PROVE UNCHANGED <<obj, history>>
      BY <3>1 DEF RelabelNamespace, history
    <3>2. ASSUME NEW n \in Names, Observe(n) PROVE UNCHANGED <<obj, history>>
      BY <3>2 DEF Observe, Follow, server
    <3>3. ASSUME NEW p \in Policies, ReconcilePolicy(p) PROVE UNCHANGED <<obj, history>>
      BY <3>3 DEF ReconcilePolicy, server
    <3>4. ASSUME NEW a \in Agents, ReconcileAgent(a) PROVE UNCHANGED <<obj, history>>
      BY <3>4 DEF ReconcileAgent, server
    <3>5. ASSUME ValidateAgent PROVE UNCHANGED <<obj, history>>
      BY <3>5 DEF ValidateAgent, server
    <3>6. ASSUME PolicyLookupFails \/ \E k \in Controllers : WriteFails(k)
          PROVE  UNCHANGED <<obj, history>>
      BY <3>6 DEF PolicyLookupFails, WriteFails, Fail, server
    <3>7. ASSUME Restart PROVE UNCHANGED <<obj, history>>
      BY <3>7 DEF Restart, server
    <3>8. ASSUME SilentFailures PROVE UNCHANGED <<obj, history>>
      BY <3>8 DEF SilentFailures, AgentNamespaceUnread, PolicyNamespaceUnread,
         ObserveUnlisted, Follow, server
    <3> QED
      BY <1>2, <1>3, <1>4, <1>5, <1>6, <1>7, <1>8, <1>9, <2>2, <3>1, <3>2, <3>3, <3>4,
         <3>5, <3>6, <3>7, <3>8 DEF Next, Users, System, Work, Controllers
  <2> QED
    BY <2>1, <2>2

\* The controllers implement Governance: no run is projected from an Agent spec
\* that was never approved, none is approved under a policy that was never
\* active, and only valid policies become active, whatever the caches show, in
\* whatever order edits, events, failures and writes come.
THEOREM GovernanceImplemented == Spec => ImplementsGovernance
<1>1. Init => Governed!Init
  <2> SUFFICES ASSUME Init PROVE Governed!Init
    OBVIOUS
  <2>1. \A a \in Agents : Standing(a) = None
    <3>1. ASSUME NEW label, NEW spec PROVE ~New(label, spec).observed
      BY DEF New
    <3>2. \A a \in Agents : obj[a] \in Applied(a) \cup {Gone}
      BY DEF Init, Names
    <3> QED
      BY <3>1, <3>2 DEF Applied, Standing
  <2> QED
    BY <2>1 DEF Init, Governed!Init
<1> QED
  BY <1>1, GroundsInit, GroundsStep, GovernanceStep, PTL
     DEF Spec, ImplementsGovernance, Governed!Spec

-----------------------------------------------------------------------------
(***************************************************************************)
(* No update is lost.  A status that is out of date is owed to an object:  *)
(* its cached version is old, or it is queued, or a reconcile of it is     *)
(* under way, or the policy it was judged by has an event on the way.      *)
(***************************************************************************)
\* Nothing is under way for the object, and it has missed nothing.
Resting(k, n) ==
    /\ n \notin missed
    /\ n \in current
    /\ n \notin queue
    /\ worker[k].name # n
    /\ obj[n] # Gone

PolicySettled(p) == obj[p].observed = TRUE /\ obj[p].reason = validateTenantPolicy(obj[p])
AgentSettled(a) == obj[a].observed = TRUE /\ obj[a].reason = validate(obj[a], obj)

CacheFollows == \A n \in current : cache[n] = obj[n]

\* A verdict is pronounced on the cached version, or the Agent is queued again.
CopyIsCached ==
    worker["agent"].at = "validate" /\ worker["agent"].name \notin queue =>
        worker["agent"].copy = cache[worker["agent"].name]

PoliciesSettled == \A p \in Policies : Resting("policy", p) => PolicySettled(p)

AgentsSettled == \A a \in Agents :
    Resting("agent", a) /\ obj[a].spec.policyRef \in current \cup {None} => AgentSettled(a)

Owed == TypeOK /\ CacheFollows /\ CopyIsCached /\ PoliciesSettled /\ AgentsSettled

\* Facts about names that the steps below rest on.
LEMMA NameFacts ==
    ASSUME TypeOK
    PROVE  /\ \A n \in Names : n # None
           /\ Idle.at = "idle" /\ Idle.name = None
           /\ \A p \in Policies : p \in Names /\ p \notin Agents
           /\ \A a \in Agents : a \in Names /\ a \notin Policies
           /\ \A k \in Controllers : worker[k].at # "idle" => worker[k].name \in Handles(k)
<1>1. \A k \in Controllers : worker[k].at # "idle" => worker[k].name \in Handles(k)
  BY WorkerHolds
<1> QED
  BY <1>1, ReadinessAssumption DEF Names, Idle

\* An Agent names a policy or none.
LEMMA PolicyRefType ==
    ASSUME TypeOK, NEW a \in Agents, obj[a] # Gone
    PROVE  obj[a].spec.policyRef \in Policies \cup {None}
<1>1. obj[a] \in Objects(a) /\ Specs(a) = AgentSpecs
  BY ReadinessAssumption DEF TypeOK, Names, Specs
<1>2. obj[a].spec \in AgentSpec
  BY <1>1, ReadinessAssumption DEF Objects
<1> QED
  BY <1>2 DEF AgentSpec

LEMMA KeepPolicySettled ==
    ASSUME NEW p, PolicySettled(p), namespace' = namespace, obj'[p] = obj[p]
    PROVE  PolicySettled(p)'
<1> PICK o : o = obj[p]
  OBVIOUS
<1>1. validateTenantPolicy(o)' = validateTenantPolicy(o)
  BY DEF validateTenantPolicy, Bound
<1>2. validateTenantPolicy(obj[p])' = validateTenantPolicy(o)'
  BY DEF validateTenantPolicy, Bound
<1> QED
  BY <1>1, <1>2 DEF PolicySettled

LEMMA KeepAgentSettled ==
    ASSUME NEW a, AgentSettled(a), namespace' = namespace, obj'[a] = obj[a],
           obj[a].spec.policyRef # None => obj'[obj[a].spec.policyRef] = obj[obj[a].spec.policyRef]
    PROVE  AgentSettled(a)'
<1> PICK o : o = obj[a]
  OBVIOUS
<1>1. ASSUME NEW policy
      PROVE  Judge(o, policy)' = Judge(o, policy) /\ Bound(o)' = Bound(o)
  BY DEF Judge, Bound
<1>2. validate(obj[a], obj)' = validate(obj[a], obj)
  BY <1>1 DEF validate
<1> QED
  BY <1>2 DEF AgentSettled

\* A step keeps the verdicts if what rests after it was resting before it and
\* is the same object, judged by the same policy.
LEMMA KeepSettled ==
    ASSUME TypeOK, PoliciesSettled, AgentsSettled, namespace' = namespace,
           \A p \in Policies : Resting("policy", p)' =>
               \/ Resting("policy", p) /\ obj'[p] = obj[p]
               \/ PolicySettled(p)',
           \A a \in Agents : Resting("agent", a)' /\ obj'[a].spec.policyRef \in current' \cup {None} =>
               \/ /\ Resting("agent", a) /\ obj'[a] = obj[a]
                  /\ obj[a].spec.policyRef # None =>
                         /\ obj[a].spec.policyRef \in current
                         /\ obj'[obj[a].spec.policyRef] = obj[obj[a].spec.policyRef]
               \/ AgentSettled(a)'
    PROVE  PoliciesSettled' /\ AgentsSettled'
<1>1. PoliciesSettled'
  <2> SUFFICES ASSUME NEW p \in Policies, Resting("policy", p)' PROVE PolicySettled(p)'
    BY DEF PoliciesSettled
  <2> QED
    BY KeepPolicySettled DEF PoliciesSettled
<1>2. AgentsSettled'
  <2> SUFFICES ASSUME NEW a \in Agents, Resting("agent", a)',
                      obj'[a].spec.policyRef \in current' \cup {None}
               PROVE  AgentSettled(a)'
    BY DEF AgentsSettled
  <2> QED
    BY KeepAgentSettled DEF AgentsSettled
<1> QED
  BY <1>1, <1>2

\* An edit makes the cached version of its object old.
LEMMA EditOwed ==
    ASSUME Owed, TypeOK', NEW n \in Names, NEW new, Edit(n, new)
    PROVE  Owed'
<1> USE DEF Owed
<1>1. /\ current' = current \ {n} /\ cache' = cache /\ queue' = queue
      /\ namespace' = namespace /\ missed' = missed
      /\ \A m \in Names \ {n} : obj'[m] = obj[m]
  BY DEF Edit, Store, TypeOK
<1>2. \A k \in Controllers : /\ worker'[k].at = worker[k].at /\ worker'[k].name = worker[k].name
                             /\ worker'[k].copy = worker[k].copy
  <2> TAKE k \in Controllers
  <2>1. CASE worker[k].name = n
    <3>1. worker'[k] = [worker[k] EXCEPT !.current = FALSE]
      BY <2>1 DEF Edit
    <3>2. worker[k].at # "idle"
      BY <2>1, ReadinessAssumption DEF TypeOK, Workers, Idle
    <3>3. worker[k] \in [at : {"validate", "write"}, name : {n}, copy : Objects(n), current : BOOLEAN]
      BY <2>1, <3>2 DEF TypeOK, Workers, Idle
    <3> QED
      BY <3>1, <3>3
  <2>2. CASE worker[k].name # n
    BY <2>2 DEF Edit
  <2> QED
    BY <2>1, <2>2
<1>3. "policy" \in Controllers /\ "agent" \in Controllers /\ current \subseteq Names
  BY DEF Controllers, TypeOK
<1>4. CacheFollows'
  BY <1>1, <1>3 DEF CacheFollows
<1>5. CopyIsCached'
  BY <1>1, <1>2, <1>3 DEF CopyIsCached
<1>6. PoliciesSettled' /\ AgentsSettled'
  <2>1. \A p \in Policies : Resting("policy", p)' => Resting("policy", p) /\ obj'[p] = obj[p]
    BY <1>1, <1>2, <1>3 DEF Resting
  <2>2. \A a \in Agents : Resting("agent", a)' => Resting("agent", a) /\ obj'[a] = obj[a]
    BY <1>1, <1>2, <1>3 DEF Resting
  <2>3. \A m \in current' : m \in current /\ obj'[m] = obj[m]
    BY <1>1, <1>3
  <2> QED
    BY <1>1, <2>1, <2>2, <2>3, KeepSettled
<1> QED
  BY <1>4, <1>5, <1>6

\* A watch event queues its object, and the Agents that a policy is about
\* unless they miss it.
LEMMA FollowOwed ==
    ASSUME Owed, TypeOK', NEW n \in Names, NEW requests, Follow(n, requests),
           missed \subseteq missed',
           n \in Policies => agentsForPolicy(n) \subseteq queue' \cup missed'
    PROVE  Owed'
<1> USE DEF Owed
<1>1. /\ current' = current \cup {n} /\ queue \subseteq queue' /\ n \in queue'
      /\ worker' = worker /\ obj' = obj /\ namespace' = namespace
      /\ cache'[n] = obj[n] /\ \A m \in Names \ {n} : cache'[m] = cache[m]
  BY DEF Follow, server, TypeOK
<1>2. current \subseteq Names
  BY DEF TypeOK
<1>3. CacheFollows'
  BY <1>1, <1>2 DEF CacheFollows
<1>4. CopyIsCached'
  <2> SUFFICES ASSUME worker["agent"].at = "validate", worker["agent"].name \notin queue'
               PROVE  worker["agent"].copy = cache'[worker["agent"].name]
    BY <1>1 DEF CopyIsCached
  <2>1. worker["agent"].name \in Names /\ worker["agent"].name # n
    BY <1>1, NameFacts DEF Controllers, Handles
  <2> QED
    BY <1>1, <2>1 DEF CopyIsCached
<1>5. PoliciesSettled' /\ AgentsSettled'
  <2>1. \A p \in Policies : Resting("policy", p)' => Resting("policy", p) /\ obj'[p] = obj[p]
    BY <1>1 DEF Resting
  <2>2. \A a \in Agents : Resting("agent", a)' => Resting("agent", a) /\ obj'[a] = obj[a]
    BY <1>1 DEF Resting
  <2>3. ASSUME NEW a \in Agents, Resting("agent", a)', obj[a].spec.policyRef # None,
               obj[a].spec.policyRef \in current' \cup {None}
        PROVE  obj[a].spec.policyRef \in current
    <3>1. a \in current /\ a \notin queue' \cup missed' /\ obj[a] # Gone
      BY <2>2, <2>3, <1>1 DEF Resting
    <3>2. obj[a].spec.policyRef \in Policies
      BY <2>3, <3>1, PolicyRefType
    <3>3. n \in Policies => obj[a].spec.policyRef # n
      BY <1>1, <3>1 DEF CacheFollows, agentsForPolicy
    <3> QED
      BY <1>1, <2>3, <3>2, <3>3
  <2> QED
    BY <1>1, <2>1, <2>2, <2>3, KeepSettled
<1> QED
  BY <1>3, <1>4, <1>5

LEMMA ObserveOwed ==
    ASSUME Owed, TypeOK', NEW n \in Names, Observe(n)
    PROVE  Owed'
<1> PICK requests : requests = IF n \in Policies THEN agentsForPolicy(n) ELSE {}
  OBVIOUS
<1>1. Follow(n, requests) /\ missed \subseteq missed'
  BY DEF Observe
<1>2. n \in Policies => agentsForPolicy(n) \subseteq queue' \cup missed'
  BY <1>1 DEF Follow
<1> QED
  BY ONLY Owed, TypeOK', n \in Names, <1>1, <1>2, FollowOwed

LEMMA ObserveUnlistedOwed ==
    ASSUME Owed, TypeOK', NEW p \in Policies, ObserveUnlisted(p)
    PROVE  Owed'
<1>1. p \in Names /\ Follow(p, {}) /\ missed \subseteq missed'
  BY DEF ObserveUnlisted, Names
<1>2. p \in Policies => agentsForPolicy(p) \subseteq queue' \cup missed'
  BY DEF ObserveUnlisted
<1> QED
  BY ONLY Owed, TypeOK', <1>1, <1>2, FollowOwed

\* A reconcile that has nothing to write found the verdict on its copy there.
LEMMA ReportOutcome ==
    ASSUME TypeOK, NEW k \in Controllers, NEW n \in Handles(k), NEW copy \in Objects(n),
           NEW isCurrent, NEW reason, Report(k, n, copy, isCurrent, reason)
    PROVE  /\ \A j \in Controllers \ {k} : worker'[j] = worker[j]
           /\ \/ worker'[k] = Idle /\ copy.observed = TRUE /\ copy.reason = reason
              \/ worker'[k].at = "write" /\ worker'[k].name = n
<1> DEFINE new == [copy EXCEPT !.reason = reason, !.observed = TRUE]
           w == [at |-> "write", name |-> n, copy |-> new, current |-> isCurrent]
<1>1. new.observed = TRUE /\ new.reason = reason
  BY DEF Objects
<1>2. w.at = "write" /\ w.name = n
  OBVIOUS
<1>3. worker' = [worker EXCEPT ![k] = IF new = copy THEN Idle ELSE w]
  BY DEF Report
<1> HIDE DEF w, new
<1>4. worker'[k] = (IF new = copy THEN Idle ELSE w) /\ \A j \in Controllers \ {k} : worker'[j] = worker[j]
  BY <1>3 DEF TypeOK
<1> QED
  BY <1>1, <1>2, <1>4

LEMMA ReconcilePolicyOwed ==
    ASSUME Owed, TypeOK', NEW p \in Policies, ReconcilePolicy(p)
    PROVE  Owed'
<1> USE DEF Owed
<1>1. /\ worker["policy"] = Idle /\ queue' = queue \ {p}
      /\ UNCHANGED <<obj, cache, current, namespace>> /\ missed' = missed \ {p}
      /\ "policy" \in Controllers /\ "agent" \in Controllers
  BY DEF ReconcilePolicy, Take, server, Controllers
<1>2. /\ worker'["agent"] = worker["agent"]
      /\ p \in current /\ obj[p] # Gone =>
             \/ PolicySettled(p)'
             \/ worker'["policy"].name = p
  <2>1. CASE cache[p] = Gone
    BY <1>1, <2>1 DEF ReconcilePolicy, CacheFollows
  <2>2. CASE cache[p] # Gone
    <3>1. cache[p] \in Objects(p) /\ p \in Handles("policy")
      BY <2>2 DEF TypeOK, Names, Handles
    <3> PICK fresh : fresh = (p \in current)
      OBVIOUS
    <3> PICK verdict : verdict = validateTenantPolicy(cache[p])
      OBVIOUS
    <3> PICK copy : copy = cache[p]
      OBVIOUS
    <3>2. TypeOK /\ copy \in Objects(p) /\ Report("policy", p, copy, fresh, verdict)
      BY <2>2, <3>1 DEF ReconcilePolicy
    <3>3. /\ \A j \in Controllers \ {"policy"} : worker'[j] = worker[j]
          /\ \/ worker'["policy"] = Idle /\ copy.observed = TRUE /\ copy.reason = verdict
             \/ worker'["policy"].at = "write" /\ worker'["policy"].name = p
      <4>1. "policy" \in Controllers /\ p \in Handles("policy")
        BY <1>1, <3>1
      <4> QED
        BY ONLY <3>2, <4>1, ReportOutcome, ZenonT(60)
    <3>4. p \in current => cache[p] = obj'[p]
      BY <1>1 DEF CacheFollows
    <3>5. validateTenantPolicy(cache[p])' = validateTenantPolicy(cache[p]) /\ cache'[p] = cache[p]
      BY <1>1 DEF validateTenantPolicy, Bound
    <3> QED
      BY <1>1, <3>3, <3>4, <3>5 DEF PolicySettled
  <2> QED
    BY <2>1, <2>2
<1>3. CacheFollows'
  BY <1>1 DEF CacheFollows
<1>4. CopyIsCached'
  <2>1. worker["agent"].at = "validate" => worker["agent"].name # p
    BY <1>1, NameFacts DEF Handles
  <2> QED
    BY <1>1, <1>2, <2>1 DEF CopyIsCached
<1>5. PoliciesSettled' /\ AgentsSettled'
  <2>1. ASSUME NEW q \in Policies, Resting("policy", q)'
        PROVE  Resting("policy", q) \/ PolicySettled(q)'
    <3>1. CASE q = p
      BY <1>1, <1>2, <2>1, <3>1 DEF Resting
    <3>2. CASE q # p
      BY <1>1, <2>1, <3>2, NameFacts DEF Resting
    <3> QED
      BY <3>1, <3>2
  <2>2. \A a \in Agents : Resting("agent", a)' => Resting("agent", a)
    BY <1>1, <1>2, NameFacts DEF Resting
  <2> QED
    BY <1>1, <2>1, <2>2, KeepSettled
<1> QED
  BY <1>3, <1>4, <1>5

LEMMA ReconcileAgentOwed ==
    ASSUME Owed, TypeOK', NEW a \in Agents, ReconcileAgent(a)
    PROVE  Owed'
<1> USE DEF Owed
<1>1. /\ worker["agent"] = Idle /\ queue' = queue \ {a}
      /\ UNCHANGED <<obj, cache, current, namespace, missed>>
      /\ "policy" \in Controllers /\ "agent" \in Controllers
  BY DEF ReconcileAgent, Take, server, Controllers
<1>2. /\ worker'["policy"] = worker["policy"]
      /\ \/ cache[a] = Gone /\ worker'["agent"] = Idle
         \/ worker'["agent"].name = a /\ worker'["agent"].copy = cache[a]
  BY <1>1 DEF ReconcileAgent, TypeOK
<1>3. CacheFollows'
  BY <1>1 DEF CacheFollows
<1>4. CopyIsCached'
  BY <1>1, <1>2, NameFacts DEF CopyIsCached
<1>5. PoliciesSettled' /\ AgentsSettled'
  <2>1. \A p \in Policies : Resting("policy", p)' => Resting("policy", p)
    BY <1>1, <1>2, NameFacts DEF Resting
  <2>2. \A b \in Agents : Resting("agent", b)' => Resting("agent", b)
    BY <1>1, <1>2, NameFacts DEF Resting, CacheFollows
  <2> QED
    BY <1>1, <2>1, <2>2, KeepSettled
<1> QED
  BY <1>3, <1>4, <1>5

\* validate may see a policy newer than the Agent it is about, and a policy
\* older than the one that is stored; in either case an event is on its way.
LEMMA ValidateAgentOwed ==
    ASSUME Owed, TypeOK', ValidateAgent
    PROVE  Owed'
<1> USE DEF Owed
<1>0. worker["agent"].at = "validate" /\ worker["agent"].name \in Agents
  BY NameFacts DEF ValidateAgent, Controllers, Handles
<1> PICK a \in Agents : a = worker["agent"].name
  BY <1>0
<1> PICK o : o = worker["agent"].copy
  OBVIOUS
<1> PICK fresh : fresh = worker["agent"].current
  OBVIOUS
<1> PICK verdict : verdict = validate(o, cache)
  OBVIOUS
<1>1. /\ worker["agent"].at = "validate"
      /\ UNCHANGED <<obj, cache, current, queue, namespace>> /\ missed' = missed \ {a}
      /\ "policy" \in Controllers /\ "agent" \in Controllers
      /\ Report("agent", a, o, fresh, verdict)
  BY DEF ValidateAgent, server, Controllers
<1>2. a \in Handles("agent") /\ o \in Objects(a)
  BY <1>1, WorkerHolds
<1>3. /\ \A j \in Controllers \ {"agent"} : worker'[j] = worker[j]
      /\ \/ worker'["agent"] = Idle /\ o.observed = TRUE /\ o.reason = verdict
         \/ worker'["agent"].at = "write" /\ worker'["agent"].name = a
  <2>1. TypeOK /\ "agent" \in Controllers /\ a \in Handles("agent") /\ o \in Objects(a)
    BY <1>1, <1>2
  <2>2. Report("agent", a, o, fresh, verdict)
    BY <1>1
  <2> QED
    BY ONLY <2>1, <2>2, ReportOutcome, ZenonT(60)
<1>4. CacheFollows'
  BY <1>1 DEF CacheFollows
<1>5. CopyIsCached'
  BY <1>3, NameFacts DEF CopyIsCached
<1>6. ASSUME Resting("agent", a)', obj[a].spec.policyRef \in current \cup {None}
      PROVE  AgentSettled(a)'
  <2>1. a \in current /\ a \notin queue /\ obj[a] # Gone /\ worker'["agent"].name # a
    BY <1>1, <1>6 DEF Resting
  <2>2. o = obj[a]
    BY <1>1, <2>1 DEF CopyIsCached, CacheFollows
  <2>3. o.observed = TRUE /\ o.reason = validate(o, cache)
    BY <1>3, <2>1
  <2>4. o.spec.policyRef # None => cache[o.spec.policyRef] = obj[o.spec.policyRef]
    BY <1>6, <2>2 DEF CacheFollows
  <2>5. validate(o, cache) = validate(o, obj)
    BY <2>4 DEF validate
  <2>6. AgentSettled(a)
    BY <2>2, <2>3, <2>5 DEF AgentSettled
  <2> QED
    BY <1>1, <2>6, KeepAgentSettled
<1>7. PoliciesSettled' /\ AgentsSettled'
  <2>1. \A p \in Policies : Resting("policy", p)' => Resting("policy", p)
    BY <1>1, <1>3, NameFacts DEF Resting
  <2>2. \A b \in Agents \ {a} : Resting("agent", b)' => Resting("agent", b)
    BY <1>1 DEF Resting
  <2> QED
    BY <1>1, <1>6, <2>1, <2>2, KeepSettled
<1> QED
  BY <1>4, <1>5, <1>7

\* A failed read of the Namespace is about to be written, or was written before.
LEMMA UnreadOutcome ==
    ASSUME TypeOK, NEW k \in Controllers, NEW n \in Handles(k), NEW copy \in Objects(n),
           NEW isCurrent, ReportUnread(k, n, copy, isCurrent)
    PROVE  /\ \A j \in Controllers \ {k} : worker'[j] = worker[j]
           /\ missed \subseteq missed'
           /\ \/ worker'[k] = Idle /\ n \in missed'
              \/ worker'[k].at = "write" /\ worker'[k].name = n
<1>1. Report(k, n, copy, isCurrent, "NamespaceUnread") /\ missed \subseteq missed'
  BY DEF ReportUnread
<1> PICK reason : reason = "NamespaceUnread"
  OBVIOUS
<1>2. Report(k, n, copy, isCurrent, reason)
  BY <1>1
<1>3. /\ \A j \in Controllers \ {k} : worker'[j] = worker[j]
      /\ \/ worker'[k] = Idle /\ copy.observed = TRUE /\ copy.reason = reason
         \/ worker'[k].at = "write" /\ worker'[k].name = n
  <2>1. TypeOK /\ k \in Controllers /\ n \in Handles(k) /\ copy \in Objects(n)
    OBVIOUS
  <2> QED
    BY ONLY <2>1, <1>2, ReportOutcome, ZenonT(60)
<1>4. copy.observed = TRUE /\ copy.reason = reason => n \in missed'
  BY DEF ReportUnread
<1> QED
  BY <1>1, <1>3, <1>4

LEMMA PolicyUnreadOwed ==
    ASSUME Owed, TypeOK', NEW p \in Policies, PolicyNamespaceUnread(p)
    PROVE  Owed'
<1> USE DEF Owed
<1>1. /\ worker["policy"] = Idle /\ queue' = queue \ {p} /\ cache[p] # Gone
      /\ UNCHANGED <<obj, cache, current, namespace>>
      /\ "policy" \in Controllers /\ "agent" \in Controllers
  BY DEF PolicyNamespaceUnread, Take, server, Controllers
<1> PICK fresh : fresh = (p \in current)
  OBVIOUS
<1> PICK copy : copy = cache[p]
  OBVIOUS
<1>2. /\ worker'["agent"] = worker["agent"] /\ missed \subseteq missed'
      /\ p \in missed' \/ worker'["policy"].name = p
  <2>1. TypeOK /\ "policy" \in Controllers /\ p \in Handles("policy") /\ copy \in Objects(p)
    BY <1>1 DEF TypeOK, Names, Handles
  <2>2. ReportUnread("policy", p, copy, fresh)
    BY DEF PolicyNamespaceUnread
  <2>3. /\ \A j \in Controllers \ {"policy"} : worker'[j] = worker[j]
        /\ missed \subseteq missed'
        /\ \/ worker'["policy"] = Idle /\ p \in missed'
           \/ worker'["policy"].at = "write" /\ worker'["policy"].name = p
    BY ONLY <2>1, <2>2, UnreadOutcome, ZenonT(60)
  <2> QED
    BY <1>1, <2>3
<1>3. CacheFollows'
  BY <1>1 DEF CacheFollows
<1>4. CopyIsCached'
  <2>1. worker["agent"].at = "validate" => worker["agent"].name # p
    BY <1>1, NameFacts DEF Handles
  <2> QED
    BY <1>1, <1>2, <2>1 DEF CopyIsCached
<1>5. PoliciesSettled' /\ AgentsSettled'
  <2>1. \A q \in Policies : Resting("policy", q)' => Resting("policy", q)
    BY <1>1, <1>2, NameFacts DEF Resting
  <2>2. \A a \in Agents : Resting("agent", a)' => Resting("agent", a)
    BY <1>1, <1>2, NameFacts DEF Resting
  <2> QED
    BY <1>1, <2>1, <2>2, KeepSettled
<1> QED
  BY <1>3, <1>4, <1>5

LEMMA AgentUnreadOwed ==
    ASSUME Owed, TypeOK', AgentNamespaceUnread
    PROVE  Owed'
<1> USE DEF Owed
<1>0. worker["agent"].at = "validate" /\ worker["agent"].name \in Agents
  BY NameFacts DEF AgentNamespaceUnread, Controllers, Handles
<1> PICK a \in Agents : a = worker["agent"].name
  BY <1>0
<1> PICK o : o = worker["agent"].copy
  OBVIOUS
<1> PICK fresh : fresh = worker["agent"].current
  OBVIOUS
<1>1. /\ UNCHANGED <<obj, cache, current, queue, namespace>>
      /\ "policy" \in Controllers /\ "agent" \in Controllers
  BY DEF AgentNamespaceUnread, server, Controllers
<1>2. /\ worker'["policy"] = worker["policy"] /\ missed \subseteq missed'
      /\ \/ worker'["agent"] = Idle /\ a \in missed'
         \/ worker'["agent"].at = "write" /\ worker'["agent"].name = a
  <2>1. TypeOK /\ "agent" \in Controllers /\ a \in Handles("agent") /\ o \in Objects(a)
    BY <1>0, <1>1, WorkerHolds
  <2>2. ReportUnread("agent", a, o, fresh)
    BY DEF AgentNamespaceUnread
  <2>3. /\ \A j \in Controllers \ {"agent"} : worker'[j] = worker[j]
        /\ missed \subseteq missed'
        /\ \/ worker'["agent"] = Idle /\ a \in missed'
           \/ worker'["agent"].at = "write" /\ worker'["agent"].name = a
    BY ONLY <2>1, <2>2, UnreadOutcome, ZenonT(60)
  <2> QED
    BY <1>1, <2>3
<1>3. CacheFollows'
  BY <1>1 DEF CacheFollows
<1>4. CopyIsCached'
  BY <1>2, NameFacts DEF CopyIsCached
<1>5. PoliciesSettled' /\ AgentsSettled'
  <2>1. \A p \in Policies : Resting("policy", p)' => Resting("policy", p)
    BY <1>1, <1>2 DEF Resting
  <2>2. \A b \in Agents : Resting("agent", b)' => Resting("agent", b)
    BY <1>1, <1>2, NameFacts DEF Resting
  <2> QED
    BY <1>1, <2>1, <2>2, KeepSettled
<1> QED
  BY <1>3, <1>4, <1>5

\* A status that is written makes the cached version old.
LEMMA WriteStatusOwed ==
    ASSUME Owed, TypeOK', NEW k \in Controllers, WriteStatus(k)
    PROVE  Owed'
<1> USE DEF Owed
<1> DEFINE n == worker[k].name
<1>1. /\ worker[k].at = "write" /\ worker'[k] = Idle
      /\ \A j \in Controllers \ {k} : worker'[j] = worker[j]
      /\ current' = current \ {n} /\ \A m \in Names \ {n} : obj'[m] = obj[m]
      /\ UNCHANGED <<cache, queue, namespace, missed>>
  BY DEF WriteStatus, Store, TypeOK
<1>2. /\ n \in Handles(k) /\ n \in Names /\ current \subseteq Names
      /\ "policy" \in Controllers /\ "agent" \in Controllers
  BY <1>1, NameFacts, HandledNames DEF TypeOK, Controllers
<1> HIDE DEF n
<1>3. CacheFollows'
  BY <1>1, <1>2 DEF CacheFollows
<1>4. CopyIsCached'
  <2>1. CASE k = "agent"
    BY <1>1, <2>1, NameFacts DEF CopyIsCached
  <2>2. CASE k # "agent"
    BY <1>1, <1>2, <2>2 DEF CopyIsCached
  <2> QED
    BY <2>1, <2>2
<1>5. PoliciesSettled' /\ AgentsSettled'
  <2>1. ASSUME NEW j \in Controllers, NEW m \in Names, Resting(j, m)'
        PROVE  Resting(j, m) /\ obj'[m] = obj[m]
    <3>1. m # n
      BY <1>1, <2>1 DEF Resting
    <3>2. worker[j].name # m
      BY <1>1, <2>1, <3>1 DEF Resting, n
    <3> QED
      BY <1>1, <2>1, <3>1, <3>2 DEF Resting
  <2>2. \A m \in current' : m \in current /\ obj'[m] = obj[m]
    BY <1>1, <1>2
  <2> QED
    BY <1>1, <1>2, <2>1, <2>2, NameFacts, KeepSettled
<1> QED
  BY <1>3, <1>4, <1>5

\* An error queues the object again.
LEMMA FailOwed ==
    ASSUME Owed, TypeOK', NEW k \in Controllers, Fail(k)
    PROVE  Owed'
<1> USE DEF Owed
<1>1. /\ worker'[k] = Idle /\ \A j \in Controllers \ {k} : worker'[j] = worker[j]
      /\ queue' = queue \cup {worker[k].name}
      /\ UNCHANGED <<obj, cache, current, namespace, missed>>
      /\ "policy" \in Controllers /\ "agent" \in Controllers
  BY DEF Fail, server, TypeOK, Controllers
<1>2. CacheFollows'
  BY <1>1 DEF CacheFollows
<1>3. CopyIsCached'
  BY <1>1, NameFacts DEF CopyIsCached
<1>4. PoliciesSettled' /\ AgentsSettled'
  <2>1. \A j \in Controllers, m \in Names : Resting(j, m)' => Resting(j, m)
    BY <1>1 DEF Resting
  <2> QED
    BY <1>1, <2>1, NameFacts, KeepSettled
<1> QED
  BY <1>2, <1>3, <1>4

LEMMA OwedInit == Init => Owed
<1> SUFFICES ASSUME Init PROVE Owed
  OBVIOUS
<1>1. TypeOK
  BY TypeInit
<1>2. CacheFollows /\ CopyIsCached
  BY DEF Init, CacheFollows, CopyIsCached, Idle, Controllers
<1>3. PoliciesSettled /\ AgentsSettled
  BY DEF Init, PoliciesSettled, AgentsSettled, Resting
<1> QED
  BY <1>1, <1>2, <1>3 DEF Owed

LEMMA OwedStep == Owed /\ [Next]_vars => Owed'
<1> SUFFICES ASSUME Owed, [Next]_vars PROVE Owed'
  OBVIOUS
<1> USE DEF Owed
<1>0. TypeOK'
  BY TypeStep
<1>1. CASE Users
  <2>1. ASSUME NEW label \in Labels, RelabelNamespace(label) PROVE Owed'
    <3>1. UNCHANGED <<obj, cache, current, queue, worker>> /\ missed' = Names
      BY <2>1 DEF RelabelNamespace
    <3>2. CacheFollows' /\ CopyIsCached'
      BY <3>1 DEF CacheFollows, CopyIsCached
    <3> QED
      BY <1>0, <3>1, <3>2, NameFacts DEF PoliciesSettled, AgentsSettled, Resting
  <2> QED
    BY <1>0, <1>1, <2>1, EditOwed DEF Users, Relabel, EditSpec, Create, Delete
<1>2. ASSUME UNCHANGED <<obj, cache, current, queue, worker, namespace, missed>> PROVE Owed'
  <2>1. CacheFollows' /\ CopyIsCached'
    BY <1>2 DEF CacheFollows, CopyIsCached
  <2>2. PoliciesSettled' /\ AgentsSettled'
    <3>1. \A j \in Controllers, m \in Names : Resting(j, m)' => Resting(j, m)
      BY <1>2 DEF Resting
    <3> QED
      BY <1>2, <3>1, NameFacts, KeepSettled DEF Controllers
  <2> QED
    BY <1>0, <2>1, <2>2
<1>3. CASE Work
  BY <1>0, <1>3, ReconcilePolicyOwed, ReconcileAgentOwed, ValidateAgentOwed, WriteStatusOwed DEF Work
<1>4. CASE PolicyLookupFails \/ \E k \in Controllers : WriteFails(k)
  BY <1>0, <1>4, FailOwed DEF PolicyLookupFails, WriteFails, Controllers
<1>5. CASE \E a \in Agents : Admit(a)
  BY <1>2, <1>5 DEF Admit, server
<1>6. CASE Restart
  <2>1. CacheFollows' /\ CopyIsCached'
    BY <1>6 DEF Restart, CacheFollows, CopyIsCached, Idle, Controllers, server
  <2>2. \A n \in Names : obj'[n] # Gone => n \in queue'
    BY <1>6 DEF Restart, server
  <2>3. PoliciesSettled' /\ AgentsSettled'
    BY <2>2, NameFacts DEF PoliciesSettled, AgentsSettled, Resting
  <2> QED
    BY <1>0, <2>1, <2>3
<1>7. CASE UNCHANGED vars
  BY <1>2, <1>7 DEF vars, server
<1>8. CASE SilentFailures
  BY <1>0, <1>8, PolicyUnreadOwed, AgentUnreadOwed, ObserveUnlistedOwed DEF SilentFailures
<1> QED
  BY <1>0, <1>1, <1>3, <1>4, <1>5, <1>6, <1>7, <1>8, ObserveOwed DEF Next, System

\* No update gets lost: whenever the controllers have nothing left to do, every
\* status is the verdict on the objects as they are, a failed read of the Namespace
\* included, since the status that tells of it is an event.  The exceptions are
\* the names in missed: until they are judged again, all after a relabelling of the
\* Namespace, which no controller watches, those whose read failed twice in a
\* row, and the Agents of a policy whose event was lost with a failed List.
THEOREM NoUpdateLost == Spec => []QuietStatusIsCurrent
<1>1. Owed => QuietStatusIsCurrent
  <2> SUFFICES ASSUME Owed, Quiet, NEW n \in Names, n \notin missed, obj[n] # Gone
               PROVE  obj[n].observed = TRUE /\ obj[n].reason = Verdict(n)
    BY DEF QuietStatusIsCurrent, StatusIsCurrent
  <2> USE DEF Owed
  <2>1. \A k \in Controllers : Resting(k, n)
    BY NameFacts DEF Quiet, Resting
  <2>2. CASE n \in Policies
    BY <2>1, <2>2 DEF PoliciesSettled, PolicySettled, Verdict, Controllers
  <2>3. CASE n \notin Policies
    <3>1. n \in Agents
      BY <2>3 DEF Names
    <3>2. obj[n].spec.policyRef \in current \cup {None}
      BY <3>1, PolicyRefType DEF Quiet, Names
    <3> QED
      BY <2>1, <2>3, <3>1, <3>2 DEF AgentsSettled, AgentSettled, Verdict, Controllers
  <2> QED
    BY <2>2, <2>3
<1> QED
  BY <1>1, OwedInit, OwedStep, PTL DEF Spec

=============================================================================
