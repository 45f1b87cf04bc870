----------------------------- MODULE Governance -----------------------------
(***************************************************************************)
(* What the TenantPolicy, Agent and AgentRun controllers promise together: *)
(* a run is projected only from an Agent spec that was approved, an Agent  *)
(* spec is approved only under a policy that was activated, and only a     *)
(* valid policy is activated.  Each promise is about the past: an edit may *)
(* overtake a decision, but no decision is made without its grounds.       *)
(***************************************************************************)
EXTENDS Integers, Sequences

CONSTANTS Agents,        \* names of Agents
          PolicySpecs,   \* specs of TenantPolicies
          AgentSpecs,    \* specs of Agents
          None

VARIABLES activated,     \* policy specs that have been active
          approved,      \* Agent specs that have been ready
          standing,      \* the approved spec each Agent has now, or None
          admitted       \* the Agent spec the last run was projected from

vars == <<activated, approved, standing, admitted>>

Entries(list) == {list[i] : i \in DOMAIN list}

Unique(list) == \A i, j \in DOMAIN list : list[i] = list[j] => i = j

Valid(p) ==
    /\ p.policyVersion
    /\ p.defaultDenyEgress
    /\ Entries(p.allowedModels) # {}
    /\ Unique(p.allowedModels) /\ Unique(p.allowedTools)

Permits(p, s) ==
    /\ s.model \in Entries(p.allowedModels)
    /\ Entries(s.tools) \subseteq Entries(p.allowedTools)

Init ==
    /\ activated = {}
    /\ approved = {}
    /\ standing = [a \in Agents |-> None]
    /\ admitted = None

Activate(p) ==
    /\ Valid(p)
    /\ activated' = activated \cup {p}
    /\ UNCHANGED <<approved, standing, admitted>>

Approve(a, s) ==
    /\ \E p \in activated : Permits(p, s)
    /\ approved' = approved \cup {s}
    /\ standing' = [standing EXCEPT ![a] = s]
    /\ UNCHANGED <<activated, admitted>>

Withdraw(a) ==
    /\ standing' = [standing EXCEPT ![a] = None]
    /\ UNCHANGED <<activated, approved, admitted>>

Admit(s) ==
    /\ s \in approved
    /\ admitted' = s
    /\ UNCHANGED <<activated, approved, standing>>

Next ==
    \/ \E p \in PolicySpecs : Activate(p)
    \/ \E a \in Agents, s \in AgentSpecs : Approve(a, s)
    \/ \E a \in Agents : Withdraw(a)
    \/ \E s \in AgentSpecs : Admit(s)

Spec == Init /\ [][Next]_vars

=============================================================================
