---------------------------- MODULE MCReadiness -----------------------------
(***************************************************************************)
(* One TenantPolicy and one Agent for TLC.  The Agent uses a tool that one *)
(* valid policy allows and one does not; the third policy allows it and is *)
(* not valid, because it lists a model twice.  The other spec of the Agent *)
(* names no policy.                                                        *)
(*                                                                         *)
(* What exists when the operator starts is labelled like the Namespace;    *)
(* other labels are edits.  There are at most MaxDisturbances disturbances *)
(* by users and silent failures, an edit counting for two; errors,         *)
(* conflicts and restarts are not counted.                                 *)
(***************************************************************************)
EXTENDS Readiness

CONSTANT MaxDisturbances   \* bound: edits and silent failures

VARIABLE failures          \* silent failures so far

Policy(models, tools) ==
    [policyVersion |-> TRUE, defaultDenyEgress |-> TRUE,
     allowedModels |-> models, allowedTools |-> tools]

MCPolicySpecs == {Policy(<<"m">>, << >>), Policy(<<"m">>, <<"t">>),
                  Policy(<<"m", "m">>, <<"t">>)}

Agent(tools) ==
    [projectID |-> TRUE, sandbox |-> TRUE, model |-> "m", tools |-> tools,
     policyRef |-> CHOOSE p \in Policies : TRUE]

MCAgentSpecs == {Agent(<<"t">>), [Agent(<<"t">>) EXCEPT !.policyRef = None]}

MCInit ==
    /\ Init
    /\ namespace \in Tenants
    /\ \A n \in Names : obj[n] # Gone => obj[n].label = namespace
    /\ failures = 0

MCNext ==
    \/ Users /\ 2 * edits' + failures <= MaxDisturbances /\ UNCHANGED failures
    \/ SilentFailures /\ failures' = failures + 1 /\ 2 * edits + failures' <= MaxDisturbances
    \/ System /\ UNCHANGED failures

MCFairSpec ==
    MCInit /\ [][MCNext]_<<vars, failures>> /\ Fairness /\ <>[][Undisturbed]_vars

=============================================================================
