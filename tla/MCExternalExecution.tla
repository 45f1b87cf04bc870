------------------------- MODULE MCExternalExecution -------------------------
(***************************************************************************)
(* Instances of ExternalExecution for TLC: one workflow of independent     *)
(* steps, which the runtime may run in any order.                          *)
(*                                                                         *)
(* MCSpec leaves out what shows nothing new: requests that only read the   *)
(* run, and steps omitted from an answer about a run that goes on, since   *)
(* such a step might as well have moved after the answer.                  *)
(***************************************************************************)
EXTENDS ExternalExecution

D == INSTANCE DagOrder

Request == [p \in Positions |-> [node |-> p, deps |-> << >>]]

MCPlans == {"flat"}
MCOrder == [pl \in MCPlans |-> D!_topological_order(Request)]
MCDependsOn == [pl \in MCPlans |-> [p \in Positions |-> {}]]
MCMaxRetries == [pl \in MCPlans |-> [p \in Positions |-> 0]]

MCNext ==
    /\ Next
    /\ ~(handler.op = "idle" /\ handler'.op = "steps")
    /\ \A r \in RunIds, p \in Positions :
           snapshot'[r].steps[p] = "omitted" =>
               snapshot[r].steps[p] = "omitted" \/ ~ExtActive(r)'

MCSpec == Init /\ [][MCNext]_vars

=============================================================================
