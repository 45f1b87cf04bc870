----------------------- MODULE MCAgentRunOperatorLive -----------------------
(***************************************************************************)
(* An instance of AgentRunOperator for checking its liveness: the users    *)
(* make at most MaxEdits edits, at any time, and no run fails at the       *)
(* control plane, which to the controller is like one that succeeds.       *)
(* Everything else, failed calls and restarts included, happens as often   *)
(* as it likes.                                                            *)
(***************************************************************************)
EXTENDS MCAgentRunOperator

CONSTANT MaxEdits   \* bound: edits of the users

VARIABLE edits      \* edits made so far

MCInit == Init /\ edits = 0

MCNext ==
    \/ edits < MaxEdits /\ edits' = edits + 1 /\ \E c \in AgentRuns : Users(c)
    \/ System /\ UNCHANGED edits /\ \A r \in RunIds : status'[r] # "failed"

MCFairSpec ==
    MCInit /\ [][MCNext]_<<vars, edits>> /\ Fairness /\ <>[][Undisturbed]_vars

=============================================================================
