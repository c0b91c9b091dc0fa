--------------------------- MODULE MCAlertWorkflow ---------------------------
(* Small instances of AlertWorkflow for TLC.                               *)
EXTENDS AlertWorkflow, TLC

\* Payloads that give a case, or the status, the assignee or both.
MCEdits ==
    {e \in AlertUpdate : (e.case_id = NONE) # (e.status = NONE /\ e.assigned_to = NONE)}

JobSymmetry == Permutations(Jobs)
=============================================================================
