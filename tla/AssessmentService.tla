-------------------------- MODULE AssessmentService --------------------------
(***************************************************************************)
(* What a client of the queued analyses may rely on, without sessions,     *)
(* reads, workers or redelivery: a task that was queued is stored at least *)
(* once before it counts as done, and only a task that has stored nothing  *)
(* may be lost; alerts are never taken back; and the number of alerts      *)
(* shown for a taxpayer is never more than there are.  RiskAssessment      *)
(* implements it.                                                          *)
(***************************************************************************)
EXTENDS Naturals

CONSTANTS Tasks, Taxpayers

VARIABLES
    task,     \* "none", "pending", "stored", "done" or "lost"
    alerts,   \* the alerts of each taxpayer
    shown     \* the number that is shown for it

vars == <<task, alerts, shown>>

Init ==
    /\ task = [k \in Tasks |-> "none"]
    /\ alerts = [t \in Taxpayers |-> 0]
    /\ shown = [t \in Taxpayers |-> 0]

Move(k, from, to) ==
    /\ task[k] = from
    /\ task' = [task EXCEPT ![k] = to]

\* Alerts are added for some taxpayers, and the numbers shown for them change.
Add(S) ==
    /\ \A t \in Taxpayers \ S : alerts'[t] = alerts[t] /\ shown'[t] = shown[t]
    /\ \A t \in S : alerts'[t] >= alerts[t] /\ shown'[t] <= alerts'[t]

Queue(k) == Move(k, "none", "pending") /\ UNCHANGED <<alerts, shown>>
Store(k) == Move(k, "pending", "stored") /\ (\E t \in Taxpayers : Add({t}))
Again(k) == Move(k, "stored", "pending") /\ UNCHANGED <<alerts, shown>>
Finish(k) == Move(k, "stored", "done") /\ UNCHANGED <<alerts, shown>>
Lose(k) == Move(k, "pending", "lost") /\ UNCHANGED <<alerts, shown>>

\* Requests and the weekly scan store alerts without a task.
Other == (\E S \in SUBSET Taxpayers : Add(S)) /\ UNCHANGED task

Next ==
    \/ \E k \in Tasks : Queue(k) \/ Store(k) \/ Again(k) \/ Finish(k) \/ Lose(k)
    \/ Other

Safety == Init /\ [][Next]_vars

\* No task stays queued for ever.
Answered == \A k \in Tasks : task[k] = "pending" ~> task[k] \in {"done", "lost"}

Spec == Safety /\ Answered
=============================================================================
