------------------------------ MODULE WorkflowWalk ------------------------------
(***************************************************************************)
(* What a run promises its caller, without saying how: it walks the graph  *)
(* that export_workflow_graph shows for the definition, one edge per step, *)
(* stops at the first step that fails, and reports every step it did not   *)
(* reach as skipped.  The statuses are those of StepStatus and             *)
(* WorkflowStatus (models.py); "aborted" is a run that an exception left.  *)
(***************************************************************************)
EXTENDS Graph

CONSTANT Workflows

VARIABLES
  wf,      \* the workflow definition
  path,    \* the steps visited, in order
  status,  \* the status of every step
  outcome  \* the status of the run

vars == <<wf, path, status, outcome>>

Init ==
  /\ wf \in Workflows
  /\ path = <<>>
  /\ status = [i \in DOMAIN wf.steps |-> "pending"]
  /\ outcome = "pending"

\* Only a valid definition is walked.
Start ==
  /\ outcome = "pending"
  /\ ValidWorkflowDefinition(wf)
  /\ outcome' = "running"
  /\ UNCHANGED <<wf, path, status>>

Here == path[Len(path)]

\* The first step, or a step an edge leads to from the one that just succeeded.
Visit(i) ==
  /\ outcome = "running"
  /\ IF path = <<>>
     THEN i = 1
     ELSE /\ status[Here] = "succeeded"
          /\ \E e \in GraphEdges(wf) : e.source = Here /\ e.target = i
  /\ status[i] = "pending"
  /\ path' = Append(path, i)
  /\ status' = [status EXCEPT ![i] = "running"]
  /\ UNCHANGED <<wf, outcome>>

Settle(verdict) ==
  /\ outcome = "running"
  /\ path # <<>>
  /\ status[Here] = "running"
  /\ status' = [status EXCEPT ![Here] = verdict]
  /\ UNCHANGED <<wf, path, outcome>>

\* The last step succeeded and either nothing follows it or it may lead to END.
Arrived ==
  /\ path # <<>>
  /\ status[Here] = "succeeded"
  /\ \/ \A e \in GraphEdges(wf) : e.source # Here
     \/ \E e \in GraphEdges(wf) : e.source = Here /\ e.target = END

\* A run fails with the step it stopped at; only hooks fail it before the first
\* step or after the last.
Finish(verdict) ==
  /\ outcome = "running"
  /\ \/ verdict = "succeeded" /\ Arrived
     \/ verdict = "failed" /\ (path = <<>> \/ status[Here] = "failed" \/ Arrived)
  /\ outcome' = verdict
  /\ status' = [i \in DOMAIN status |->
                  IF status[i] = "pending" THEN "skipped" ELSE status[i]]
  /\ UNCHANGED <<wf, path>>

Abort ==
  /\ outcome \in {"pending", "running"}
  /\ outcome' = "aborted"
  /\ UNCHANGED <<wf, path, status>>

Next ==
  \/ Start
  \/ \E i \in DOMAIN wf.steps : Visit(i)
  \/ \E verdict \in {"succeeded", "failed"} : Settle(verdict) \/ Finish(verdict)
  \/ Abort

Spec == Init /\ [][Next]_vars
===============================================================================
