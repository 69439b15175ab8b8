------------------------------- MODULE Inspection -------------------------------
(***************************************************************************)
(* One call of export_workflow_graph (inspection/graph.py): a declared     *)
(* definition is validated, and shown as a graph or rejected.  The         *)
(* properties relate that graph to the moves of the executor, which never  *)
(* looks at it (controls/routing.py).                                      *)
(***************************************************************************)
EXTENDS Graph

CONSTANT Workflows  \* the definitions that may be exported

ASSUME InspectionAssumption == \A wf \in Workflows : IsWorkflowDefinition(wf)

VARIABLES
  wf,
  phase,  \* "declared", "exported" or "rejected"
  graph   \* the exported graph, or None

vars == <<wf, phase, graph>>

Init == wf \in Workflows /\ phase = "declared" /\ graph = None

Export ==
  /\ phase = "declared"
  /\ graph' = ExportWorkflowGraph(wf)
  /\ phase' = IF graph' = None THEN "rejected" ELSE "exported"
  /\ UNCHANGED wf

Done == phase # "declared" /\ UNCHANGED vars

Next == Export \/ Done

Spec == Init /\ [][Next]_vars

-------------------------------------------------------------------------------

Exported == phase = "exported"

EdgesFrom(i) == {e \in graph.edges : e.source = i}

\* The exported graph shows exactly the moves the executor can make: a route edge for
\* every output that resolves, to the step the decision names or to END, and for a
\* step without routes the edge to the next one. (_build_workflow_graph against
\* resolve_route_decision and the advance of the executor's loop)
GraphShowsEveryMove ==
  Exported =>
    \A i \in DOMAIN wf.steps :
      LET s == wf.steps[i] IN
      IF s.routes = None
      THEN {e.target : e \in EdgesFrom(i)} = {i + 1} \cap DOMAIN wf.steps
      ELSE \A output \in Strings \cup {"", None} :
             {e.target : e \in {x \in EdgesFrom(i) : x.key = output}} =
               IF ~RouteResolves(s, output) THEN {}
               ELSE LET d == RouteDecision(wf, i, output)
                    IN  {IF d.ended THEN END ELSE d.next}

\* A valid definition has no cycle: no walk along its edges has more steps than the
\* workflow, so that no run of it visits a step twice. (_validate_route_targets)
GraphIsAcyclic ==
  Exported =>
    LET n == Len(wf.steps) IN
    ~ \E walk \in [1..n + 1 -> DOMAIN wf.steps] :
        \A k \in 1..n : \E e \in EdgesFrom(walk[k]) : e.target = walk[k+1]

\* Nothing dangles: both ends of an edge are nodes, END is shown exactly when an edge
\* leads there, and only END and an unrouted last step have no edge out.
GraphIsClosed ==
  Exported =>
    /\ \A e \in graph.edges : {e.source, e.target} \subseteq graph.nodes
    /\ END \in graph.nodes <=> \E e \in graph.edges : e.target = END
    /\ \A node \in graph.nodes :
         EdgesFrom(node) = {} <=>
           node = END \/ (node = Len(wf.steps) /\ wf.steps[node].routes = None)

\* What is accepted can be carried out: every step has a retry policy of a count and
\* of classes, whichever level they come from, and a routed step has an output that
\* resolves. (validate_step_definition against resolve_retry_policy and routing)
AcceptedIsRunnable ==
  Exported =>
    \A i \in DOMAIN wf.steps :
      LET policy == RetryPolicy(wf, wf.steps[i]) IN
      /\ policy.retries \in Nat
      /\ policy.retryOn \notin {None, Malformed}
      /\ policy.retryOn \subseteq RetryClasses
      /\ \E output \in Strings : RouteResolves(wf.steps[i], output)

\* Names identify steps in a valid definition: looking a step's name up gives that
\* step, so the tables of the executor and of the export lose none. (the duplicate
\* check of validate_workflow_definition)
NamesIdentifySteps ==
  Exported => \A i \in DOMAIN wf.steps : StepIndexes(wf)[wf.steps[i].name] = i
===============================================================================
