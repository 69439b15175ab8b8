--------------------------------- MODULE Graph ---------------------------------
(***************************************************************************)
(* The exported workflow graph (inspection/graph.py).  A node is a step    *)
(* index ("step_<i>" in the code) or END ("end_0").  Nodes and edges are   *)
(* sets: their order only fixes the layout of the rendered chart.          *)
(***************************************************************************)
EXTENDS Definitions

ASSUME GraphAssumption == END \notin Nat

Routes(s) == IF s.routes = None THEN <<>> ELSE s.routes

\* (a mutant) END is not shown.
StepNodes(wf) == DOMAIN wf.steps

GraphNodes(wf) ==
  (DOMAIN wf.steps) \cup
  (IF \E i \in DOMAIN wf.steps :
        \E k \in DOMAIN Routes(wf.steps[i]) : wf.steps[i].routes[k] = END
   THEN {END} ELSE {})

RouteEdges(wf) ==
  UNION {{[source |-> i,
           target |-> IF wf.steps[i].routes[k] = END THEN END
                      ELSE StepIndexes(wf)[wf.steps[i].routes[k]],
           kind   |-> "route",
           key    |-> k] : k \in DOMAIN Routes(wf.steps[i])} :
         i \in DOMAIN wf.steps}

\* (a mutant) A routed step keeps its linear edge.
OrderEdges(wf) ==
  {[source |-> i, target |-> i + 1, kind |-> "linear", key |-> None] :
     i \in {j \in DOMAIN wf.steps : j < Len(wf.steps)}}

LinearEdges(wf) ==
  {[source |-> i, target |-> i + 1, kind |-> "linear", key |-> None] :
     i \in {j \in DOMAIN wf.steps :
              wf.steps[j].routes = None /\ j < Len(wf.steps)}}

GraphEdges(wf) == RouteEdges(wf) \cup LinearEdges(wf)

\* export_workflow_graph validates first: None stands for the error it raises.
ExportWorkflowGraph(wf) ==
  IF ValidWorkflowDefinition(wf)
  THEN [nodes |-> GraphNodes(wf), edges |-> GraphEdges(wf)]
  ELSE None
===============================================================================
