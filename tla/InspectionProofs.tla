---------------------------- MODULE InspectionProofs ----------------------------
(* What the validation of a definition guarantees, for definitions of every size,    *)
(* and what a chart tells of a graph, for texts of every length.                     *)
EXTENDS Mermaid, DefinitionProofs, SequenceTheorems

IInv ==
  /\ wf \in Workflows
  /\ Exported => ValidWorkflowDefinition(wf) /\ graph = ExportWorkflowGraph(wf)

\* Only valid definitions are exported.
LEMMA OnlyValidExported == Spec => []IInv
<1>1. Init => IInv
  BY DEF Init, IInv, Exported
<1>2. IInv /\ [Next]_vars => IInv'
  <2> SUFFICES ASSUME IInv, [Next]_vars PROVE IInv'
    OBVIOUS
  <2>1. CASE Export
    BY <2>1 DEF Export, ExportWorkflowGraph, IInv, Exported
  <2>2. CASE Done \/ UNCHANGED vars
    BY <2>2 DEF Done, vars, IInv, Exported
  <2> QED
    BY <2>1, <2>2 DEF Next
<1> QED
  BY <1>1, <1>2, PTL DEF Spec

\* The name of a step of an exported definition looks up that step.
\* (validate_workflow_definition against the step_indexes tables)
THEOREM NamesIdentifyAlways == Spec => []NamesIdentifySteps
<1>1. IInv => NamesIdentifySteps
  BY InspectionAssumption, NamesIdentify
     DEF IInv, Exported, NamesIdentifySteps, ValidWorkflowDefinition
<1> QED
  BY <1>1, OnlyValidExported, PTL

\* What is accepted can be carried out: the retry policy of every step has a count and
\* classes, and some output of it resolves. (validate_step_definition)
THEOREM AcceptedIsRunnableAlways == Spec => []AcceptedIsRunnable
<1>1. IInv => AcceptedIsRunnable
  <2> SUFFICES ASSUME IInv, Exported, NEW i \in DOMAIN wf.steps
               PROVE  /\ RetryPolicy(wf, wf.steps[i]).retries \in Nat
                      /\ RetryPolicy(wf, wf.steps[i]).retryOn \notin {None, Malformed}
                      /\ RetryPolicy(wf, wf.steps[i]).retryOn \subseteq RetryClasses
                      /\ \E output \in Strings : RouteResolves(wf.steps[i], output)
    BY DEF AcceptedIsRunnable
  <2> DEFINE s == wf.steps[i]
  <2>1. IsWorkflowDefinition(wf) /\ ValidWorkflowDefinition(wf)
    BY InspectionAssumption DEF IInv
  <2>2. IsStepDefinition(s) /\ ValidStepDefinition(s)
    BY <2>1, StepsAreNumbered DEF ValidWorkflowDefinition
  <2>3. RetryPolicy(wf, s).retries \in Nat
    BY <2>1, PolicyIsBounded
  <2>4. /\ RetryPolicy(wf, s).retryOn \notin {None, Malformed}
        /\ RetryPolicy(wf, s).retryOn \subseteq RetryClasses
    <3>1. wf.retryOn \notin {None, Malformed} /\ wf.retryOn \subseteq RetryClasses
      BY <2>1 DEF IsWorkflowDefinition, ValidWorkflowDefinition
    <3>2. \/ s.retryOn = None
          \/ s.retryOn \notin {None, Malformed} /\ s.retryOn \subseteq RetryClasses
      BY <2>2 DEF IsStepDefinition, ValidStepDefinition, ValidRetrySettings
    <3> QED
      BY <3>1, <3>2 DEF RetryPolicy
  <2>5. \E output \in Strings : RouteResolves(s, output)
    <3>1. CASE s.routes = None
      <4>1. s.name \in Strings
        BY <2>2 DEF IsStepDefinition, ValidStepDefinition
      <4> QED
        BY <3>1, <4>1 DEF RouteResolves
    <3>2. CASE s.routes # None
      <4>1. PICK k \in DOMAIN s.routes : k \notin {"", Malformed}
        BY <2>2, <3>2 DEF ValidStepDefinition
      <4>2. IsRoutes(s.routes)
        BY <2>2, <3>2 DEF IsStepDefinition
      <4>3. k \in Strings
        BY <4>1, <4>2 DEF IsRoutes
      <4> QED
        BY <4>1, <4>3 DEF RouteResolves
    <3> QED
      BY <3>1, <3>2
  <2> QED
    BY <2>3, <2>4, <2>5
<1> QED
  BY <1>1, OnlyValidExported, PTL

\* The edges out of a routed step are one for every route.
LEMMA EdgesOfRoutes ==
  ASSUME ValidWorkflowDefinition(wf), graph = ExportWorkflowGraph(wf),
         NEW i \in DOMAIN wf.steps, wf.steps[i].routes # None
  PROVE  EdgesFrom(i) =
           {[source |-> i,
             target |-> IF wf.steps[i].routes[k] = END THEN END
                        ELSE StepIndexes(wf)[wf.steps[i].routes[k]],
             kind   |-> "route",
             key    |-> k] : k \in DOMAIN wf.steps[i].routes}
<1>1. graph.edges = RouteEdges(wf) \cup LinearEdges(wf)
  BY DEF ExportWorkflowGraph, GraphEdges
<1>2. \A e \in LinearEdges(wf) : e.source # i
  BY DEF LinearEdges
<1>3. EdgesFrom(i) = {e \in RouteEdges(wf) : e.source = i}
  BY <1>1, <1>2 DEF EdgesFrom
<1> QED
  BY <1>3 DEF RouteEdges, Routes

\* The edge out of a step without routes leads to the next one, if there is one.
LEMMA EdgeOfOrder ==
  ASSUME IsWorkflowDefinition(wf), ValidWorkflowDefinition(wf),
         graph = ExportWorkflowGraph(wf),
         NEW i \in DOMAIN wf.steps, wf.steps[i].routes = None
  PROVE  {e.target : e \in EdgesFrom(i)} = {i + 1} \cap DOMAIN wf.steps
<1>1. graph.edges = RouteEdges(wf) \cup LinearEdges(wf)
  BY DEF ExportWorkflowGraph, GraphEdges
<1>2. \A e \in RouteEdges(wf) : e.source # i
  BY DEF RouteEdges, Routes
<1>3. EdgesFrom(i) = {e \in LinearEdges(wf) : e.source = i}
  BY <1>1, <1>2 DEF EdgesFrom
<1>4. i \in Nat /\ Len(wf.steps) \in Nat /\ DOMAIN wf.steps = 1..Len(wf.steps)
  BY StepsAreNumbered
<1> DEFINE edge == [source |-> i, target |-> i + 1, kind |-> "linear", key |-> None]
<1>5. \A e : e \in EdgesFrom(i) <=> e = edge /\ i < Len(wf.steps)
  BY <1>3 DEF LinearEdges
<1>6. CASE i < Len(wf.steps)
  <2>1. EdgesFrom(i) = {edge}
    BY <1>5, <1>6
  <2>2. edge.target = i + 1
    OBVIOUS
  <2> HIDE DEF edge
  <2>3. {e.target : e \in EdgesFrom(i)} = {i + 1}
    BY <2>1, <2>2
  <2>4. i + 1 \in DOMAIN wf.steps
    BY <1>4, <1>6
  <2> QED
    BY <2>3, <2>4
<1>7. CASE ~ (i < Len(wf.steps))
  <2>1. EdgesFrom(i) = {}
    BY <1>5, <1>7
  <2>2. {e.target : e \in EdgesFrom(i)} = {}
    BY <2>1
  <2>3. i + 1 \notin DOMAIN wf.steps
    BY <1>4, <1>7
  <2> QED
    BY <2>2, <2>3
<1> QED
  BY <1>6, <1>7

\* The exported graph of a definition of any size shows exactly the moves the executor
\* can make from every step. (_build_workflow_graph against resolve_route_decision)
THEOREM GraphShowsEveryMoveAlways == Spec => []GraphShowsEveryMove
<1>1. IInv => GraphShowsEveryMove
  <2> SUFFICES ASSUME IInv, Exported, NEW i \in DOMAIN wf.steps
               PROVE  IF wf.steps[i].routes = None
                      THEN {e.target : e \in EdgesFrom(i)} = {i + 1} \cap DOMAIN wf.steps
                      ELSE \A output \in Strings \cup {"", None} :
                             {e.target : e \in {x \in EdgesFrom(i) : x.key = output}} =
                               IF ~RouteResolves(wf.steps[i], output) THEN {}
                               ELSE LET d == RouteDecision(wf, i, output)
                                    IN  {IF d.ended THEN END ELSE d.next}
    BY DEF GraphShowsEveryMove
  <2> DEFINE routes == wf.steps[i].routes
  <2>1. /\ IsWorkflowDefinition(wf)
        /\ ValidWorkflowDefinition(wf)
        /\ graph = ExportWorkflowGraph(wf)
    BY InspectionAssumption DEF IInv
  <2>2. CASE routes = None
    BY <2>1, <2>2, EdgeOfOrder
  <2>3. CASE routes # None
    <3> SUFFICES ASSUME NEW output \in Strings \cup {"", None}
                 PROVE  {e.target : e \in {x \in EdgesFrom(i) : x.key = output}} =
                          IF ~RouteResolves(wf.steps[i], output) THEN {}
                          ELSE LET d == RouteDecision(wf, i, output)
                               IN  {IF d.ended THEN END ELSE d.next}
      BY <2>3
    <3>1. RouteResolves(wf.steps[i], output) <=> output \in DOMAIN routes
      <4>1. "" \notin DOMAIN routes
        BY <2>1, <2>3 DEF ValidWorkflowDefinition, ValidStepDefinition
      <4>2. None \notin DOMAIN routes
        <5>1. IsRoutes(routes)
          BY <2>1, <2>3, StepsAreNumbered DEF IsStepDefinition
        <5> QED
          BY <5>1, SentinelAssumption DEF IsRoutes
      <4> QED
        BY <2>3, <4>1, <4>2 DEF RouteResolves
    <3>2. {e.target : e \in {x \in EdgesFrom(i) : x.key = output}} =
            IF output \in DOMAIN routes
            THEN {IF routes[output] = END THEN END ELSE StepIndexes(wf)[routes[output]]}
            ELSE {}
      <4> DEFINE target(k) == IF routes[k] = END THEN END ELSE StepIndexes(wf)[routes[k]]
                 edge(k) == [source |-> i, target |-> target(k), kind |-> "route", key |-> k]
      <4>1. EdgesFrom(i) = {edge(k) : k \in DOMAIN routes}
        BY <2>1, <2>3, EdgesOfRoutes
      <4>2. edge(output).key = output /\ edge(output).target = target(output)
        OBVIOUS
      <4>3. \A k \in DOMAIN routes : edge(k).key = k
        OBVIOUS
      <4> HIDE DEF target, edge, routes
      <4>4. CASE output \in DOMAIN routes
        <5>1. {x \in EdgesFrom(i) : x.key = output} = {edge(output)}
          BY <4>1, <4>2, <4>3, <4>4
        <5>2. {e.target : e \in {x \in EdgesFrom(i) : x.key = output}} = {target(output)}
          BY <4>2, <5>1
        <5> QED
          BY <4>4, <5>2 DEF target
      <4>5. CASE output \notin DOMAIN routes
        <5>1. {x \in EdgesFrom(i) : x.key = output} = {}
          BY <4>1, <4>3, <4>5
        <5>2. {e.target : e \in {x \in EdgesFrom(i) : x.key = output}} = {}
          BY <5>1
        <5> QED
          BY <4>5, <5>2
      <4> QED
        BY <4>4, <4>5
    <3>3. LET d == RouteDecision(wf, i, output)
          IN  (IF d.ended THEN END ELSE d.next) =
                IF routes[output] = END THEN END ELSE StepIndexes(wf)[routes[output]]
      BY DEF RouteDecision
    <3> QED
      BY <3>1, <3>2, <3>3
  <2> QED
    BY <2>2, <2>3
<1> QED
  BY <1>1, OnlyValidExported, PTL

-------------------------------------------------------------------------------
(* The shape of the graph.                                                  *)

\* Every edge leaves a step, and leads to END or to a later step.
LEMMA EdgesLeadForward ==
  ASSUME IsWorkflowDefinition(wf), ValidWorkflowDefinition(wf), graph = ExportWorkflowGraph(wf),
         NEW e \in graph.edges
  PROVE  /\ e.source \in DOMAIN wf.steps
         /\ e.target # END => e.target \in DOMAIN wf.steps /\ e.source < e.target
         /\ e.target = END => \E k \in DOMAIN Routes(wf.steps[e.source]) :
                                wf.steps[e.source].routes[k] = END
<1>1. e \in RouteEdges(wf) \/ e \in LinearEdges(wf)
  BY DEF ExportWorkflowGraph, GraphEdges
<1>2. Len(wf.steps) \in Nat /\ DOMAIN wf.steps = 1..Len(wf.steps)
  BY StepsAreNumbered
<1>3. CASE e \in RouteEdges(wf)
  <2>a. PICK i \in DOMAIN wf.steps :
          \E k \in DOMAIN Routes(wf.steps[i]) :
            /\ e.source = i
            /\ e.target = IF wf.steps[i].routes[k] = END THEN END
                          ELSE StepIndexes(wf)[wf.steps[i].routes[k]]
    BY <1>3 DEF RouteEdges
  <2>1. PICK k \in DOMAIN Routes(wf.steps[i]) :
          /\ e.source = i
          /\ e.target = IF wf.steps[i].routes[k] = END THEN END
                        ELSE StepIndexes(wf)[wf.steps[i].routes[k]]
    BY <2>a
  <2>2. wf.steps[i].routes # None /\ k \in DOMAIN wf.steps[i].routes
    BY <2>1 DEF Routes
  <2>3. CASE wf.steps[i].routes[k] = END
    BY <2>1, <2>3
  <2>4. CASE wf.steps[i].routes[k] # END
    <3> DEFINE n == wf.steps[i].routes[k]
    <3>1. n \in DOMAIN StepIndexes(wf) /\ StepIndexes(wf)[n] > i
      BY <2>2, <2>4 DEF ValidWorkflowDefinition, ValidRouteTargets
    <3>2. StepIndexes(wf)[n] \in DOMAIN wf.steps
      BY <3>1, IndexesAreSteps DEF ValidWorkflowDefinition
    <3>3. StepIndexes(wf)[n] # END
      BY <3>2, <1>2, GraphAssumption
    <3> QED
      BY <2>1, <2>4, <3>1, <3>2, <3>3, <1>2
  <2> QED
    BY <2>3, <2>4
<1>4. CASE e \in LinearEdges(wf)
  <2>1. PICK i \in DOMAIN wf.steps : i < Len(wf.steps) /\ e.source = i /\ e.target = i + 1
    BY <1>4 DEF LinearEdges
  <2>2. i + 1 \in DOMAIN wf.steps /\ i < i + 1 /\ i + 1 # END
    BY <2>1, <1>2, GraphAssumption
  <2> QED
    BY <2>1, <2>2
<1> QED
  BY <1>1, <1>3, <1>4

\* A valid definition of any size has no cycle: where the k-th place of a walk is below
\* k, so is the one before it. (GraphIsAcyclic)
THEOREM GraphIsAcyclicAlways == Spec => []GraphIsAcyclic
<1>1. IInv => GraphIsAcyclic
  <2> DEFINE n == Len(wf.steps)
  <2> SUFFICES ASSUME IInv, Exported, NEW walk \in [1..n + 1 -> DOMAIN wf.steps],
                      \A k \in 1..n : \E e \in EdgesFrom(walk[k]) : e.target = walk[k+1]
               PROVE  FALSE
    BY DEF GraphIsAcyclic
  <2>1. /\ IsWorkflowDefinition(wf)
        /\ ValidWorkflowDefinition(wf)
        /\ graph = ExportWorkflowGraph(wf)
    BY InspectionAssumption DEF IInv
  <2>2. n \in Nat /\ DOMAIN wf.steps = 1..n
    BY <2>1, StepsAreNumbered
  <2>3. ASSUME NEW k \in 1..n PROVE walk[k] < walk[k+1]
    <3>1. PICK e \in graph.edges : e.source = walk[k] /\ e.target = walk[k+1]
      BY DEF EdgesFrom
    <3>2. walk[k+1] \in 1..n
      BY <2>2
    <3> QED
      BY <3>1, <3>2, <2>1, <2>2, EdgesLeadForward, GraphAssumption
  <2>4. \A k \in 1..n + 1 : walk[k] \in 1..n
    BY <2>2
  <2> DEFINE low == {k \in 1..n + 1 : walk[k] < k}
  <2> HIDE DEF n
  <2>5. low \in SUBSET Nat /\ low # {}
    <3>1. n + 1 \in 1..n + 1 /\ walk[n + 1] < n + 1
      BY <2>2, <2>4
    <3> QED
      BY <3>1
  <2>6. PICK m \in low : \A k \in low : m <= k
    BY <2>5, LeastMember
  <2>7. m \in 2..n + 1
    BY <2>4, <2>2
  <2>8. m - 1 \in 1..n /\ m - 1 \in 1..n + 1 /\ m - 1 \notin low
    BY <2>2, <2>6, <2>7
  <2>9. m - 1 <= walk[m - 1]
    BY <2>2, <2>4, <2>8
  <2>10. walk[m - 1] < walk[m]
    BY <2>3, <2>7, <2>8
  <2> QED
    BY <2>2, <2>4, <2>7, <2>8, <2>9, <2>10
<1> QED
  BY <1>1, OnlyValidExported, PTL

\* The exported graph has no loose ends. (GraphIsClosed)
THEOREM GraphIsClosedAlways == Spec => []GraphIsClosed
<1>1. IInv => GraphIsClosed
  <2> SUFFICES ASSUME IInv, Exported PROVE GraphIsClosed
    BY DEF GraphIsClosed
  <2> DEFINE n == Len(wf.steps)
  <2>1. /\ IsWorkflowDefinition(wf)
        /\ ValidWorkflowDefinition(wf)
        /\ graph = ExportWorkflowGraph(wf)
    BY InspectionAssumption DEF IInv
  <2>2. n \in Nat /\ DOMAIN wf.steps = 1..n /\ END \notin DOMAIN wf.steps
    BY <2>1, StepsAreNumbered, GraphAssumption
  <2>3. /\ graph.nodes = GraphNodes(wf)
        /\ graph.edges = RouteEdges(wf) \cup LinearEdges(wf)
    BY <2>1 DEF ExportWorkflowGraph, GraphEdges
  <2>4. END \in graph.nodes <=>
          \E i \in DOMAIN wf.steps : \E k \in DOMAIN Routes(wf.steps[i]) : wf.steps[i].routes[k] = END
    BY <2>2, <2>3 DEF GraphNodes
  <2>5. \A i \in DOMAIN wf.steps : i \in graph.nodes
    BY <2>3 DEF GraphNodes
  <2>6. ASSUME NEW i \in DOMAIN wf.steps, NEW k \in DOMAIN Routes(wf.steps[i])
        PROVE  \E e \in graph.edges :
                 /\ e.source = i
                 /\ e.target = IF wf.steps[i].routes[k] = END THEN END
                               ELSE StepIndexes(wf)[wf.steps[i].routes[k]]
    <3> DEFINE e == [source |-> i,
                     target |-> IF wf.steps[i].routes[k] = END THEN END
                                ELSE StepIndexes(wf)[wf.steps[i].routes[k]],
                     kind   |-> "route",
                     key    |-> k]
    <3>1. e \in graph.edges
      BY <2>3 DEF RouteEdges
    <3> QED
      BY <3>1
  <2>7. ASSUME NEW e \in graph.edges PROVE {e.source, e.target} \subseteq graph.nodes
    BY <2>1, <2>4, <2>5, EdgesLeadForward
  <2>8. END \in graph.nodes <=> \E e \in graph.edges : e.target = END
    BY <2>1, <2>4, <2>6, EdgesLeadForward
  <2>9. EdgesFrom(END) = {}
    BY <2>1, <2>2, EdgesLeadForward DEF EdgesFrom
  <2>10. ASSUME NEW i \in DOMAIN wf.steps
         PROVE  EdgesFrom(i) = {} <=> i = n /\ wf.steps[i].routes = None
    <3>1. CASE wf.steps[i].routes # None
      <4>1. PICK k \in DOMAIN wf.steps[i].routes : TRUE
        BY <2>1, <3>1 DEF ValidWorkflowDefinition, ValidStepDefinition
      <4>2. k \in DOMAIN Routes(wf.steps[i])
        BY <3>1 DEF Routes
      <4>3. \E e \in graph.edges : e.source = i
        BY <4>2, <2>6
      <4> QED
        BY <3>1, <4>3 DEF EdgesFrom
    <3>2. CASE wf.steps[i].routes = None
      <4>1. {e.target : e \in EdgesFrom(i)} = {i + 1} \cap DOMAIN wf.steps
        BY <2>1, <3>2, EdgeOfOrder
      <4>2. EdgesFrom(i) = {} <=> i + 1 \notin DOMAIN wf.steps
        BY <4>1
      <4>3. i + 1 \notin DOMAIN wf.steps <=> i = n
        BY <2>2
      <4> QED
        BY <3>2, <4>2, <4>3
    <3> QED
      BY <3>1, <3>2
  <2>11. ASSUME NEW node \in graph.nodes
         PROVE  EdgesFrom(node) = {} <=>
                  node = END \/ (node = n /\ wf.steps[node].routes = None)
    <3>1. node \in DOMAIN wf.steps \/ node = END
      BY <2>3 DEF GraphNodes
    <3> QED
      BY <3>1, <2>2, <2>9, <2>10
  <2> QED
    BY <2>7, <2>8, <2>11 DEF GraphIsClosed
<1> QED
  BY <1>1, OnlyValidExported, PTL

-------------------------------------------------------------------------------
(* Recursive functions on sequences.                                        *)

\* f has a first value, and each next one from the value before.
Grows(f, n, first, next) ==
  \A k \in 1..n : f[k] = IF k = 1 THEN first ELSE next[k][f[k-1]]

\* Such a function exists: of the lengths without one there would be a least.
LEMMA RecursionExists ==
  ASSUME NEW n \in Nat, NEW V, NEW first \in V, NEW next \in [1..n -> [V -> V]]
  PROVE  \E f \in [1..n -> V] : Grows(f, n, first, next)
<1> DEFINE Bad == {m \in 0..n : ~ \E f \in [1..m -> V] : Grows(f, m, first, next)}
<1>1. ASSUME Bad # {} PROVE FALSE
  <2>1. Bad \in SUBSET Nat
    OBVIOUS
  <2>2. PICK m \in Bad : \A l \in Bad : m <= l
    <3> HIDE DEF Bad
    <3> QED
      BY <1>1, <2>1, LeastMember
  <2>3. CASE m = 0
    <3> DEFINE f == [k \in 1..0 |-> first]
    <3>1. f \in [1..0 -> V] /\ Grows(f, 0, first, next)
      BY DEF Grows
    <3> QED
      BY <2>2, <2>3, <3>1
  <2>4. CASE m # 0
    <3>1. m \in Nat /\ m \in 1..n /\ m - 1 \in 0..n /\ ~(m <= m - 1)
      BY <2>2, <2>4
    <3>2. m - 1 \notin Bad
      BY <2>2, <3>1
    <3>3. PICK f \in [1..m - 1 -> V] : Grows(f, m - 1, first, next)
      BY <3>1, <3>2
    <3> DEFINE value == IF m = 1 THEN first ELSE next[m][f[m-1]]
               g == [k \in 1..m |-> IF k = m THEN value ELSE f[k]]
    <3>4. value \in V
      <4>1. CASE m = 1
        BY <4>1
      <4>2. CASE m # 1
        <5>1. f[m-1] \in V /\ next[m] \in [V -> V]
          BY <3>1, <4>2
        <5> QED
          BY <4>2, <5>1
      <4> QED
        BY <4>1, <4>2
    <3>5. g \in [1..m -> V]
      <4>1. \A k \in 1..m : k # m => k \in 1..m - 1
        BY <3>1
      <4> HIDE DEF value
      <4> QED
        BY <3>4, <4>1
    <3>6. ASSUME NEW k \in 1..m
          PROVE  g[k] = IF k = 1 THEN first ELSE next[k][g[k-1]]
      <4>1. CASE k = m
        <5>1. g[k] = value /\ (k # 1 => k - 1 \in 1..m /\ k - 1 # m /\ g[k-1] = f[m-1])
          <6> HIDE DEF value
          <6> QED
            BY <3>1, <4>1
        <5> QED
          BY <4>1, <5>1
      <4>2. CASE k # m
        <5>1. k \in 1..m - 1 /\ g[k] = f[k] /\ (k # 1 => g[k-1] = f[k-1])
          <6> HIDE DEF value
          <6> QED
            BY <3>1, <4>2
        <5> HIDE DEF g
        <5> QED
          BY <3>3, <5>1 DEF Grows
      <4> QED
        BY <4>1, <4>2
    <3>7. Grows(g, m, first, next)
      <4> HIDE DEF g
      <4> QED
        BY <3>6 DEF Grows
    <3> QED
      BY <2>2, <3>5, <3>7
  <2> QED
    BY <2>3, <2>4
<1>2. n \notin Bad /\ n \in 0..n
  BY <1>1
<1> QED
  BY <1>2

\* What FlattenSeq has put together after i sequences.
Flattens(f, seqs) ==
  f = [i \in 1..Len(seqs) |-> IF i = 1 THEN seqs[i] ELSE f[i-1] \o seqs[i]]

LEMMA FlattenExists ==
  ASSUME NEW S, NEW seqs \in Seq(Seq(S)), seqs # <<>>
  PROVE  \E f \in [1..Len(seqs) -> Seq(S)] : Flattens(f, seqs)
<1> DEFINE n == Len(seqs)
           next == [k \in 1..n |-> [v \in Seq(S) |-> v \o seqs[k]]]
<1>1. n \in Nat /\ 1 \in 1..n /\ \A k \in 1..n : seqs[k] \in Seq(S)
  OBVIOUS
<1>2. next \in [1..n -> [Seq(S) -> Seq(S)]]
  <2>1. ASSUME NEW k \in 1..n
        PROVE  [v \in Seq(S) |-> v \o seqs[k]] \in [Seq(S) -> Seq(S)]
    <3>1. ASSUME NEW v \in Seq(S) PROVE v \o seqs[k] \in Seq(S)
      BY <1>1, ConcatProperties
    <3> QED
      BY <3>1
  <2> QED
    BY <2>1
<1>3. PICK f \in [1..n -> Seq(S)] : Grows(f, n, seqs[1], next)
  <2> HIDE DEF next
  <2> QED
    BY <1>1, <1>2, RecursionExists
<1>4. ASSUME NEW k \in 1..n
      PROVE  f[k] = IF k = 1 THEN seqs[k] ELSE f[k-1] \o seqs[k]
  <2>1. CASE k = 1
    BY <1>3, <2>1 DEF Grows
  <2>2. CASE k # 1
    <3>1. k - 1 \in 1..n
      BY <1>1, <2>2
    <3>2. next[k][f[k-1]] = f[k-1] \o seqs[k]
      BY <1>3, <3>1
    <3> QED
      BY <1>3, <2>2, <3>2 DEF Grows
  <2> QED
    BY <2>1, <2>2
<1> QED
  BY <1>3, <1>4, Zenon DEF Flattens

\* FlattenSeq is the last value of any such function.
LEMMA FlattenIs ==
  ASSUME NEW seqs, NEW f, Flattens(f, seqs), Len(seqs) \in Nat, Len(seqs) # 0
  PROVE  FlattenSeq(seqs) = f[Len(seqs)]
<1> DEFINE n == Len(seqs)
           Chosen == CHOOSE g : g = [i \in 1..n |-> IF i = 1 THEN seqs[i] ELSE g[i-1] \o seqs[i]]
<1>1. Chosen = [i \in 1..n |-> IF i = 1 THEN seqs[i] ELSE Chosen[i-1] \o seqs[i]]
  BY Zenon DEF Flattens
<1>2. FlattenSeq(seqs) = Chosen[n]
  BY Zenon DEF FlattenSeq
<1> HIDE DEF Chosen
<1>3. ASSUME NEW i \in 1..n
      PROVE  /\ Chosen[i] = IF i = 1 THEN seqs[i] ELSE Chosen[i-1] \o seqs[i]
             /\ f[i] = IF i = 1 THEN seqs[i] ELSE f[i-1] \o seqs[i]
  BY <1>1, Zenon DEF Flattens
<1> DEFINE Differ == {i \in 1..n : Chosen[i] # f[i]}
<1>4. ASSUME Differ # {} PROVE FALSE
  <2>1. Differ \in SUBSET Nat
    OBVIOUS
  <2>2. PICK i \in Differ : \A j \in Differ : i <= j
    <3> HIDE DEF Differ
    <3> QED
      BY <1>4, <2>1, LeastMember
  <2>3. i # 1
    BY <1>3, <2>2
  <2>4. i - 1 \in 1..n /\ ~(i <= i - 1)
    BY <2>2, <2>3
  <2>5. Chosen[i-1] = f[i-1]
    BY <2>2, <2>4
  <2> QED
    BY <1>3, <2>2, <2>3, <2>5
<1> QED
  BY <1>2, <1>4

LEMMA FlattenEmpty == FlattenSeq(<<>>) = <<>>
BY DEF FlattenSeq

\* One more sequence goes behind those that are flattened.
LEMMA FlattenAppend ==
  ASSUME NEW S, NEW seqs \in Seq(Seq(S)), NEW s \in Seq(S)
  PROVE  /\ FlattenSeq(seqs) \in Seq(S)
         /\ FlattenSeq(Append(seqs, s)) = FlattenSeq(seqs) \o s
<1> DEFINE n == Len(seqs)
           all == Append(seqs, s)
<1>1. /\ n \in Nat /\ all \in Seq(Seq(S)) /\ all # <<>> /\ Len(all) = n + 1
      /\ all[n + 1] = s /\ \A k \in 1..n : all[k] = seqs[k]
  BY AppendProperties, LenProperties
<1> HIDE DEF all
<1>2. PICK g \in [1..n + 1 -> Seq(S)] : Flattens(g, all)
  BY <1>1, FlattenExists
<1>3. FlattenSeq(all) = g[n + 1]
  BY <1>1, <1>2, FlattenIs
<1>4. \A i \in 1..n + 1 : g[i] = IF i = 1 THEN all[i] ELSE g[i-1] \o all[i]
  BY <1>1, <1>2, Zenon DEF Flattens
<1>5. CASE n = 0
  <2>1. FlattenSeq(seqs) = <<>>
    BY <1>5, FlattenEmpty
  <2>2. g[n + 1] = s
    BY <1>1, <1>4, <1>5
  <2> QED
    BY <1>3, <2>1, <2>2 DEF all
<1>6. CASE n # 0
  <2> DEFINE f == [i \in 1..n |-> g[i]]
  <2>1. \A i \in 1..n : f[i] = IF i = 1 THEN seqs[i] ELSE f[i-1] \o seqs[i]
    <3> SUFFICES ASSUME NEW i \in 1..n
                 PROVE  f[i] = IF i = 1 THEN seqs[i] ELSE f[i-1] \o seqs[i]
      OBVIOUS
    <3>1. i \in 1..n + 1 /\ (i # 1 => i - 1 \in 1..n) /\ all[i] = seqs[i]
      BY <1>1
    <3>2. f[i] = g[i] /\ (i # 1 => f[i-1] = g[i-1])
      BY <3>1
    <3> HIDE DEF f
    <3> QED
      BY <1>4, <3>1, <3>2
  <2>2. Flattens(f, seqs)
    <3>1. f = [i \in 1..n |-> f[i]]
      OBVIOUS
    <3> HIDE DEF f
    <3> QED
      BY <2>1, <3>1, Zenon DEF Flattens
  <2>3. FlattenSeq(seqs) = f[n]
    BY <1>1, <1>6, <2>2, FlattenIs
  <2>4. f[n] = g[n] /\ g[n] \in Seq(S) /\ n + 1 # 1 /\ n + 1 \in 1..n + 1
    BY <1>1, <1>6
  <2>5. g[n + 1] = g[n] \o s
    <3>1. (n + 1) - 1 = n
      BY <1>1
    <3> QED
      BY <1>1, <1>4, <2>4, <3>1
  <2> QED
    BY <1>3, <2>3, <2>4, <2>5 DEF all
<1> QED
  BY <1>5, <1>6

-------------------------------------------------------------------------------
(* Escaping, character by character.                                        *)

LEMMA ReplaceEmpty ==
  ASSUME NEW character, NEW with
  PROVE  Replace(<<>>, character, with) = <<>>
<1> DEFINE seqs == [i \in DOMAIN <<>> |-> IF <<>>[i] = character THEN with ELSE << <<>>[i] >>]
<1>1. seqs = <<>>
  <2>1. seqs = [i \in 1..0 |-> seqs[i]]
    OBVIOUS
  <2> HIDE DEF seqs
  <2> QED
    BY <2>1
<1> QED
  BY <1>1, FlattenEmpty DEF Replace

\* One more character: it is replaced or stays, behind what became of the others.
LEMMA ReplaceAppend ==
  ASSUME NEW S, NEW text \in Seq(S), NEW ch \in S, NEW character, NEW with \in Seq(S)
  PROVE  /\ Replace(text, character, with) \in Seq(S)
         /\ Replace(Append(text, ch), character, with)
              = Replace(text, character, with) \o (IF ch = character THEN with ELSE <<ch>>)
<1> DEFINE seqs == [i \in DOMAIN text |-> IF text[i] = character THEN with ELSE <<text[i]>>]
           all == Append(text, ch)
           more == [i \in DOMAIN all |-> IF all[i] = character THEN with ELSE <<all[i]>>]
           last == IF ch = character THEN with ELSE <<ch>>
           n == Len(text)
<1>1. /\ n \in Nat /\ DOMAIN text = 1..n /\ DOMAIN all = 1..n + 1
      /\ all[n + 1] = ch /\ \A i \in 1..n : all[i] = text[i] /\ text[i] \in S
  OBVIOUS
<1>2. last \in Seq(S)
  OBVIOUS
<1>3. \A i \in 1..n : seqs[i] \in Seq(S)
  BY <1>1
<1>4. seqs \in Seq(Seq(S)) /\ Len(seqs) = n
  <2>1. seqs = [i \in 1..n |-> seqs[i]]
    BY <1>1
  <2> HIDE DEF seqs
  <2>2. seqs \in [1..n -> Seq(S)]
    BY <1>3, <2>1
  <2> QED
    BY <1>1, <2>2
<1>5. more = Append(seqs, last)
  <2>1. \A i \in 1..n : more[i] = seqs[i]
    BY <1>1
  <2>2. more[n + 1] = last
    BY <1>1
  <2>3. more = [i \in 1..n + 1 |-> more[i]]
    BY <1>1
  <2>4. PICK add : add = Append(seqs, last)
    OBVIOUS
  <2>5. /\ add \in Seq(Seq(S)) /\ Len(add) = n + 1
        /\ add[n + 1] = last /\ \A i \in 1..n : add[i] = seqs[i]
    <3> HIDE DEF seqs, last
    <3> QED
      BY <1>2, <1>4, <2>4, AppendProperties
  <2> HIDE DEF more, seqs, last
  <2>6. add = [i \in 1..n + 1 |-> add[i]]
    BY <2>5, LenProperties
  <2>7. \A i \in 1..n + 1 : more[i] = add[i]
    <3> SUFFICES ASSUME NEW i \in 1..n + 1 PROVE more[i] = add[i]
      OBVIOUS
    <3>1. i \in 1..n \/ i = n + 1
      BY <1>1
    <3> QED
      BY <2>1, <2>2, <2>5, <3>1
  <2> QED
    BY <2>3, <2>4, <2>6, <2>7
<1>6. Replace(text, character, with) = FlattenSeq(seqs)
  BY DEF Replace
<1>7. Replace(all, character, with) = FlattenSeq(more)
  BY DEF Replace
<1> HIDE DEF seqs, more, last
<1>8. FlattenSeq(seqs) \in Seq(S) /\ FlattenSeq(Append(seqs, last)) = FlattenSeq(seqs) \o last
  BY <1>2, <1>4, FlattenAppend
<1> QED
  BY <1>5, <1>6, <1>7, <1>8 DEF last

\* A character that is not replaced stays, for one that is there are two.
IsPair(with, a, b) == with = <<a, b>>

LEMMA ReplaceOther ==
  ASSUME NEW S, NEW text \in Seq(S), NEW ch \in S, NEW character, ch # character,
         NEW a \in S, NEW b \in S, NEW with, IsPair(with, a, b)
  PROVE  Replace(Append(text, ch), character, with) = Append(Replace(text, character, with), ch)
<1>1. with \in Seq(S)
  BY DEF IsPair
<1>2. PICK done : done = Replace(text, character, with)
  OBVIOUS
<1>3. /\ done \in Seq(S)
      /\ Replace(Append(text, ch), character, with)
           = done \o (IF ch = character THEN with ELSE <<ch>>)
  <2>1. /\ Replace(text, character, with) \in Seq(S)
        /\ Replace(Append(text, ch), character, with)
             = Replace(text, character, with) \o (IF ch = character THEN with ELSE <<ch>>)
    BY <1>1, ReplaceAppend
  <2> QED
    BY <1>2, <2>1
<1>4. done \o <<ch>> = Append(done, ch)
  BY <1>3, AppendIsConcat
<1> QED
  BY <1>2, <1>3, <1>4

LEMMA ReplaceSame ==
  ASSUME NEW S, NEW text \in Seq(S), NEW ch \in S,
         NEW a \in S, NEW b \in S, NEW with, IsPair(with, a, b)
  PROVE  /\ Replace(text, ch, with) \in Seq(S)
         /\ Replace(Append(text, ch), ch, with) = Append(Append(Replace(text, ch, with), a), b)
<1>1. with \in Seq(S)
  BY DEF IsPair
<1>2. PICK done : done = Replace(text, ch, with)
  OBVIOUS
<1>3. done \in Seq(S) /\ Replace(Append(text, ch), ch, with) = done \o with
  <2>1. Replace(text, ch, with) \in Seq(S)
    BY <1>1, ReplaceAppend
  <2>2. \A c \in S : Replace(Append(text, c), ch, with)
                      = Replace(text, ch, with) \o (IF c = ch THEN with ELSE <<c>>)
    BY <1>1, ReplaceAppend
  <2> QED
    BY <1>2, <2>1, <2>2
<1>4. done \o with = Append(Append(done, a), b)
  BY <1>3 DEF IsPair
<1> QED
  BY <1>2, <1>3, <1>4

\* The four replacements.
Backslashes(t) == Replace(t, "backslash", <<"backslash", "backslash">>)
Quotes(t) == Replace(t, "quote", <<"backslash", "quote">>)
Newlines(t) == Replace(t, "newline", <<"backslash", "n">>)
Bars(t) == Replace(t, "bar", <<"backslash", "bar">>)

LEMMA BackslashesReplaced ==
  ASSUME NEW S, Characters \subseteq S, NEW t \in Seq(S)
  PROVE  /\ Backslashes(t) \in Seq(S)
         /\ Backslashes(Append(t, "backslash"))
              = Append(Append(Backslashes(t), "backslash"), "backslash")
         /\ \A c \in S \ {"backslash"} : Backslashes(Append(t, c)) = Append(Backslashes(t), c)
<1>1. PICK ch, one, two, with :
        ch = "backslash" /\ one = "backslash" /\ two = "backslash" /\ with = <<one, two>>
  OBVIOUS
<1>2. ch \in S /\ one \in S /\ two \in S /\ IsPair(with, one, two)
  BY <1>1 DEF Characters, IsPair
<1>3. Replace(t, ch, with) \in Seq(S)
  BY <1>2, ReplaceSame
<1>4. Replace(Append(t, ch), ch, with) = Append(Append(Replace(t, ch, with), one), two)
  BY <1>2, ReplaceSame
<1>5. ASSUME NEW c \in S, c # ch
      PROVE  Replace(Append(t, c), ch, with) = Append(Replace(t, ch, with), c)
  BY <1>2, <1>5, ReplaceOther
<1>6. \A x : Backslashes(x) = Replace(x, ch, with)
  BY <1>1, Zenon DEF Backslashes
<1> QED
  BY <1>1, <1>3, <1>4, <1>5, <1>6

LEMMA QuotesReplaced ==
  ASSUME NEW S, Characters \subseteq S, NEW t \in Seq(S)
  PROVE  /\ Quotes(t) \in Seq(S)
         /\ Quotes(Append(t, "quote")) = Append(Append(Quotes(t), "backslash"), "quote")
         /\ \A c \in S \ {"quote"} : Quotes(Append(t, c)) = Append(Quotes(t), c)
<1>1. PICK ch, one, two, with :
        ch = "quote" /\ one = "backslash" /\ two = "quote" /\ with = <<one, two>>
  OBVIOUS
<1>2. ch \in S /\ one \in S /\ two \in S /\ IsPair(with, one, two)
  BY <1>1 DEF Characters, IsPair
<1>3. Replace(t, ch, with) \in Seq(S)
  BY <1>2, ReplaceSame
<1>4. Replace(Append(t, ch), ch, with) = Append(Append(Replace(t, ch, with), one), two)
  BY <1>2, ReplaceSame
<1>5. ASSUME NEW c \in S, c # ch
      PROVE  Replace(Append(t, c), ch, with) = Append(Replace(t, ch, with), c)
  BY <1>2, <1>5, ReplaceOther
<1>6. \A x : Quotes(x) = Replace(x, ch, with)
  BY <1>1, Zenon DEF Quotes
<1> QED
  BY <1>1, <1>3, <1>4, <1>5, <1>6

LEMMA NewlinesReplaced ==
  ASSUME NEW S, Characters \subseteq S, NEW t \in Seq(S)
  PROVE  /\ Newlines(t) \in Seq(S)
         /\ Newlines(Append(t, "newline")) = Append(Append(Newlines(t), "backslash"), "n")
         /\ \A c \in S \ {"newline"} : Newlines(Append(t, c)) = Append(Newlines(t), c)
<1>1. PICK ch, one, two, with :
        ch = "newline" /\ one = "backslash" /\ two = "n" /\ with = <<one, two>>
  OBVIOUS
<1>2. ch \in S /\ one \in S /\ two \in S /\ IsPair(with, one, two)
  BY <1>1 DEF Characters, IsPair
<1>3. Replace(t, ch, with) \in Seq(S)
  BY <1>2, ReplaceSame
<1>4. Replace(Append(t, ch), ch, with) = Append(Append(Replace(t, ch, with), one), two)
  BY <1>2, ReplaceSame
<1>5. ASSUME NEW c \in S, c # ch
      PROVE  Replace(Append(t, c), ch, with) = Append(Replace(t, ch, with), c)
  BY <1>2, <1>5, ReplaceOther
<1>6. \A x : Newlines(x) = Replace(x, ch, with)
  BY <1>1, Zenon DEF Newlines
<1> QED
  BY <1>1, <1>3, <1>4, <1>5, <1>6

LEMMA BarsReplaced ==
  ASSUME NEW S, Characters \subseteq S, NEW t \in Seq(S)
  PROVE  /\ Bars(t) \in Seq(S)
         /\ Bars(Append(t, "bar")) = Append(Append(Bars(t), "backslash"), "bar")
         /\ \A c \in S \ {"bar"} : Bars(Append(t, c)) = Append(Bars(t), c)
<1>1. PICK ch, one, two, with :
        ch = "bar" /\ one = "backslash" /\ two = "bar" /\ with = <<one, two>>
  OBVIOUS
<1>2. ch \in S /\ one \in S /\ two \in S /\ IsPair(with, one, two)
  BY <1>1 DEF Characters, IsPair
<1>3. Replace(t, ch, with) \in Seq(S)
  BY <1>2, ReplaceSame
<1>4. Replace(Append(t, ch), ch, with) = Append(Append(Replace(t, ch, with), one), two)
  BY <1>2, ReplaceSame
<1>5. ASSUME NEW c \in S, c # ch
      PROVE  Replace(Append(t, c), ch, with) = Append(Replace(t, ch, with), c)
  BY <1>2, <1>5, ReplaceOther
<1>6. \A x : Bars(x) = Replace(x, ch, with)
  BY <1>1, Zenon DEF Bars
<1> QED
  BY <1>1, <1>3, <1>4, <1>5, <1>6

\* How a character of a label is shown behind e, and one of a route key.
ShownText(e, ch) ==
  IF ch \in {"backslash", "quote"} THEN Append(Append(e, "backslash"), ch)
  ELSE IF ch = "newline" THEN Append(Append(e, "backslash"), "n")
  ELSE Append(e, ch)

ShownKey(e, ch) ==
  IF ch = "bar" THEN Append(Append(e, "backslash"), "bar") ELSE ShownText(e, ch)

LEMMA EscapeEmpty == EscapeMermaidText(<<>>) = <<>> /\ EscapeMermaidEdgeLabel(<<>>) = <<>>
BY ReplaceEmpty DEF EscapeMermaidText, EscapeMermaidEdgeLabel

\* No replacement takes what another put in for text.
LEMMA EscapeTextAppend ==
  ASSUME NEW S, Characters \subseteq S, NEW text \in Seq(S), NEW ch \in S
  PROVE  /\ EscapeMermaidText(text) \in Seq(S)
         /\ EscapeMermaidText(Append(text, ch)) = ShownText(EscapeMermaidText(text), ch)
<1>1. \A t : EscapeMermaidText(t) = Newlines(Quotes(Backslashes(t)))
  BY DEF EscapeMermaidText, Newlines, Quotes, Backslashes
<1>2. PICK t1, t2, t3 : t1 = Backslashes(text) /\ t2 = Quotes(t1) /\ t3 = Newlines(t2)
  OBVIOUS
<1>3. t1 \in Seq(S) /\ t2 \in Seq(S) /\ t3 \in Seq(S)
  BY <1>2, BackslashesReplaced, QuotesReplaced, NewlinesReplaced
<1>4. "backslash" \in S /\ \A t \in Seq(S) : \A c \in S : Append(t, c) \in Seq(S)
  BY DEF Characters
<1>5. CASE ch = "backslash"
  <2>1. Backslashes(Append(text, "backslash")) = Append(Append(t1, "backslash"), "backslash")
    BY <1>2, BackslashesReplaced
  <2>2. Quotes(Append(Append(t1, "backslash"), "backslash"))
          = Append(Append(t2, "backslash"), "backslash")
    <3>1. Quotes(Append(t1, "backslash")) = Append(t2, "backslash")
      BY <1>2, <1>3, <1>4, QuotesReplaced
    <3>2. PICK u : u = Append(t1, "backslash")
      OBVIOUS
    <3>3. u \in Seq(S)
      BY <1>3, <1>4, <3>2
    <3>4. Quotes(Append(u, "backslash")) = Append(Quotes(u), "backslash")
      BY <1>4, <3>3, QuotesReplaced
    <3> QED
      BY <3>1, <3>2, <3>4
  <2>3. Newlines(Append(Append(t2, "backslash"), "backslash"))
          = Append(Append(t3, "backslash"), "backslash")
    <3>1. Newlines(Append(t2, "backslash")) = Append(t3, "backslash")
      BY <1>2, <1>3, <1>4, NewlinesReplaced
    <3>2. PICK u : u = Append(t2, "backslash")
      OBVIOUS
    <3>3. u \in Seq(S)
      BY <1>3, <1>4, <3>2
    <3>4. Newlines(Append(u, "backslash")) = Append(Newlines(u), "backslash")
      BY <1>4, <3>3, NewlinesReplaced
    <3> QED
      BY <3>1, <3>2, <3>4
  <2> QED
    <3>1. ShownText(t3, ch) = Append(Append(t3, "backslash"), ch)
      BY <1>5 DEF ShownText
    <3>2. EscapeMermaidText(Append(text, ch)) = Append(Append(t3, "backslash"), ch)
      BY <1>1, <1>5, <2>1, <2>2, <2>3
    <3>3. EscapeMermaidText(text) = t3
      BY <1>1, <1>2, Zenon
    <3> QED
      BY <1>3, <3>1, <3>2, <3>3
<1>6. CASE ch = "quote"
  <2>1. Backslashes(Append(text, ch)) = Append(t1, ch)
    BY <1>2, <1>6, BackslashesReplaced
  <2>2. Quotes(Append(t1, "quote")) = Append(Append(t2, "backslash"), "quote")
    BY <1>2, <1>3, QuotesReplaced
  <2>3. Newlines(Append(Append(t2, "backslash"), "quote"))
          = Append(Append(t3, "backslash"), "quote")
    <3>1. Newlines(Append(t2, "backslash")) = Append(t3, "backslash")
      BY <1>2, <1>3, <1>4, NewlinesReplaced
    <3>2. PICK u : u = Append(t2, "backslash")
      OBVIOUS
    <3>3. u \in Seq(S)
      BY <1>3, <1>4, <3>2
    <3>4. Newlines(Append(u, "quote")) = Append(Newlines(u), "quote")
      BY <1>4, <1>6, <3>3, NewlinesReplaced
    <3> QED
      BY <3>1, <3>2, <3>4
  <2> QED
    <3>1. ShownText(t3, ch) = Append(Append(t3, "backslash"), ch)
      BY <1>6 DEF ShownText
    <3>2. EscapeMermaidText(Append(text, ch)) = Append(Append(t3, "backslash"), ch)
      BY <1>1, <1>6, <2>1, <2>2, <2>3
    <3>3. EscapeMermaidText(text) = t3
      BY <1>1, <1>2, Zenon
    <3> QED
      BY <1>3, <3>1, <3>2, <3>3
<1>7. CASE ch = "newline"
  <2>1. Backslashes(Append(text, ch)) = Append(t1, ch)
    BY <1>2, <1>7, BackslashesReplaced
  <2>2. Quotes(Append(t1, ch)) = Append(t2, ch)
    BY <1>2, <1>3, <1>7, QuotesReplaced
  <2>3. Newlines(Append(t2, "newline")) = Append(Append(t3, "backslash"), "n")
    BY <1>2, <1>3, NewlinesReplaced
  <2> QED
    <3>1. ShownText(t3, ch) = Append(Append(t3, "backslash"), "n")
      BY <1>7 DEF ShownText
    <3>2. EscapeMermaidText(Append(text, ch)) = Append(Append(t3, "backslash"), "n")
      BY <1>1, <1>7, <2>1, <2>2, <2>3
    <3>3. EscapeMermaidText(text) = t3
      BY <1>1, <1>2, Zenon
    <3> QED
      BY <1>3, <3>1, <3>2, <3>3
<1>8. CASE ch \notin {"backslash", "quote", "newline"}
  <2>1. Backslashes(Append(text, ch)) = Append(t1, ch)
    BY <1>2, <1>8, BackslashesReplaced
  <2>2. Quotes(Append(t1, ch)) = Append(t2, ch)
    BY <1>2, <1>3, <1>8, QuotesReplaced
  <2>3. Newlines(Append(t2, ch)) = Append(t3, ch)
    BY <1>2, <1>3, <1>8, NewlinesReplaced
  <2> QED
    <3>1. ShownText(t3, ch) = Append(t3, ch)
      BY <1>8 DEF ShownText
    <3>2. EscapeMermaidText(Append(text, ch)) = Append(t3, ch)
      BY <1>1, <1>8, <2>1, <2>2, <2>3
    <3>3. EscapeMermaidText(text) = t3
      BY <1>1, <1>2, Zenon
    <3> QED
      BY <1>3, <3>1, <3>2, <3>3
<1> QED
  BY <1>5, <1>6, <1>7, <1>8

LEMMA EscapeKeyAppend ==
  ASSUME NEW S, Characters \subseteq S, NEW text \in Seq(S), NEW ch \in S
  PROVE  /\ EscapeMermaidEdgeLabel(text) \in Seq(S)
         /\ EscapeMermaidEdgeLabel(Append(text, ch)) = ShownKey(EscapeMermaidEdgeLabel(text), ch)
<1>1. \A t : EscapeMermaidEdgeLabel(t) = Bars(EscapeMermaidText(t))
  BY DEF EscapeMermaidEdgeLabel, Bars
<1>2. PICK e, d : e = EscapeMermaidText(text) /\ d = Bars(e)
  OBVIOUS
<1>3. e \in Seq(S) /\ EscapeMermaidText(Append(text, ch)) = ShownText(e, ch)
  BY <1>2, EscapeTextAppend
<1>4. d \in Seq(S) /\ d = EscapeMermaidEdgeLabel(text)
  BY <1>1, <1>2, <1>3, BarsReplaced
<1>5. "backslash" \in S /\ "n" \in S /\ \A t \in Seq(S) : \A c \in S : Append(t, c) \in Seq(S)
  BY DEF Characters
<1>6. EscapeMermaidEdgeLabel(Append(text, ch)) = Bars(ShownText(e, ch))
  BY <1>1, <1>3
<1>7. Bars(Append(e, "backslash")) = Append(d, "backslash")
  BY <1>2, <1>3, <1>5, BarsReplaced
<1>8. CASE ch \in {"backslash", "quote"}
  <2>1. Bars(Append(Append(e, "backslash"), ch)) = Append(Bars(Append(e, "backslash")), ch)
    <3>1. PICK u : u = Append(e, "backslash")
      OBVIOUS
    <3>2. u \in Seq(S)
      BY <1>3, <1>5, <3>1
    <3>3. Bars(Append(u, ch)) = Append(Bars(u), ch)
      <4>1. ch \in S \ {"bar"}
        BY <1>8
      <4> QED
        BY <3>2, <4>1, BarsReplaced
    <3> QED
      BY <3>1, <3>3
  <2> QED
    BY <1>4, <1>6, <1>7, <1>8, <2>1 DEF ShownText, ShownKey
<1>9. CASE ch = "newline"
  <2>1. Bars(Append(Append(e, "backslash"), "n")) = Append(Bars(Append(e, "backslash")), "n")
    <3>1. PICK u : u = Append(e, "backslash")
      OBVIOUS
    <3>2. u \in Seq(S)
      BY <1>3, <1>5, <3>1
    <3>3. Bars(Append(u, "n")) = Append(Bars(u), "n")
      BY <1>5, <3>2, BarsReplaced
    <3> QED
      BY <3>1, <3>3
  <2> QED
    BY <1>4, <1>6, <1>7, <1>9, <2>1 DEF ShownText, ShownKey
<1>10. CASE ch = "bar"
  <2>1. Bars(Append(e, "bar")) = Append(Append(d, "backslash"), "bar")
    BY <1>2, <1>3, BarsReplaced
  <2> QED
    BY <1>4, <1>6, <1>10, <2>1 DEF ShownText, ShownKey
<1>11. CASE ch \notin {"backslash", "quote", "newline", "bar"}
  <2>1. Bars(Append(e, ch)) = Append(d, ch)
    BY <1>2, <1>3, <1>11, BarsReplaced
  <2> QED
    BY <1>4, <1>6, <1>11, <2>1 DEF ShownText, ShownKey
<1> QED
  BY <1>4, <1>8, <1>9, <1>10, <1>11

-------------------------------------------------------------------------------
(* Reading, piece by piece.                                                 *)

\* IsEscaped alternates along a row of backslashes.
LEMMA EscapedRecursion ==
  ASSUME NEW text, NEW i \in Nat \ {0}
  PROVE  /\ IsEscaped(text, 1) = FALSE
         /\ IsEscaped(text, i) \in BOOLEAN
         /\ IsEscaped(text, i + 1) <=> text[i] = "backslash" /\ ~IsEscaped(text, i)
<1> DEFINE Alternates(f, n) ==
             f = [k \in 1..n |-> k > 1 /\ text[k - 1] = "backslash" /\ ~f[k - 1]]
           Chosen(n) ==
             CHOOSE f : f = [k \in 1..n |-> k > 1 /\ text[k - 1] = "backslash" /\ ~f[k - 1]]
<1>1. ASSUME NEW n \in Nat
      PROVE  Alternates(Chosen(n), n)
  <2> DEFINE next == [k \in 1..n |-> [b \in BOOLEAN |-> text[k - 1] = "backslash" /\ ~b]]
  <2>1. next \in [1..n -> [BOOLEAN -> BOOLEAN]] /\ FALSE \in BOOLEAN
    OBVIOUS
  <2>2. PICK f \in [1..n -> BOOLEAN] : Grows(f, n, FALSE, next)
    <3> HIDE DEF next
    <3> QED
      BY <2>1, RecursionExists
  <2>3. ASSUME NEW k \in 1..n
        PROVE  f[k] = (k > 1 /\ text[k - 1] = "backslash" /\ ~f[k - 1])
    <3>1. CASE k = 1
      <4>1. f[k] = FALSE
        BY <2>2, <3>1 DEF Grows
      <4>2. ~(k > 1)
        BY <3>1
      <4> QED
        BY <4>1, <4>2, Zenon
    <3>2. CASE k # 1
      <4>1. k > 1 /\ k - 1 \in 1..n
        BY <3>2
      <4>2. f[k] = next[k][f[k-1]]
        <5> HIDE DEF next
        <5> QED
          BY <2>2, <3>2 DEF Grows
      <4>3. f[k-1] \in BOOLEAN
        BY <2>2, <4>1
      <4>4. next[k][f[k-1]] = (text[k - 1] = "backslash" /\ ~f[k-1])
        BY <4>3, Zenon
      <4> QED
        BY <4>1, <4>2, <4>4, Zenon
    <3> QED
      BY <3>1, <3>2
  <2>4. Alternates(f, n)
    BY <2>2, <2>3, Zenon
  <2> QED
    BY <2>4, Zenon
<1>2. ASSUME NEW n PROVE IsEscaped(text, n) = Chosen(n)[n]
  BY Zenon DEF IsEscaped
<1>3. ASSUME NEW n \in Nat, NEW k \in 1..n
      PROVE  Chosen(n)[k] = (k > 1 /\ text[k - 1] = "backslash" /\ ~Chosen(n)[k - 1])
  <2>1. Alternates(Chosen(n), n)
    BY <1>1
  <2> HIDE DEF Chosen
  <2> QED
    BY <2>1, Zenon
<1> HIDE DEF Chosen
<1>4. PICK f, g : f = Chosen(i) /\ g = Chosen(i + 1)
  OBVIOUS
<1>5. \A k \in 1..i : f[k] = (k > 1 /\ text[k - 1] = "backslash" /\ ~f[k - 1])
  BY <1>3, <1>4
<1>6. \A k \in 1..i + 1 : g[k] = (k > 1 /\ text[k - 1] = "backslash" /\ ~g[k - 1])
  <2>1. i + 1 \in Nat
    OBVIOUS
  <2> QED
    BY <1>3, <1>4, <2>1
<1>7. f[i] = g[i]
  <2> DEFINE Differ == {k \in 1..i : f[k] # g[k]}
  <2>1. ASSUME Differ # {} PROVE FALSE
    <3>1. Differ \in SUBSET Nat
      OBVIOUS
    <3>2. PICK k \in Differ : \A l \in Differ : k <= l
      <4> HIDE DEF Differ
      <4> QED
        BY <2>1, <3>1, LeastMember
    <3>3. k \in 1..i /\ k \in 1..i + 1 /\ f[k] # g[k]
      OBVIOUS
    <3>4. CASE k = 1
      <4>1. ~(k > 1)
        BY <3>4
      <4> QED
        BY <1>5, <1>6, <3>3, <4>1, Zenon
    <3>5. CASE k # 1
      <4>1. k - 1 \in 1..i /\ ~(k <= k - 1)
        BY <3>3, <3>5
      <4>2. f[k-1] = g[k-1]
        BY <3>2, <4>1
      <4> QED
        BY <1>5, <1>6, <3>3, <4>2, Zenon
    <3> QED
      BY <3>4, <3>5
  <2>2. i \in 1..i
    OBVIOUS
  <2> QED
    BY <2>1, <2>2
<1>8. IsEscaped(text, 1) = FALSE
  <2>1. 1 \in Nat /\ 1 \in 1..1 /\ ~(1 > 1)
    OBVIOUS
  <2>2. Chosen(1)[1] = (1 > 1 /\ text[1 - 1] = "backslash" /\ ~Chosen(1)[1 - 1])
    BY <1>3, <2>1
  <2> QED
    BY <1>2, <2>1, <2>2, Zenon
<1>9. IsEscaped(text, i) \in BOOLEAN
  <2>1. i \in 1..i
    OBVIOUS
  <2>2. IsEscaped(text, i) = f[i]
    BY <1>2, <1>4
  <2> QED
    BY <1>5, <2>1, <2>2, Zenon
<1>10. IsEscaped(text, i + 1) <=> text[i] = "backslash" /\ ~IsEscaped(text, i)
  <2>1. i + 1 \in 1..i + 1 /\ i + 1 > 1 /\ (i + 1) - 1 = i
    OBVIOUS
  <2>2. IsEscaped(text, i) = f[i] /\ IsEscaped(text, i + 1) = g[i + 1]
    BY <1>2, <1>4
  <2>3. g[i + 1] = (i + 1 > 1 /\ text[(i + 1) - 1] = "backslash" /\ ~g[(i + 1) - 1])
    BY <1>6, <2>1
  <2>4. g[i + 1] <=> text[i] = "backslash" /\ ~g[i]
    BY <2>1, <2>3, Zenon
  <2> QED
    BY <1>7, <2>2, <2>4, Zenon
<1> QED
  BY <1>8, <1>9, <1>10

\* The first piece has nothing before it.
LEMMA FirstIsNot == ASSUME NEW text PROVE ~IsEscaped(text, 1)
<1>1. PICK i : i \in Nat \ {0}
  <2>1. 1 \in Nat \ {0}
    OBVIOUS
  <2> QED
    BY <2>1
<1>2. IsEscaped(text, 1) = FALSE
  BY <1>1, EscapedRecursion
<1> QED
  BY <1>2

\* Whether a piece is escaped depends on what is before it, back to a piece that is no
\* backslash.
LEMMA EscapedAgrees ==
  ASSUME NEW line, NEW e, NEW m \in Nat, NEW n \in Nat,
         \A j \in 1..n : line[m + j] = e[j],
         m # 0 => line[m] # "backslash"
  PROVE  \A j \in 1..n + 1 : IsEscaped(line, m + j) <=> IsEscaped(e, j)
<1> DEFINE Differ == {j \in 1..n + 1 : ~(IsEscaped(line, m + j) <=> IsEscaped(e, j))}
<1>1. ASSUME Differ # {} PROVE FALSE
  <2>1. Differ \in SUBSET Nat
    OBVIOUS
  <2>2. PICK j \in Differ : \A l \in Differ : j <= l
    <3> HIDE DEF Differ
    <3> QED
      BY <1>1, <2>1, LeastMember
  <2>3. j \in 1..n + 1 /\ ~(IsEscaped(line, m + j) <=> IsEscaped(e, j))
    BY <2>2, Zenon
  <2>4. CASE j = 1
    <3>1. ~IsEscaped(e, 1)
      BY FirstIsNot
    <3>2. ~IsEscaped(line, m + 1)
      <4>1. CASE m = 0
        <5>1. m + 1 = 1
          BY <4>1
        <5>2. ~IsEscaped(line, 1)
          BY FirstIsNot
        <5> QED
          BY <5>1, <5>2
      <4>2. CASE m # 0
        <5>1. m \in Nat \ {0}
          BY <4>2
        <5>2. IsEscaped(line, m + 1) <=> line[m] = "backslash" /\ ~IsEscaped(line, m)
          BY <5>1, EscapedRecursion
        <5> QED
          BY <4>2, <5>2
      <4> QED
        BY <4>1, <4>2
    <3> QED
      BY <2>3, <2>4, <3>1, <3>2
  <2>5. CASE j # 1
    <3>1. /\ j - 1 \in 1..n /\ j - 1 \in 1..n + 1 /\ j - 1 \in Nat \ {0} /\ ~(j <= j - 1)
          /\ m + (j - 1) \in Nat \ {0} /\ (m + (j - 1)) + 1 = m + j /\ (j - 1) + 1 = j
      BY <2>3, <2>5
    <3>2. PICK k : k = j - 1
      OBVIOUS
    <3>3. IsEscaped(line, m + k) <=> IsEscaped(e, k)
      BY <2>2, <3>1, <3>2, Zenon
    <3>4. IsEscaped(e, k + 1) <=> e[k] = "backslash" /\ ~IsEscaped(e, k)
      BY <3>1, <3>2, EscapedRecursion
    <3>5. IsEscaped(line, (m + k) + 1) <=> line[m + k] = "backslash" /\ ~IsEscaped(line, m + k)
      BY <3>1, <3>2, EscapedRecursion
    <3>6. line[m + k] = e[k]
      BY <3>1, <3>2
    <3>7. IsEscaped(line, (m + k) + 1) <=> IsEscaped(e, k + 1)
      BY <3>3, <3>4, <3>5, <3>6, Zenon
    <3>8. (m + k) + 1 = m + j /\ k + 1 = j
      BY <3>1, <3>2
    <3> QED
      BY <2>3, <3>7, <3>8, Zenon
  <2> QED
    BY <2>4, <2>5
<1> QED
  BY <1>1, Zenon

\* What the reader makes of a piece.
Reading(x, escaped) ==
  IF escaped THEN <<IF x = "n" THEN "newline" ELSE x>>
  ELSE IF x = "backslash" THEN <<>> ELSE <<x>>

LEMMA UnescapeEmpty == Unescape(<<>>) = <<>>
<1> DEFINE e == <<>>
           seqs == [i \in DOMAIN e |->
                IF IsEscaped(e, i) THEN <<IF e[i] = "n" THEN "newline" ELSE e[i]>>
                ELSE IF e[i] = "backslash" THEN <<>> ELSE <<e[i]>>]
<1>1. Unescape(<<>>) = FlattenSeq(seqs)
  BY DEF Unescape
<1>2. seqs = <<>>
  <2>1. seqs = [i \in 1..0 |-> seqs[i]]
    OBVIOUS
  <2> HIDE DEF seqs
  <2> QED
    BY <2>1
<1> HIDE DEF seqs
<1> QED
  BY <1>1, <1>2, FlattenEmpty

\* One more piece is read behind the others.
LEMMA UnescapeAppend ==
  ASSUME NEW S, Characters \subseteq S, NEW e \in Seq(S), NEW x \in S
  PROVE  /\ Unescape(e) \in Seq(S)
         /\ Unescape(Append(e, x)) = Unescape(e) \o Reading(x, IsEscaped(e, Len(e) + 1))
<1> DEFINE seqs == [i \in DOMAIN e |-> Reading(e[i], IsEscaped(e, i))]
           all == Append(e, x)
           more == [i \in DOMAIN all |-> Reading(all[i], IsEscaped(all, i))]
           n == Len(e)
           last == Reading(x, IsEscaped(e, n + 1))
<1>1. /\ n \in Nat /\ DOMAIN e = 1..n /\ DOMAIN all = 1..n + 1
      /\ all[n + 1] = x /\ \A i \in 1..n : all[i] = e[i] /\ e[i] \in S
  OBVIOUS
<1>2. \A y \in S : \A b : Reading(y, b) \in Seq(S)
  BY DEF Reading, Characters
<1>3. \A i \in 1..n + 1 : IsEscaped(all, i) <=> IsEscaped(e, i)
  <2>1. \A j \in 1..n : all[0 + j] = e[j]
    BY <1>1
  <2>2. \A j \in 1..n + 1 : IsEscaped(all, 0 + j) <=> IsEscaped(e, j)
    <3> HIDE DEF all, n
    <3> QED
      BY <1>1, <2>1, EscapedAgrees
  <2> SUFFICES ASSUME NEW i \in 1..n + 1 PROVE IsEscaped(all, i) <=> IsEscaped(e, i)
    OBVIOUS
  <2>3. i \in Nat \ {0} /\ 0 + i = i
    BY <1>1
  <2>5. IsEscaped(all, 0 + i) <=> IsEscaped(e, i)
    BY <2>2
  <2> QED
    BY <2>3, <2>5, Zenon
<1>4. seqs \in Seq(Seq(S)) /\ Len(seqs) = n
  <2>1. seqs = [i \in 1..n |-> seqs[i]]
    BY <1>1
  <2>2. \A i \in 1..n : seqs[i] \in Seq(S)
    BY <1>1, <1>2
  <2> HIDE DEF seqs
  <2>3. seqs \in [1..n -> Seq(S)]
    BY <2>1, <2>2
  <2> QED
    BY <1>1, <2>3
<1>5. last \in Seq(S)
  BY <1>2
<1>6. more = Append(seqs, last)
  <2>1. \A i \in 1..n : more[i] = seqs[i]
    <3> SUFFICES ASSUME NEW i \in 1..n PROVE more[i] = seqs[i]
      OBVIOUS
    <3>1. i \in 1..n + 1 /\ all[i] = e[i] /\ (IsEscaped(all, i) <=> IsEscaped(e, i))
      BY <1>1, <1>3
    <3>2. more[i] = Reading(all[i], IsEscaped(all, i)) /\ seqs[i] = Reading(e[i], IsEscaped(e, i))
      BY <1>1, <3>1
    <3> QED
      BY <3>1, <3>2, Zenon DEF Reading
  <2>2. more[n + 1] = last
    <3>1. n + 1 \in 1..n + 1 /\ n + 1 \in DOMAIN all
      BY <1>1
    <3>2. more[n + 1] = Reading(all[n + 1], IsEscaped(all, n + 1))
      BY <3>1, Zenon
    <3>3. all[n + 1] = x /\ (IsEscaped(all, n + 1) <=> IsEscaped(e, n + 1))
      BY <1>1, <1>3, <3>1, Zenon
    <3> QED
      BY <3>2, <3>3, Zenon DEF Reading
  <2>3. more = [i \in 1..n + 1 |-> more[i]]
    BY <1>1
  <2>4. PICK add : add = Append(seqs, last)
    OBVIOUS
  <2>5. /\ add \in Seq(Seq(S)) /\ Len(add) = n + 1
        /\ add[n + 1] = last /\ \A i \in 1..n : add[i] = seqs[i]
    <3> HIDE DEF seqs, last
    <3> QED
      BY <1>4, <1>5, <2>4, AppendProperties
  <2> HIDE DEF more, seqs, last
  <2>6. add = [i \in 1..n + 1 |-> add[i]]
    BY <2>5, LenProperties
  <2>7. \A i \in 1..n + 1 : more[i] = add[i]
    <3> SUFFICES ASSUME NEW i \in 1..n + 1 PROVE more[i] = add[i]
      OBVIOUS
    <3>1. i \in 1..n \/ i = n + 1
      BY <1>1
    <3> QED
      BY <2>1, <2>2, <2>5, <3>1
  <2> QED
    BY <2>3, <2>4, <2>6, <2>7
<1>7. Unescape(e) = FlattenSeq(seqs)
  BY Zenon DEF Unescape, Reading
<1>8. Unescape(all) = FlattenSeq(more)
  BY Zenon DEF Unescape, Reading
<1> HIDE DEF seqs, more, last
<1>9. FlattenSeq(seqs) \in Seq(S) /\ FlattenSeq(Append(seqs, last)) = FlattenSeq(seqs) \o last
  BY <1>4, <1>5, FlattenAppend
<1> QED
  BY <1>6, <1>7, <1>8, <1>9 DEF last

\* e shows the text t to a reader, without a newline and without a delimiter d.
Shows(e, t, d, S) ==
  /\ e \in Seq(S)
  /\ t \in Seq(S)
  /\ ~IsEscaped(e, Len(e) + 1)
  /\ Unescape(e) = t
  /\ \A i \in DOMAIN e : e[i] # "newline" /\ (e[i] = d => IsEscaped(e, i))

LEMMA ShowsNothing ==
  ASSUME NEW S, NEW d
  PROVE  Shows(<<>>, <<>>, d, S)
<1>1. ~IsEscaped(<<>>, Len(<<>>) + 1)
  <2>1. Len(<<>>) + 1 = 1
    OBVIOUS
  <2> QED
    BY <2>1, FirstIsNot
<1>2. DOMAIN <<>> = {} /\ <<>> \in Seq(S)
  OBVIOUS
<1> QED
  BY <1>1, <1>2, UnescapeEmpty DEF Shows

\* What a piece at the end changes.
LEMMA EscapedAppended ==
  ASSUME NEW S, NEW e \in Seq(S), NEW x \in S
  PROVE  /\ \A i \in 1..Len(e) + 1 : IsEscaped(Append(e, x), i) <=> IsEscaped(e, i)
         /\ IsEscaped(Append(e, x), Len(e) + 2) <=> x = "backslash" /\ ~IsEscaped(e, Len(e) + 1)
<1> DEFINE n == Len(e)
           all == Append(e, x)
<1>1. n \in Nat /\ all[n + 1] = x /\ \A j \in 1..n : all[0 + j] = e[j]
  OBVIOUS
<1> HIDE DEF all, n
<1>2. \A j \in 1..n + 1 : IsEscaped(all, 0 + j) <=> IsEscaped(e, j)
  BY <1>1, EscapedAgrees
<1>3. \A i \in 1..n + 1 : IsEscaped(all, i) <=> IsEscaped(e, i)
  <2> SUFFICES ASSUME NEW i \in 1..n + 1 PROVE IsEscaped(all, i) <=> IsEscaped(e, i)
    OBVIOUS
  <2>1. 0 + i = i
    BY <1>1
  <2>2. IsEscaped(all, 0 + i) <=> IsEscaped(e, i)
    BY <1>2
  <2> QED
    BY <2>1, <2>2, Zenon
<1>4. IsEscaped(all, (n + 1) + 1) <=> all[n + 1] = "backslash" /\ ~IsEscaped(all, n + 1)
  <2>1. n + 1 \in Nat \ {0}
    BY <1>1
  <2> QED
    BY <2>1, EscapedRecursion
<1>5. (n + 1) + 1 = n + 2 /\ n + 1 \in 1..n + 1
  BY <1>1
<1>6. IsEscaped(all, n + 2) <=> x = "backslash" /\ ~IsEscaped(e, n + 1)
  BY <1>1, <1>3, <1>4, <1>5, Zenon
<1> QED
  BY <1>3, <1>6 DEF all, n

\* A character that needs no backslash.
LEMMA ShowsPlain ==
  ASSUME NEW S, Characters \subseteq S, NEW e, NEW t, NEW d, Shows(e, t, d, S),
         NEW x \in S, x \notin {"backslash", "newline"}, x # d
  PROVE  Shows(Append(e, x), Append(t, x), d, S)
<1> DEFINE n == Len(e)
           all == Append(e, x)
<1>1. /\ e \in Seq(S) /\ t \in Seq(S) /\ ~IsEscaped(e, n + 1) /\ Unescape(e) = t
      /\ \A i \in 1..n : e[i] # "newline" /\ (e[i] = d => IsEscaped(e, i))
  BY DEF Shows
<1>2. /\ n \in Nat /\ Len(all) = n + 1 /\ DOMAIN all = 1..n + 1 /\ all \in Seq(S)
      /\ all[n + 1] = x /\ \A i \in 1..n : all[i] = e[i]
  BY <1>1
<1>3. Append(t, x) \in Seq(S)
  BY <1>1
<1>4. /\ \A i \in 1..n + 1 : IsEscaped(all, i) <=> IsEscaped(e, i)
      /\ IsEscaped(all, n + 2) <=> x = "backslash" /\ ~IsEscaped(e, n + 1)
  BY <1>1, EscapedAppended
<1>5. Unescape(all) = Append(t, x)
  <2>1. Unescape(all) = Unescape(e) \o Reading(x, IsEscaped(e, n + 1))
    BY <1>1, UnescapeAppend
  <2>2. Reading(x, IsEscaped(e, n + 1)) = <<x>>
    BY <1>1, Zenon DEF Reading
  <2>3. t \o <<x>> = Append(t, x)
    BY <1>1, AppendIsConcat
  <2> QED
    BY <1>1, <2>1, <2>2, <2>3
<1> HIDE DEF n, all
<1>6. ~IsEscaped(all, Len(all) + 1)
  <2>1. Len(all) + 1 = n + 2
    BY <1>2
  <2> QED
    BY <1>4, <2>1
<1>7. ASSUME NEW i \in DOMAIN all
      PROVE  all[i] # "newline" /\ (all[i] = d => IsEscaped(all, i))
  <2>1. CASE i \in 1..n
    <3>1. i \in 1..n + 1
      BY <1>2
    <3> QED
      BY <1>1, <1>2, <1>4, <2>1, <3>1
  <2>2. CASE i = n + 1
    BY <1>2, <2>2
  <2> QED
    BY <1>2, <2>1, <2>2
<1>8. Shows(all, Append(t, x), d, S)
  BY <1>2, <1>3, <1>5, <1>6, <1>7 DEF Shows
<1> QED
  BY <1>8 DEF all

\* A character behind a backslash.
LEMMA ShowsEscaped ==
  ASSUME NEW S, Characters \subseteq S, NEW e, NEW t, NEW d, Shows(e, t, d, S), d # "backslash",
         NEW x \in S, x # "newline", NEW y, y = IF x = "n" THEN "newline" ELSE x
  PROVE  Shows(Append(Append(e, "backslash"), x), Append(t, y), d, S)
<1> DEFINE n == Len(e)
           one == Append(e, "backslash")
           all == Append(one, x)
<1>1. /\ e \in Seq(S) /\ t \in Seq(S) /\ ~IsEscaped(e, n + 1) /\ Unescape(e) = t
      /\ \A i \in 1..n : e[i] # "newline" /\ (e[i] = d => IsEscaped(e, i))
  BY DEF Shows
<1>2. "backslash" \in S /\ "newline" \in S /\ y \in S
  BY DEF Characters
<1>3. /\ n \in Nat /\ Len(one) = n + 1 /\ one \in Seq(S)
      /\ one[n + 1] = "backslash" /\ \A i \in 1..n : one[i] = e[i]
  BY <1>1, <1>2
<1> HIDE DEF n
<1>4. /\ Len(all) = n + 2 /\ DOMAIN all = 1..n + 2 /\ all \in Seq(S)
      /\ all[n + 2] = x /\ \A i \in 1..n + 1 : all[i] = one[i]
  <2> HIDE DEF one
  <2> QED
    BY <1>3
<1>5. Append(t, y) \in Seq(S)
  BY <1>1, <1>2
<1>6. /\ \A i \in 1..n + 1 : IsEscaped(one, i) <=> IsEscaped(e, i)
      /\ IsEscaped(one, n + 2)
  <2>1. /\ \A i \in 1..Len(e) + 1 : IsEscaped(one, i) <=> IsEscaped(e, i)
        /\ IsEscaped(one, Len(e) + 2) <=>
             "backslash" = "backslash" /\ ~IsEscaped(e, Len(e) + 1)
    BY <1>1, <1>2, EscapedAppended
  <2> HIDE DEF one
  <2> QED
    BY <1>1, <2>1 DEF n
<1>7. /\ \A i \in 1..n + 2 : IsEscaped(all, i) <=> IsEscaped(one, i)
      /\ ~IsEscaped(all, n + 3)
  <2> HIDE DEF one
  <2>1. /\ \A i \in 1..Len(one) + 1 : IsEscaped(all, i) <=> IsEscaped(one, i)
        /\ IsEscaped(all, Len(one) + 2) <=> x = "backslash" /\ ~IsEscaped(one, Len(one) + 1)
    BY <1>3, EscapedAppended
  <2>2. Len(one) + 1 = n + 2 /\ Len(one) + 2 = n + 3
    BY <1>3
  <2> HIDE DEF all
  <2> QED
    BY <1>6, <2>1, <2>2
<1>8. Unescape(one) = t
  <2>1. Unescape(one) = Unescape(e) \o Reading("backslash", IsEscaped(e, Len(e) + 1))
    BY <1>1, <1>2, UnescapeAppend
  <2>2. Reading("backslash", IsEscaped(e, Len(e) + 1)) = <<>>
    BY <1>1, Zenon DEF Reading, n
  <2>3. t \o <<>> = t
    BY <1>1
  <2> QED
    BY <1>1, <2>1, <2>2, <2>3
<1>9. Unescape(all) = Append(t, y)
  <2> HIDE DEF one
  <2>1. Unescape(all) = Unescape(one) \o Reading(x, IsEscaped(one, Len(one) + 1))
    BY <1>3, UnescapeAppend
  <2>2. Len(one) + 1 = n + 2
    BY <1>3
  <2>3. Reading(x, IsEscaped(one, Len(one) + 1)) = <<y>>
    BY <1>6, <2>2 DEF Reading
  <2>4. t \o <<y>> = Append(t, y)
    BY <1>1, <1>2, AppendIsConcat
  <2> QED
    BY <1>8, <2>1, <2>3, <2>4
<1> HIDE DEF one, all
<1>10. ~IsEscaped(all, Len(all) + 1)
  <2>1. Len(all) + 1 = n + 3
    BY <1>3, <1>4
  <2> QED
    BY <1>7, <2>1
<1>11. ASSUME NEW i \in DOMAIN all
       PROVE  all[i] # "newline" /\ (all[i] = d => IsEscaped(all, i))
  <2>1. CASE i \in 1..n
    <3>1. i \in 1..n + 1 /\ i \in 1..n + 2
      BY <1>3, <2>1
    <3>2. all[i] = e[i]
      BY <1>3, <1>4, <2>1, <3>1
    <3>3. IsEscaped(all, i) <=> IsEscaped(e, i)
      BY <1>6, <1>7, <3>1
    <3> QED
      BY <1>1, <2>1, <3>2, <3>3
  <2>2. CASE i = n + 1
    <3>1. i \in 1..n + 1
      BY <1>3, <2>2
    <3> QED
      BY <1>3, <1>4, <2>2, <3>1
  <2>3. CASE i = n + 2
    <3>1. n + 2 \in 1..n + 2
      BY <1>3
    <3> QED
      BY <1>4, <1>6, <1>7, <2>3, <3>1
  <2> QED
    BY <1>3, <1>4, <2>1, <2>2, <2>3
<1>12. Shows(all, Append(t, y), d, S)
  BY <1>4, <1>5, <1>9, <1>10, <1>11 DEF Shows
<1> QED
  BY <1>12 DEF all, one

\* The first m characters.
Prefix(text, m) == SubSeq(text, 1, m)

LEMMA PrefixIs ==
  ASSUME NEW S, NEW text \in Seq(S)
  PROVE  /\ Prefix(text, 0) = <<>>
         /\ Prefix(text, Len(text)) = text
         /\ \A m \in 1..Len(text) :
              /\ Prefix(text, m - 1) \in Seq(S)
              /\ Prefix(text, m) = Append(Prefix(text, m - 1), text[m])
<1>1. Len(text) \in Nat
  OBVIOUS
<1>2. Prefix(text, 0) = <<>>
  BY DEF Prefix
<1>3. Prefix(text, Len(text)) = text
  BY DEF Prefix
<1>4. ASSUME NEW m \in 1..Len(text)
      PROVE  /\ Prefix(text, m - 1) \in Seq(S)
             /\ Prefix(text, m) = Append(Prefix(text, m - 1), text[m])
  <2> DEFINE short == SubSeq(text, 1, m - 1)
             long == SubSeq(text, 1, m)
  <2>1. /\ short \in Seq(S) /\ Len(short) = m - 1 /\ \A i \in 1..m - 1 : short[i] = text[i]
        /\ long \in Seq(S) /\ Len(long) = m /\ \A i \in 1..m : long[i] = text[i]
    OBVIOUS
  <2>2. text[m] \in S
    OBVIOUS
  <2> HIDE DEF short, long
  <2>3. PICK add : add = Append(short, text[m])
    OBVIOUS
  <2>4. /\ add \in Seq(S) /\ Len(add) = m
        /\ \A i \in 1..m : add[i] = text[i]
    BY <1>1, <2>1, <2>2, <2>3
  <2>5. add = long
    BY <2>1, <2>4, SeqEqual
  <2> QED
    BY <2>1, <2>3, <2>5 DEF Prefix, short, long
<1> QED
  BY <1>2, <1>3, <1>4

\* What escaping puts in for a character shows the character.
LEMMA ShownTextShows ==
  ASSUME NEW S, Characters \subseteq S, NEW e, NEW t, Shows(e, t, "quote", S), NEW ch \in S
  PROVE  Shows(ShownText(e, ch), Append(t, ch), "quote", S)
<1>1. CASE ch \in {"backslash", "quote"}
  <2>1. ShownText(e, ch) = Append(Append(e, "backslash"), ch)
    BY <1>1 DEF ShownText
  <2>2. "quote" # "backslash" /\ ch # "newline" /\ ch = IF ch = "n" THEN "newline" ELSE ch
    BY <1>1
  <2>3. Shows(Append(Append(e, "backslash"), ch), Append(t, ch), "quote", S)
    BY <2>2, ShowsEscaped
  <2> QED
    BY <2>1, <2>3
<1>2. CASE ch = "newline"
  <2>1. ShownText(e, ch) = Append(Append(e, "backslash"), "n")
    BY <1>2 DEF ShownText
  <2>2. PICK x, d : x = "n" /\ d = "quote"
    OBVIOUS
  <2>3. x \in S /\ d # "backslash" /\ x # "newline" /\ ch = IF x = "n" THEN "newline" ELSE x
    BY <1>2, <2>2 DEF Characters
  <2>4. Shows(e, t, d, S)
    BY <2>2
  <2>5. Shows(Append(Append(e, "backslash"), x), Append(t, ch), d, S)
    BY <2>3, <2>4, ShowsEscaped
  <2> QED
    BY <2>1, <2>2, <2>5
<1>3. CASE ch \notin {"backslash", "quote", "newline"}
  <2>1. ShownText(e, ch) = Append(e, ch)
    BY <1>3 DEF ShownText
  <2>2. ch \notin {"backslash", "newline"} /\ ch # "quote"
    BY <1>3
  <2>3. Shows(Append(e, ch), Append(t, ch), "quote", S)
    BY <2>2, ShowsPlain
  <2> QED
    BY <2>1, <2>3
<1> QED
  BY <1>1, <1>2, <1>3

LEMMA ShownKeyShows ==
  ASSUME NEW S, Characters \subseteq S, NEW e, NEW t, Shows(e, t, "bar", S), NEW ch \in S
  PROVE  Shows(ShownKey(e, ch), Append(t, ch), "bar", S)
<1>1. CASE ch \in {"backslash", "quote", "bar"}
  <2>1. ShownKey(e, ch) = Append(Append(e, "backslash"), ch)
    BY <1>1 DEF ShownText, ShownKey
  <2>2. "bar" # "backslash" /\ ch # "newline" /\ ch = IF ch = "n" THEN "newline" ELSE ch
    BY <1>1
  <2>3. Shows(Append(Append(e, "backslash"), ch), Append(t, ch), "bar", S)
    BY <2>2, ShowsEscaped
  <2> QED
    BY <2>1, <2>3
<1>2. CASE ch = "newline"
  <2>1. ShownKey(e, ch) = Append(Append(e, "backslash"), "n")
    BY <1>2 DEF ShownText, ShownKey
  <2>2. PICK x, d : x = "n" /\ d = "bar"
    OBVIOUS
  <2>3. x \in S /\ d # "backslash" /\ x # "newline" /\ ch = IF x = "n" THEN "newline" ELSE x
    BY <1>2, <2>2 DEF Characters
  <2>4. Shows(e, t, d, S)
    BY <2>2
  <2>5. Shows(Append(Append(e, "backslash"), x), Append(t, ch), d, S)
    BY <2>3, <2>4, ShowsEscaped
  <2> QED
    BY <2>1, <2>2, <2>5
<1>3. CASE ch \notin {"backslash", "quote", "newline", "bar"}
  <2>1. ShownKey(e, ch) = Append(e, ch)
    BY <1>3 DEF ShownText, ShownKey
  <2>2. ch \notin {"backslash", "newline"} /\ ch # "bar"
    BY <1>3
  <2>3. Shows(Append(e, ch), Append(t, ch), "bar", S)
    BY <2>2, ShowsPlain
  <2> QED
    BY <2>1, <2>3
<1> QED
  BY <1>1, <1>2, <1>3

\* An escaped text shows the text: the texts that it does not show would have a shortest
\* such prefix. (_escape_mermaid_text)
LEMMA TextShows ==
  ASSUME NEW S, Characters \subseteq S, NEW text \in Seq(S)
  PROVE  Shows(EscapeMermaidText(text), text, "quote", S)
<1> DEFINE n == Len(text)
           Shown(m) == Shows(EscapeMermaidText(Prefix(text, m)), Prefix(text, m), "quote", S)
           Misread == {m \in 0..n : ~Shown(m)}
<1>1. n \in Nat
  OBVIOUS
<1>2. Shown(0)
  <2>1. Shows(<<>>, <<>>, "quote", S)
    BY ShowsNothing
  <2> QED
    BY <2>1, EscapeEmpty, PrefixIs
<1>3. ASSUME NEW m \in 1..n, Shown(m - 1)
      PROVE  Shown(m)
  <2>1. PICK t, e : t = Prefix(text, m - 1) /\ e = EscapeMermaidText(t)
    OBVIOUS
  <2>2. t \in Seq(S) /\ Prefix(text, m) = Append(t, text[m]) /\ text[m] \in S
    <3>1. /\ Prefix(text, m - 1) \in Seq(S)
          /\ Prefix(text, m) = Append(Prefix(text, m - 1), text[m])
      BY PrefixIs
    <3>2. text[m] \in S
      OBVIOUS
    <3> QED
      BY <2>1, <3>1, <3>2
  <2>3. EscapeMermaidText(Append(t, text[m])) = ShownText(e, text[m])
    BY <2>1, <2>2, EscapeTextAppend
  <2>4. Shows(e, t, "quote", S)
    BY <1>3, <2>1
  <2>5. Shows(ShownText(e, text[m]), Append(t, text[m]), "quote", S)
    BY <2>2, <2>4, ShownTextShows
  <2> QED
    BY <2>2, <2>3, <2>5
<1>4. ASSUME Misread # {} PROVE FALSE
  <2>1. Misread \in SUBSET Nat
    OBVIOUS
  <2>2. PICK m \in Misread : \A l \in Misread : m <= l
    <3> HIDE DEF Misread
    <3> QED
      BY <1>4, <2>1, LeastMember
  <2>3. m \in 0..n /\ ~Shown(m)
    BY <2>2
  <2> HIDE DEF Shown
  <2>4. m \in 1..n /\ m - 1 \in 0..n /\ ~(m <= m - 1)
    BY <1>1, <1>2, <2>3
  <2>5. Shown(m - 1)
    BY <2>2, <2>4
  <2> QED
    BY <1>3, <2>3, <2>4, <2>5
<1>5. Shown(n)
  <2>1. n \in 0..n
    BY <1>1
  <2> HIDE DEF Shown, n
  <2> QED
    BY <1>4, <2>1
<1> QED
  BY <1>5, PrefixIs

\* The same of route keys and bars.
LEMMA KeyShows ==
  ASSUME NEW S, Characters \subseteq S, NEW text \in Seq(S)
  PROVE  Shows(EscapeMermaidEdgeLabel(text), text, "bar", S)
<1> DEFINE n == Len(text)
           Shown(m) == Shows(EscapeMermaidEdgeLabel(Prefix(text, m)), Prefix(text, m), "bar", S)
           Misread == {m \in 0..n : ~Shown(m)}
<1>1. n \in Nat
  OBVIOUS
<1>2. Shown(0)
  <2>1. Shows(<<>>, <<>>, "bar", S)
    BY ShowsNothing
  <2> QED
    BY <2>1, EscapeEmpty, PrefixIs
<1>3. ASSUME NEW m \in 1..n, Shown(m - 1)
      PROVE  Shown(m)
  <2>1. PICK t, e : t = Prefix(text, m - 1) /\ e = EscapeMermaidEdgeLabel(t)
    OBVIOUS
  <2>2. t \in Seq(S) /\ Prefix(text, m) = Append(t, text[m]) /\ text[m] \in S
    <3>1. /\ Prefix(text, m - 1) \in Seq(S)
          /\ Prefix(text, m) = Append(Prefix(text, m - 1), text[m])
      BY PrefixIs
    <3>2. text[m] \in S
      OBVIOUS
    <3> QED
      BY <2>1, <3>1, <3>2
  <2>3. EscapeMermaidEdgeLabel(Append(t, text[m])) = ShownKey(e, text[m])
    BY <2>1, <2>2, EscapeKeyAppend
  <2>4. Shows(e, t, "bar", S)
    BY <1>3, <2>1
  <2>5. Shows(ShownKey(e, text[m]), Append(t, text[m]), "bar", S)
    BY <2>2, <2>4, ShownKeyShows
  <2> QED
    BY <2>2, <2>3, <2>5
<1>4. ASSUME Misread # {} PROVE FALSE
  <2>1. Misread \in SUBSET Nat
    OBVIOUS
  <2>2. PICK m \in Misread : \A l \in Misread : m <= l
    <3> HIDE DEF Misread
    <3> QED
      BY <1>4, <2>1, LeastMember
  <2>3. m \in 0..n /\ ~Shown(m)
    BY <2>2
  <2> HIDE DEF Shown
  <2>4. m \in 1..n /\ m - 1 \in 0..n /\ ~(m <= m - 1)
    BY <1>1, <1>2, <2>3
  <2>5. Shown(m - 1)
    BY <2>2, <2>4
  <2> QED
    BY <1>3, <2>3, <2>4, <2>5
<1>5. Shown(n)
  <2>1. n \in 0..n
    BY <1>1
  <2> HIDE DEF Shown, n
  <2> QED
    BY <1>4, <2>1
<1> QED
  BY <1>5, PrefixIs

-------------------------------------------------------------------------------
(* A line with a text between two delimiters.                               *)

\* An escaped text e stands between two d.
IsFramed(line, a, b, d, e, c) == line = <<a, b, d>> \o e \o <<d, c>>

\* What the reader finds in such a line.
Framed(line, a, b, d, t, c) ==
  /\ line[1] = a /\ line[2] = b /\ line[3] = d
  /\ Last(line) = c
  /\ Delimiters(line, d) = {3, Len(line) - 1}
  /\ Unescape(SubSeq(line, 4, Len(line) - 2)) = t
  /\ \A i \in DOMAIN line : line[i] # "newline"

\* Only the two outer d delimit, since the others are escaped, and what is between them
\* is the text.
LEMMA FramedTextIsRead ==
  ASSUME NEW S, NEW e, NEW t, NEW a, NEW b, NEW c, NEW d, Shows(e, t, d, S),
         d \notin {a, b, c, "backslash"}, b # "backslash", "newline" \notin {a, b, c, d},
         NEW line, IsFramed(line, a, b, d, e, c)
  PROVE  Framed(line, a, b, d, t, c)
<1> DEFINE n == Len(e)
           P == S \cup {a, b, c, d}
<1>1. /\ e \in Seq(S) /\ n \in Nat /\ ~IsEscaped(e, n + 1) /\ Unescape(e) = t
      /\ \A i \in 1..n : e[i] # "newline" /\ (e[i] = d => IsEscaped(e, i))
  BY DEF Shows
<1>2. e \in Seq(P)
  BY <1>1
<1> HIDE DEF n, P
<1>3. /\ line \in Seq(P) /\ Len(line) = n + 5
      /\ line[1] = a /\ line[2] = b /\ line[3] = d
      /\ \A j \in 1..n : line[3 + j] = e[j]
      /\ line[n + 4] = d /\ line[n + 5] = c
  <2>1. PICK front, back : front = <<a, b, d>> /\ back = <<d, c>>
    OBVIOUS
  <2>2. front \in Seq(P) /\ back \in Seq(P)
    BY <2>1 DEF P
  <2>3. /\ Len(front) = 3 /\ front[1] = a /\ front[2] = b /\ front[3] = d
        /\ Len(back) = 2 /\ back[1] = d /\ back[2] = c
    BY <2>1
  <2>4. PICK begun : begun = front \o e
    OBVIOUS
  <2>5. /\ begun \in Seq(P) /\ Len(begun) = n + 3
        /\ begun[1] = a /\ begun[2] = b /\ begun[3] = d
        /\ \A j \in 1..n : begun[3 + j] = e[j]
    <3>1. begun \in Seq(P) /\ Len(begun) = n + 3
      <4>1. begun \in Seq(P) /\ Len(begun) = Len(front) + Len(e)
        BY <1>2, <2>2, <2>4
      <4> QED
        BY <1>1, <2>3, <4>1 DEF n
    <3>2. \A i \in 1..n + 3 : begun[i] = IF i <= 3 THEN front[i] ELSE e[i - 3]
      <4>1. ASSUME NEW i \in 1..Len(front) + Len(e)
            PROVE  begun[i] = IF i <= Len(front) THEN front[i] ELSE e[i - Len(front)]
        BY <1>2, <2>2, <2>4
      <4> QED
        BY <1>1, <2>3, <4>1 DEF n
    <3>3. {1, 2, 3} \subseteq 1..n + 3 /\ \A j \in 1..n : 3 + j \in 1..n + 3 /\ (3 + j) - 3 = j
      BY <1>1
    <3>4. begun[1] = a /\ begun[2] = b /\ begun[3] = d
      BY <2>3, <3>2, <3>3
    <3>5. \A j \in 1..n : begun[3 + j] = e[j]
      BY <1>1, <3>2, <3>3
    <3> QED
      BY <3>1, <3>4, <3>5
  <2>6. line = begun \o back
    BY <2>1, <2>4 DEF IsFramed
  <2>7. /\ line \in Seq(P) /\ Len(line) = n + 5
        /\ \A i \in 1..n + 3 : line[i] = begun[i]
        /\ line[n + 4] = back[1] /\ line[n + 5] = back[2]
    <3>1. line \in Seq(P) /\ Len(line) = n + 5
      <4>1. begun \in Seq(P)
        BY <2>5
      <4>2. line \in Seq(P) /\ Len(line) = Len(begun) + Len(back)
        BY <2>2, <2>6, <4>1
      <4> QED
        BY <1>1, <2>5, <2>3, <4>2
    <3>2. \A i \in 1..n + 5 : line[i] = IF i <= n + 3 THEN begun[i] ELSE back[i - (n + 3)]
      <4>1. begun \in Seq(P)
        BY <2>5
      <4>2. ASSUME NEW i \in 1..Len(begun) + Len(back)
            PROVE  line[i] = IF i <= Len(begun) THEN begun[i] ELSE back[i - Len(begun)]
        BY <2>2, <2>6, <4>1
      <4> QED
        BY <1>1, <2>5, <2>3, <4>2
    <3>3. \A i \in 1..n + 3 : line[i] = begun[i]
      BY <1>1, <3>2
    <3>4. n + 4 \in 1..n + 5 /\ n + 5 \in 1..n + 5 /\ ~(n + 4 <= n + 3) /\ ~(n + 5 <= n + 3)
          /\ (n + 4) - (n + 3) = 1 /\ (n + 5) - (n + 3) = 2
      BY <1>1
    <3>5. line[n + 4] = back[1] /\ line[n + 5] = back[2]
      BY <3>2, <3>4
    <3> QED
      BY <3>1, <3>3, <3>5
  <2> QED
    BY <1>1, <2>5, <2>7, <2>3
<1>4. DOMAIN line = 1..n + 5
  BY <1>3
<1>5. \A j \in 1..n + 1 : IsEscaped(line, 3 + j) <=> IsEscaped(e, j)
  <2>1. line[3] # "backslash"
    BY <1>3
  <2>2. PICK m : m = 3
    OBVIOUS
  <2>3. m \in Nat /\ line[m] # "backslash" /\ \A j \in 1..n : line[m + j] = e[j]
    BY <1>3, <2>1, <2>2
  <2>4. \A j \in 1..n + 1 : IsEscaped(line, m + j) <=> IsEscaped(e, j)
    BY <1>1, <2>3, EscapedAgrees
  <2> QED
    BY <2>2, <2>4
<1>6. ~IsEscaped(line, 3)
  <2>1. PICK k : k = 2
    OBVIOUS
  <2>2. k \in Nat \ {0} /\ line[k] # "backslash"
    BY <1>3, <2>1
  <2>3. ~IsEscaped(line, k + 1)
    BY <2>2, EscapedRecursion
  <2>4. k + 1 = 3
    BY <2>1
  <2> QED
    BY <2>3, <2>4
<1>7. ~IsEscaped(line, n + 4)
  <2>1. n + 1 \in 1..n + 1 /\ 3 + (n + 1) = n + 4
    BY <1>1
  <2>2. IsEscaped(line, 3 + (n + 1)) <=> IsEscaped(e, n + 1)
    BY <1>5, <2>1
  <2> QED
    BY <1>1, <2>1, <2>2
<1>8. ASSUME NEW i \in 1..n + 5
      PROVE  i \in {1, 2, 3, n + 4, n + 5} \/ \E j \in 1..n : i = 3 + j
  <2>1. i \in {1, 2, 3, n + 4, n + 5} \/ i - 3 \in 1..n
    BY <1>1
  <2>2. i = 3 + (i - 3)
    BY <1>1
  <2> QED
    BY <2>1, <2>2
<1>9. \A i \in 1..n + 5 : (line[i] = d /\ ~IsEscaped(line, i)) <=> i \in {3, n + 4}
  <2> SUFFICES ASSUME NEW i \in 1..n + 5
               PROVE  (line[i] = d /\ ~IsEscaped(line, i)) <=> i \in {3, n + 4}
    OBVIOUS
  <2>1. CASE i \in {1, 2, n + 5}
    <3>1. line[i] # d
      BY <1>3, <2>1
    <3>2. i \notin {3, n + 4}
      BY <1>1, <2>1
    <3> QED
      BY <3>1, <3>2
  <2>2. CASE i \in {3, n + 4}
    BY <1>3, <1>6, <1>7, <2>2
  <2>3. ASSUME NEW j \in 1..n, i = 3 + j
        PROVE  (line[i] = d /\ ~IsEscaped(line, i)) <=> i \in {3, n + 4}
    <3>1. i \notin {3, n + 4} /\ j \in 1..n + 1
      BY <1>1, <2>3
    <3>2. line[3 + j] = e[j] /\ (IsEscaped(line, 3 + j) <=> IsEscaped(e, j))
      BY <1>3, <1>5, <3>1
    <3>3. e[j] = d => IsEscaped(e, j)
      BY <1>1
    <3> QED
      BY <2>3, <3>1, <3>2, <3>3
  <2> QED
    BY <1>8, <2>1, <2>2, <2>3
<1>10. Delimiters(line, d) = {3, Len(line) - 1}
  <2>1. Len(line) - 1 = n + 4 /\ {3, n + 4} \subseteq 1..n + 5
    BY <1>1, <1>3
  <2> QED
    BY <1>4, <1>9, <2>1 DEF Delimiters
<1>11. SubSeq(line, 4, Len(line) - 2) = e
  <2>1. Len(line) - 2 = n + 3
    BY <1>1, <1>3
  <2> DEFINE text == SubSeq(line, 4, n + 3)
  <2>2. text \in Seq(P) /\ Len(text) = n /\ \A i \in 1..n : text[i] = line[3 + i]
    <3>1. n + 3 \in Int /\ 4 \in Int /\ \A i \in 4..n + 3 : line[i] \in P
      BY <1>1, <1>3
    <3>2. /\ text \in Seq(P)
          /\ Len(text) = IF 4 <= n + 3 THEN (n + 3) - 4 + 1 ELSE 0
          /\ \A i \in 1..(n + 3) - 4 + 1 : text[i] = line[4 + i - 1]
      BY <3>1, SubSeqProperties
    <3>3. (n + 3) - 4 + 1 = n /\ (IF 4 <= n + 3 THEN (n + 3) - 4 + 1 ELSE 0) = n
      BY <1>1
    <3>4. \A i \in 1..n : 4 + i - 1 = 3 + i
      BY <1>1
    <3> HIDE DEF text
    <3> QED
      BY <3>2, <3>3, <3>4
  <2> HIDE DEF text
  <2>3. text = e
    BY <1>1, <1>2, <1>3, <2>2, SeqEqual DEF n
  <2> QED
    BY <2>1, <2>3 DEF text
<1>12. \A i \in DOMAIN line : line[i] # "newline"
  <2> SUFFICES ASSUME NEW i \in 1..n + 5 PROVE line[i] # "newline"
    BY <1>4
  <2>1. CASE i \in {1, 2, 3, n + 4, n + 5}
    BY <1>3, <2>1
  <2>2. ASSUME NEW j \in 1..n, i = 3 + j PROVE line[i] # "newline"
    BY <1>1, <1>3, <2>2
  <2> QED
    BY <1>8, <2>1, <2>2
<1>13. Last(line) = c
  BY <1>3 DEF Last
<1> QED
  BY <1>1, <1>3, <1>10, <1>11, <1>12, <1>13 DEF Framed

-------------------------------------------------------------------------------
(* The chart.                                                               *)

LinesOf(g) == {NodeLine(node) : node \in g.nodes} \cup {EdgeLine(e) : e \in g.edges}

ChartInv == chart # None => Exported /\ chart = LinesOf(graph)

\* Exporting a graph goes on as it does without a chart.
THEOREM ChartedIsExported == ChartSpec => Spec
<1>1. ChartInit => Init
  BY DEF ChartInit
<1>2. [ChartNext]_<<vars, chart>> => [Next]_vars
  BY DEF ChartNext, ToMermaid, Next, vars
<1> QED
  BY <1>1, <1>2, PTL DEF ChartSpec, Spec

\* A chart is made once, of the graph that was exported.
LEMMA ChartIsOfTheGraph == ChartSpec => []ChartInv
<1>1. ChartInit => ChartInv
  BY DEF ChartInit, ChartInv
<1>2. ChartInv /\ [ChartNext]_<<vars, chart>> => ChartInv'
  <2> SUFFICES ASSUME ChartInv, [ChartNext]_<<vars, chart>> PROVE ChartInv'
    OBVIOUS
  <2>1. CASE Export /\ UNCHANGED chart
    BY <2>1 DEF ChartInv, Export, Exported
  <2>2. CASE ToMermaid
    <3>1. UNCHANGED <<wf, phase, graph>> /\ Exported
      BY <2>2 DEF ToMermaid, vars
    <3>2. chart' = LinesOf(graph)
      BY <2>2 DEF ToMermaid, LinesOf
    <3>3. LinesOf(graph)' = LinesOf(graph)
      BY <3>1 DEF LinesOf, NodeLine, EdgeLine, Label
    <3> QED
      BY <3>1, <3>2, <3>3 DEF ChartInv, Exported
  <2>3. CASE (Done /\ UNCHANGED chart) \/ UNCHANGED <<vars, chart>>
    <3>1. UNCHANGED <<wf, phase, graph, chart>>
      BY <2>3 DEF Done, vars
    <3>2. LinesOf(graph)' = LinesOf(graph)
      BY <3>1 DEF LinesOf, NodeLine, EdgeLine, Label
    <3> QED
      BY <3>1, <3>2 DEF ChartInv, Exported
  <2> QED
    BY <2>1, <2>2, <2>3 DEF ChartNext
<1> QED
  BY <1>1, <1>2, PTL DEF ChartSpec

-------------------------------------------------------------------------------
(* The lines of a graph.                                                    *)

\* A chart of a valid definition.
Charted ==
  /\ wf \in Workflows
  /\ IsWorkflowDefinition(wf)
  /\ ValidWorkflowDefinition(wf)
  /\ graph = ExportWorkflowGraph(wf)
  /\ chart = LinesOf(graph)

LEMMA NodesKnown ==
  ASSUME Charted, NEW node \in graph.nodes
  PROVE  node \in (DOMAIN wf.steps) \cup {END}
BY DEF Charted, ExportWorkflowGraph, GraphNodes

\* The ends of an edge are nodes, and its key is a string if it has one.
LEMMA EdgesKnown ==
  ASSUME Charted, NEW e \in graph.edges
  PROVE  /\ e.source \in DOMAIN wf.steps
         /\ e.target \in (DOMAIN wf.steps) \cup {END}
         /\ e.key # None => e.key \in Strings
<1>1. e.source \in DOMAIN wf.steps /\ e.target \in (DOMAIN wf.steps) \cup {END}
  BY EdgesLeadForward DEF Charted
<1>2. e \in RouteEdges(wf) \/ e \in LinearEdges(wf)
  BY DEF Charted, ExportWorkflowGraph, GraphEdges
<1>3. CASE e \in RouteEdges(wf)
  <2>1. PICK i \in DOMAIN wf.steps : \E k \in DOMAIN Routes(wf.steps[i]) : e.key = k
    BY <1>3 DEF RouteEdges
  <2>2. wf.steps[i].routes # None /\ e.key \in DOMAIN wf.steps[i].routes
    BY <2>1 DEF Routes
  <2>3. IsStepDefinition(wf.steps[i]) /\ ValidStepDefinition(wf.steps[i])
    BY <2>1 DEF Charted, IsWorkflowDefinition, ValidWorkflowDefinition
  <2>4. e.key \in Strings \cup {"", Malformed} /\ e.key \notin {"", Malformed}
    BY <2>2, <2>3 DEF IsStepDefinition, IsRoutes, ValidStepDefinition
  <2> QED
    BY <1>1, <2>4
<1>4. CASE e \in LinearEdges(wf)
  <2>1. e.key = None
    BY <1>4 DEF LinearEdges
  <2> QED
    BY <1>1, <2>1
<1> QED
  BY <1>2, <1>3, <1>4

LEMMA LabelsTyped ==
  ASSUME Charted, NEW node \in DOMAIN wf.steps
  PROVE  Label(wf.steps[node]) \in Seq(Characters \cup {"approval"})
<1> DEFINE s == wf.steps[node]
           S == Characters \cup {"approval"}
<1>1. IsStepDefinition(s) /\ ValidStepDefinition(s)
  BY DEF Charted, IsWorkflowDefinition, ValidWorkflowDefinition
<1>2. s.name \in Strings
  BY <1>1 DEF IsStepDefinition, ValidStepDefinition
<1>3. Spelling[s.name] \in Seq(Characters)
  BY <1>2, MermaidAssumption
<1>4. Spelling[s.name] \in Seq(S)
  BY <1>3
<1>5. (IF s.requiresApproval THEN <<"newline", "approval">> ELSE <<>>) \in Seq(S)
  BY DEF Characters
<1> HIDE DEF S, s
<1>6. Spelling[s.name] \o (IF s.requiresApproval THEN <<"newline", "approval">> ELSE <<>>)
        \in Seq(S)
  BY <1>4, <1>5
<1> QED
  BY <1>6 DEF Label, S, s

\* The line of a step.
LEMMA StepLines ==
  ASSUME Charted, NEW node \in DOMAIN wf.steps
  PROVE  Framed(NodeLine(node), Id(node), "[", "quote", Label(wf.steps[node]), "]")
<1> DEFINE S == Characters \cup {"approval"}
<1>1. PICK line, a, b, c, d, t, e :
        /\ line = NodeLine(node)
        /\ a = Id(node) /\ b = "[" /\ d = "quote" /\ c = "]"
        /\ t = Label(wf.steps[node]) /\ e = EscapeMermaidText(t)
  OBVIOUS
<1>2. node # END
  BY StepsAreNumbered, GraphAssumption DEF Charted
<1>3. line = (<<a, b, d>> \o e) \o <<d, c>>
  BY <1>1, <1>2 DEF NodeLine
<1>4. Characters \subseteq S /\ t \in Seq(S)
  BY <1>1, LabelsTyped
<1>5. Shows(e, t, d, S)
  <2>1. Shows(EscapeMermaidText(t), t, "quote", S)
    <3> HIDE DEF S
    <3> QED
      BY <1>4, TextShows
  <2> QED
    BY <1>1, <2>1
<1>6. Id(node) \notin Characters
  BY IdAssumption DEF Charted
<1>7. d \notin {a, b, c, "backslash"} /\ b # "backslash" /\ "newline" \notin {a, b, c, d}
  BY <1>1, <1>6 DEF Characters
<1>8. IsFramed(line, a, b, d, e, c)
  BY <1>3 DEF IsFramed
<1>9. Framed(line, a, b, d, t, c)
  <2> HIDE DEF S
  <2> QED
    BY <1>5, <1>7, <1>8, FramedTextIsRead
<1> QED
  BY <1>1, <1>9

\* The line of an edge with a key.
LEMMA RouteLines ==
  ASSUME Charted, NEW x \in graph.edges, x.key # None
  PROVE  Framed(EdgeLine(x), Id(x.source), "-->", "bar", Spelling[x.key], Id(x.target))
<1> DEFINE S == Characters
<1>1. PICK line, a, b, c, d, t, e :
        /\ line = EdgeLine(x)
        /\ a = Id(x.source) /\ b = "-->" /\ d = "bar" /\ c = Id(x.target)
        /\ t = Spelling[x.key] /\ e = EscapeMermaidEdgeLabel(t)
  OBVIOUS
<1>2. line = (<<a, b, d>> \o e) \o <<d, c>>
  BY <1>1 DEF EdgeLine
<1>3. t \in Seq(Characters)
  BY <1>1, EdgesKnown, MermaidAssumption
<1>4. Shows(e, t, d, Characters)
  <2>1. Characters \subseteq Characters
    OBVIOUS
  <2>2. Shows(EscapeMermaidEdgeLabel(t), t, "bar", Characters)
    BY <1>3, <2>1, KeyShows
  <2> QED
    BY <1>1, <2>2
<1>5. Id(x.source) \notin Characters /\ Id(x.target) \notin Characters
  BY EdgesKnown, IdAssumption DEF Charted
<1>6. d \notin {a, b, c, "backslash"} /\ b # "backslash" /\ "newline" \notin {a, b, c, d}
  BY <1>1, <1>5 DEF Characters
<1>7. IsFramed(line, a, b, d, e, c)
  BY <1>2 DEF IsFramed
<1>8. Framed(line, a, b, d, t, c)
  BY <1>4, <1>6, <1>7, FramedTextIsRead
<1> QED
  BY <1>1, <1>8

\* END and edges without a key hold no text.
LEMMA OtherLines ==
  ASSUME Charted
  PROVE  /\ NodeLine(END) = <<Id(END), "((", "END", "))">> /\ Id(END) \notin Characters
         /\ \A x \in graph.edges : x.key = None =>
              /\ EdgeLine(x) = <<Id(x.source), "-->", Id(x.target)>>
              /\ Id(x.source) \notin Characters /\ Id(x.target) \notin Characters
<1>1. NodeLine(END) = <<Id(END), "((", "END", "))">>
  BY DEF NodeLine
<1>2. Id(END) \notin Characters
  BY IdAssumption DEF Charted
<1>3. ASSUME NEW x \in graph.edges, x.key = None
      PROVE  /\ EdgeLine(x) = <<Id(x.source), "-->", Id(x.target)>>
             /\ Id(x.source) \notin Characters /\ Id(x.target) \notin Characters
  <2>1. EdgeLine(x) = <<Id(x.source), "-->", Id(x.target)>>
    BY <1>3 DEF EdgeLine
  <2>2. Id(x.source) \notin Characters /\ Id(x.target) \notin Characters
    BY EdgesKnown, IdAssumption DEF Charted
  <2> QED
    BY <2>1, <2>2
<1> QED
  BY <1>1, <1>2, <1>3

\* What a line begins with tells what it stands for.
LEMMA LinesTold ==
  ASSUME Charted
  PROVE  /\ \A node \in graph.nodes \ {END} : NodeLine(node)[2] = "["
         /\ NodeLine(END)[2] = "(("
         /\ \A x \in graph.edges :
              /\ EdgeLine(x)[2] = "-->"
              /\ EdgeLine(x)[3] = "bar" <=> x.key # None
<1>1. ASSUME NEW node \in graph.nodes \ {END} PROVE NodeLine(node)[2] = "["
  BY NodesKnown, StepLines DEF Framed
<1>2. NodeLine(END)[2] = "(("
  BY OtherLines
<1>3. ASSUME NEW x \in graph.edges
      PROVE  EdgeLine(x)[2] = "-->" /\ (EdgeLine(x)[3] = "bar" <=> x.key # None)
  <2>1. CASE x.key = None
    <3>1. EdgeLine(x) = <<Id(x.source), "-->", Id(x.target)>> /\ Id(x.target) \notin Characters
      BY <2>1, OtherLines
    <3> QED
      BY <2>1, <3>1 DEF Characters
  <2>2. CASE x.key # None
    BY <2>2, RouteLines DEF Framed
  <2> QED
    BY <2>1, <2>2
<1> QED
  BY <1>1, <1>2, <1>3

\* The reader sorts the lines as they were made.
LEMMA LinesSorted ==
  ASSUME Charted
  PROVE  /\ Labelled = {NodeLine(node) : node \in graph.nodes \ {END}}
         /\ Keyed = {EdgeLine(x) : x \in {y \in graph.edges : y.key # None}}
         /\ {line \in chart : line[2] = "-->"} \ Keyed
              = {EdgeLine(x) : x \in {y \in graph.edges : y.key = None}}
<1>1. chart = {NodeLine(node) : node \in graph.nodes} \cup {EdgeLine(e) : e \in graph.edges}
  BY DEF Charted, LinesOf
<1>2. PICK box, arrow, round : box = "[" /\ arrow = "-->" /\ round = "(("
  OBVIOUS
<1>3. box # arrow /\ box # round /\ arrow # round
  BY <1>2
<1>4. /\ \A node \in graph.nodes \ {END} : NodeLine(node)[2] = box
      /\ NodeLine(END)[2] = round
      /\ \A x \in graph.edges :
           EdgeLine(x)[2] = arrow /\ (EdgeLine(x)[3] = "bar" <=> x.key # None)
  BY <1>2, LinesTold
<1>5. \A line : line \in Labelled <=>
        line \in {NodeLine(node) : node \in graph.nodes \ {END}}
  <2>1. \A line : line \in Labelled <=> line \in chart /\ line[2] = box
    BY <1>2 DEF Labelled
  <2> QED
    BY <1>1, <1>3, <1>4, <2>1
<1>6. \A line : line \in Keyed <=>
        line \in {EdgeLine(x) : x \in {y \in graph.edges : y.key # None}}
  <2>1. \A line : line \in Keyed <=> line \in chart /\ line[2] = arrow /\ line[3] = "bar"
    BY <1>2 DEF Keyed
  <2> QED
    BY <1>1, <1>3, <1>4, <2>1
<1>7. \A line : line \in {l \in chart : l[2] = "-->"} \ Keyed <=>
        line \in {EdgeLine(x) : x \in {y \in graph.edges : y.key = None}}
  <2>1. \A line : line \in {l \in chart : l[2] = "-->"} \ Keyed <=>
          line \in chart /\ line[2] = arrow /\ line[3] # "bar"
    BY <1>2 DEF Keyed
  <2> QED
    BY <1>1, <1>3, <1>4, <2>1
<1> QED
  BY <1>5, <1>6, <1>7

\* What every line of a chart is.
LEMMA ChartedIsRead == ASSUME Charted PROVE LinesStayWhole /\ LabelsStayInside /\ ChartReadsBack
<1>1. \A node \in graph.nodes \ {END} :
        Framed(NodeLine(node), Id(node), "[", "quote", Label(wf.steps[node]), "]")
  BY NodesKnown, StepLines
<1>2. \A x \in graph.edges : x.key # None =>
        Framed(EdgeLine(x), Id(x.source), "-->", "bar", Spelling[x.key], Id(x.target))
  BY RouteLines
<1>3. /\ Labelled = {NodeLine(node) : node \in graph.nodes \ {END}}
      /\ Keyed = {EdgeLine(x) : x \in {y \in graph.edges : y.key # None}}
      /\ {line \in chart : line[2] = "-->"} \ Keyed
           = {EdgeLine(x) : x \in {y \in graph.edges : y.key = None}}
  BY LinesSorted
<1>4. LinesStayWhole
  <2> SUFFICES ASSUME NEW line \in chart, NEW i \in DOMAIN line
               PROVE  line[i] # "newline"
    BY DEF LinesStayWhole
  <2>1. \/ \E node \in graph.nodes : line = NodeLine(node)
        \/ \E x \in graph.edges : line = EdgeLine(x)
    BY DEF Charted, LinesOf
  <2>2. ASSUME NEW node \in graph.nodes \ {END}, line = NodeLine(node) PROVE line[i] # "newline"
    BY <1>1, <2>2 DEF Framed
  <2>3. ASSUME line = NodeLine(END) PROVE line[i] # "newline"
    <3>1. line = <<Id(END), "((", "END", "))">> /\ Id(END) # "newline"
      BY <2>3, OtherLines DEF Characters
    <3>2. i \in {1, 2, 3, 4}
      BY <3>1
    <3> QED
      BY <3>1, <3>2
  <2>4. ASSUME NEW x \in graph.edges, line = EdgeLine(x), x.key # None PROVE line[i] # "newline"
    BY <1>2, <2>4 DEF Framed
  <2>5. ASSUME NEW x \in graph.edges, line = EdgeLine(x), x.key = None PROVE line[i] # "newline"
    <3>1. /\ line = <<Id(x.source), "-->", Id(x.target)>>
          /\ Id(x.source) # "newline" /\ Id(x.target) # "newline"
      BY <2>5, OtherLines DEF Characters
    <3>2. i \in {1, 2, 3}
      BY <3>1
    <3> QED
      BY <3>1, <3>2
  <2> QED
    BY <2>1, <2>2, <2>3, <2>4, <2>5
<1>5. LabelsStayInside
  <2>1. ASSUME NEW line \in Labelled PROVE Delimiters(line, "quote") = {3, Len(line) - 1}
    BY <1>1, <1>3 DEF Framed
  <2>2. ASSUME NEW line \in Keyed PROVE Delimiters(line, "bar") = {3, Len(line) - 1}
    BY <1>2, <1>3 DEF Framed
  <2> QED
    BY <2>1, <2>2 DEF LabelsStayInside
<1>6. ChartReadsBack
  <2> DEFINE ReadOf(line) == Unescape(SubSeq(line, 4, Len(line) - 2))
  <2>1. \A node \in graph.nodes \ {END} :
          NodeLine(node)[1] = Id(node) /\ ReadOf(NodeLine(node)) = Label(wf.steps[node])
    BY <1>1 DEF Framed
  <2>2. \A x \in graph.edges : x.key # None =>
          /\ EdgeLine(x)[1] = Id(x.source) /\ ReadOf(EdgeLine(x)) = Spelling[x.key]
          /\ Last(EdgeLine(x)) = Id(x.target)
    BY <1>2 DEF Framed
  <2>3. \A x \in graph.edges : x.key = None =>
          EdgeLine(x)[1] = Id(x.source) /\ EdgeLine(x)[3] = Id(x.target)
    <3> SUFFICES ASSUME NEW x \in graph.edges, x.key = None
                 PROVE  EdgeLine(x)[1] = Id(x.source) /\ EdgeLine(x)[3] = Id(x.target)
      OBVIOUS
    <3>1. EdgeLine(x) = <<Id(x.source), "-->", Id(x.target)>>
      BY OtherLines
    <3> QED
      BY <3>1
  <2> HIDE DEF ReadOf
  <2>4. {<<line[1], ReadOf(line)>> : line \in Labelled} =
          {<<Id(node), Label(wf.steps[node])>> : node \in graph.nodes \ {END}}
    BY <1>3, <2>1
  <2>5. {<<line[1], ReadOf(line), Last(line)>> : line \in Keyed} =
          {<<Id(e.source), Spelling[e.key], Id(e.target)>> :
             e \in {x \in graph.edges : x.key # None}}
    BY <1>3, <2>2
  <2>6. {<<line[1], line[3]>> : line \in {x \in chart : x[2] = "-->"} \ Keyed} =
          {<<Id(e.source), Id(e.target)>> : e \in {x \in graph.edges : x.key = None}}
    BY <1>3, <2>3
  <2> QED
    BY <2>4, <2>5, <2>6 DEF ChartReadsBack, ReadOf
<1> QED
  BY <1>4, <1>5, <1>6

LEMMA Charting == ChartSpec => [](chart # None => Charted)
<1>1. IInv /\ ChartInv => (chart # None => Charted)
  BY InspectionAssumption DEF IInv, ChartInv, Charted
<1> QED
  BY <1>1, ChartedIsExported, OnlyValidExported, ChartIsOfTheGraph, PTL

\* Whatever names hold, every node and every edge is one line. (LinesStayWhole)
THEOREM LinesAlwaysStayWhole == ChartSpec => []LinesStayWhole
<1>1. (chart # None => Charted) => LinesStayWhole
  BY ChartedIsRead DEF LinesStayWhole
<1> QED
  BY <1>1, Charting, PTL

\* Whatever names and route keys hold, they end where they seem to. (LabelsStayInside)
THEOREM LabelsAlwaysStayInside == ChartSpec => []LabelsStayInside
<1>1. (chart # None => Charted) => LabelsStayInside
  BY ChartedIsRead DEF LabelsStayInside
<1> QED
  BY <1>1, Charting, PTL

\* For names and route keys of every length and graphs of every size: the chart says what
\* the graph says. (ChartReadsBack)
THEOREM ChartAlwaysReadsBack == ChartSpec => []ChartReadsBack
<1>1. (chart # None => Charted) => ChartReadsBack
  BY ChartedIsRead DEF ChartReadsBack
<1> QED
  BY <1>1, Charting, PTL
===============================================================================
