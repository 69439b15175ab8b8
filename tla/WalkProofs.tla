------------------------------- MODULE WalkProofs -------------------------------
(***************************************************************************)
(* The way a run takes through its workflow, for every workflow: the route  *)
(* decisions explain it, and it is a walk over the exported graph, so that  *)
(* the executor implements WorkflowWalk.                                   *)
(***************************************************************************)
EXTENDS ExecutorProofs

\* The step that comes after a recorded one.
NextOf(r) == IF r.route = None THEN r.step + 1 ELSE r.route.next

\* The route of the result that is not recorded yet.
Pending == IF InVisit /\ stepResult # None THEN {stepResult.route} ELSE {}

RecordedRoutes == {executed[k].route : k \in DOMAIN executed}

\* A step that succeeded took the route of its output, if it has routes.
Routed(r) ==
  r.status = "succeeded" =>
    IF wf.steps[r.step].routes = None
    THEN r.route = None
    ELSE RouteResolves(wf.steps[r.step], r.output) /\ r.route = RouteDecision(wf, r.step, r.output)

Chained ==
  \A k \in DOMAIN executed :
    executed[k].step = IF k = 1 THEN 1 ELSE NextOf(executed[k-1])

\* Where the run is follows from what it has recorded.
Placed ==
  /\ pc \in {"stepStarted", "approve", "invoke"} => stepResult = None
  /\ pc \in Before =>
       /\ current = IF executed = <<>> THEN 1 ELSE NextOf(executed[Len(executed)])
       /\ \A k \in DOMAIN trace :
            trace[k].step < current \/ (pc = "stepFinished" /\ trace[k].step = current)

Traced ==
  /\ \A j, k \in DOMAIN trace : j < k => trace[j].step < trace[k].step
  /\ \A d : (\E k \in DOMAIN trace : trace[k] = d) <=> d \in (RecordedRoutes \cup Pending) \ {None}

PInv ==
  /\ Chained
  /\ Placed
  /\ Traced
  /\ \A k \in DOMAIN executed : Routed(executed[k])
  /\ pc = "stepFinished" => Routed(stepResult)

-------------------------------------------------------------------------------
(* Lemmas.                                                                  *)

\* There is a result to record only at the end of a visit.
LEMMA PendingAtEnd ==
  ASSUME IInv, RInv, PInv, pc # "done"
  PROVE  Pending = IF pc = "stepFinished" THEN {stepResult.route} ELSE {}
<1>1. boundary = None
  BY DEF RInv, Ended
<1>2. pc = "stepFinished" => stepResult # None
  BY NoneAssumption DEF IInv, Control, Settled
<1>3. pc \in {"stepStarted", "approve", "invoke"} => stepResult = None
  BY DEF PInv, Placed
<1>4. InVisit <=> pc \in {"stepStarted", "approve", "invoke", "stepFinished"}
  BY <1>1 DEF InVisit, Escaped
<1> QED
  BY <1>2, <1>3, <1>4 DEF Pending

\* A step of the body that does not move.
LEMMA NothingMoves ==
  ASSUME PInv, UNCHANGED <<wf, current, executed, trace>>, Pending' = Pending,
         pc' \in Before => pc \in Before /\ (pc' = "stepFinished" <=> pc = "stepFinished"),
         pc' \in {"stepStarted", "approve", "invoke"} => stepResult' = None,
         pc' = "stepFinished" => stepResult' = stepResult
  PROVE  PInv'
<1>1. Chained'
  BY DEF PInv, Chained, NextOf
<1>2. Placed'
  BY DEF PInv, Placed, NextOf
<1>3. RecordedRoutes' = RecordedRoutes
  BY DEF RecordedRoutes
<1>4. Traced'
  BY <1>3 DEF PInv, Traced
<1>5. \A k \in DOMAIN executed : Routed(executed[k])'
  BY DEF PInv, Routed
<1>6. pc' = "stepFinished" => Routed(stepResult)'
  BY DEF PInv, Routed, Before, Visiting
<1> QED
  BY <1>1, <1>2, <1>4, <1>5, <1>6 DEF PInv

\* A result of the current step is recorded behind those of earlier steps.
LEMMA RecordedLast ==
  ASSUME IInv, RInv, pc \in Visiting, NEW r, r.step = current, executed' = Put(executed, r)
  PROVE  /\ Len(executed) \in Nat
         /\ DOMAIN executed = 1..Len(executed)
         /\ Len(executed') = Len(executed) + 1
         /\ DOMAIN executed' = 1..Len(executed) + 1
         /\ executed'[Len(executed) + 1] = r
         /\ \A k \in 1..Len(executed) : executed'[k] = executed[k]
         /\ executed' # <<>>
         /\ \A k \in DOMAIN executed : executed[k].step \in Nat /\ executed[k].step < current
<1>1. executed \in Seq(StepResults) /\ current \in Nat
  BY DEF IInv, TypeOK
<1>2. \A k \in DOMAIN executed : executed[k].step \in Nat /\ executed[k].step < current
  <2>1. \A k \in DOMAIN executed : executed[k].step \in DOMAIN wf.steps /\ executed[k].step < current
    BY DEF RInv, Recorded, Accounted, Before
  <2> QED
    BY <2>1, DefinitionOfRun DEF IInv
<1>3. executed' = Append(executed, r)
  BY <1>1, <1>2, PutAppends
<1> QED
  BY <1>1, <1>2, <1>3

LEMMA RecordingMoves ==
  ASSUME IInv, RInv, PInv, pc \in Visiting, UNCHANGED <<wf, trace>>, boundary' = None,
         NEW r, r.step = current, executed' = Put(executed, r), Routed(r),
         Pending \ {None} = {r.route} \ {None},
         \/ pc' = "buildResult"
         \/ pc' = "loop" /\ current' \in Nat /\ current' = NextOf(r) /\ current < current'
  PROVE  PInv'
<1> DEFINE n == Len(executed)
<1>1. /\ n \in Nat
      /\ DOMAIN executed = 1..n
      /\ Len(executed') = n + 1
      /\ DOMAIN executed' = 1..n + 1
      /\ executed'[n + 1] = r
      /\ \A k \in 1..n : executed'[k] = executed[k]
      /\ executed' # <<>>
      /\ current \in Nat
  BY RecordedLast DEF IInv, TypeOK
<1>2. current = IF executed = <<>> THEN 1 ELSE NextOf(executed[n])
  BY DEF PInv, Placed, Before
<1>3. executed = <<>> <=> n = 0
  BY DEF IInv, TypeOK
<1>4. Pending' = {}
  BY DEF Pending, InVisit, Escaped
<1> HIDE DEF n
<1>5. Chained'
  <2> SUFFICES ASSUME NEW k \in 1..n + 1
               PROVE  executed'[k].step = IF k = 1 THEN 1 ELSE NextOf(executed'[k-1])
    BY <1>1 DEF Chained, NextOf
  <2>1. k # 1 => k - 1 \in 1..n
    BY <1>1
  <2>2. CASE k \in 1..n
    <3>1. executed[k].step = IF k = 1 THEN 1 ELSE NextOf(executed[k-1])
      BY <2>2, <1>1 DEF PInv, Chained
    <3> QED
      BY <2>1, <2>2, <3>1, <1>1
  <2>3. CASE k = n + 1
    <3>1. k = 1 <=> executed = <<>>
      BY <2>3, <1>1, <1>3
    <3>2. k # 1 => executed'[k-1] = executed[n]
      BY <2>1, <2>3, <1>1
    <3> QED
      BY <2>3, <3>1, <3>2, <1>1, <1>2
  <2> QED
    BY <2>2, <2>3, <1>1
<1>6. \A d : (\E k \in DOMAIN executed' : executed'[k].route = d) <=>
              (\E k \in DOMAIN executed : executed[k].route = d) \/ d = r.route
  <2>1. \A k : k \in 1..n + 1 <=> k \in 1..n \/ k = n + 1
    BY <1>1
  <2> QED
    BY <2>1, <1>1
<1>7. \A d : d \in (RecordedRoutes' \cup {}) \ {None} <=> d \in (RecordedRoutes \cup Pending) \ {None}
  BY <1>6 DEF RecordedRoutes
<1>8. Traced'
  BY <1>4, <1>7 DEF PInv, Traced
<1>9. Placed'
  <2>1. CASE pc' = "buildResult"
    BY <2>1 DEF Placed, Before, Visiting
  <2>2. CASE pc' = "loop" /\ current' \in Nat /\ current' = NextOf(r) /\ current < current'
    <3>1. executed'[Len(executed')] = r
      BY <1>1
    <3>2. \A k \in DOMAIN trace : trace[k].step \in Nat
      <4>1. \A k \in DOMAIN trace : trace[k] \in RouteDecisions
        BY DEF IInv, TypeOK
      <4> QED
        BY <4>1 DEF RouteDecisions
    <3>3. \A k \in DOMAIN trace : trace[k].step < current \/ trace[k].step = current
      BY DEF PInv, Placed, Before
    <3>4. current' \in Nat
      BY <2>2
    <3>5. \A k \in DOMAIN trace : trace[k].step < current'
      BY <2>2, <3>2, <3>3, <3>4, <1>1
    <3> QED
      BY <2>2, <3>1, <3>5, <1>1 DEF Placed, NextOf
  <2> QED
    BY <2>1, <2>2
<1>10. ASSUME NEW k \in DOMAIN executed' PROVE Routed(executed[k])'
  <2>1. CASE k \in 1..n
    BY <2>1, <1>1 DEF PInv, Routed
  <2>2. CASE k = n + 1
    BY <2>2, <1>1 DEF Routed
  <2> QED
    BY <2>1, <2>2, <1>1
<1>11. pc' # "stepFinished"
  OBVIOUS
<1> QED
  BY <1>5, <1>8, <1>9, <1>10, <1>11 DEF PInv

\* What an exception that leaves the run keeps: the visit it left.
LEMMA EscapeStays ==
  ASSUME IInv, RInv, PInv, pc # "done", NEW class \in ErrorClasses, Escape(class), wf' = wf
  PROVE  PInv'
<1>1. UNCHANGED <<current, stepResult, executed, trace>> /\ pc' = "done"
  BY DEF Escape, visit
<1>2. InVisit' = InVisit
  <2>1. boundary = None
    BY DEF RInv, Ended
  <2>2. Escaped' /\ boundary'.cause.at = pc
    <3>1. boundary' = [how |-> "escaped", step |-> 0, cause |-> Error(class, pc)]
      BY DEF Escape
    <3>2. boundary' # None
      <4>1. boundary' \in Boundaries
        BY <3>1, ErrorTyped DEF IInv, TypeOK, Boundaries
      <4> QED
        BY <4>1, NoneAssumption
    <3> QED
      BY <3>1, <3>2 DEF Escaped, Error
  <2> QED
    BY <2>1, <2>2 DEF InVisit, Escaped
<1>3. Pending' = Pending
  BY <1>1, <1>2 DEF Pending
<1> QED
  BY <1>1, <1>3, NothingMoves DEF Before, Visiting

-------------------------------------------------------------------------------
(* The invariant.                                                           *)

LEMMA InitPInv == Init => PInv
<1> SUFFICES ASSUME Init PROVE PInv
  OBVIOUS
<1>1. /\ executed = <<>>
      /\ trace = <<>>
      /\ stepResult = None
      /\ current = 1
      /\ pc = "validate"
  BY DEF Init
<1>2. Pending = {} /\ RecordedRoutes = {}
  BY <1>1 DEF Pending, RecordedRoutes
<1> QED
  BY <1>1, <1>2 DEF PInv, Chained, Placed, Traced

LEMMA NextPInv == IInv /\ RInv /\ PInv /\ [Next]_vars => PInv'
<1> SUFFICES ASSUME IInv, RInv, PInv, [Next]_vars PROVE PInv'
  OBVIOUS
<1>a. pc # "done" => boundary = None
  BY DEF RInv, Ended
<1>b. TypeOK /\ Control
  BY DEF IInv
<1>c. pc # "done" => Pending = IF pc = "stepFinished" THEN {stepResult.route} ELSE {}
  BY PendingAtEnd
<1>d. ASSUME boundary' = None, pc' \notin Visiting PROVE Pending' = {}
  BY <1>d DEF Pending, InVisit, Escaped, Visiting
<1>1. CASE RejectInput
  BY <1>1, EscapeStays, ErrorAssumption DEF RejectInput, FrameworkErrors, input
<1>2. CASE AcceptInput \/ WorkflowStarted \/ LeaveLoop \/ BuildResult
           \/ WorkflowStartedHookFails \/ WorkflowFinished \/ WorkflowFinishedHookFails
  <2>1. /\ UNCHANGED <<wf, current, executed, trace, boundary>>
        /\ pc \notin Visiting \cup {"done"}
        /\ pc' \notin Visiting
        /\ pc' \in Before => pc \in Before
    BY <1>2
       DEF AcceptInput, WorkflowStarted, LeaveLoop, BuildResult, WorkflowStartedHookFails,
           WorkflowFinished, WorkflowFinishedHookFails, input, Before, Visiting
  <2>2. Pending = {} /\ Pending' = {}
    BY <2>1, <1>a, <1>c, <1>d DEF Visiting
  <2> QED
    BY <2>1, <2>2, NothingMoves DEF Visiting
<1>3. CASE RejectMethod
  BY <1>3, EscapeStays, ErrorAssumption DEF RejectMethod, FrameworkErrors, input
<1>4. CASE EnterStep \/ StepStarted \/ Approve
  <2>1. /\ UNCHANGED <<wf, current, executed, trace, boundary>>
        /\ pc \in {"loop", "stepStarted", "approve"}
        /\ pc' \in {"stepStarted", "approve", "invoke"}
        /\ stepResult' = None
    BY <1>4 DEF EnterStep, StepStarted, Approve, input, visit, PInv, Placed
  <2>2. Pending = {} /\ Pending' = {}
    BY <2>1, <1>c DEF Pending
  <2> QED
    BY <2>1, <2>2, NothingMoves DEF Before, Visiting
<1>5. ASSUME pc \in {"approve", "invoke"}, pc' = "stepFinished", UNCHANGED <<wf, current, executed, boundary>>,
             NEW r, r = stepResult', r \in StepResults, r.step = current, Routed(r),
             \/ r.route = None /\ trace' = trace
             \/ r.route # None /\ r.route.step = current /\ trace' = Append(trace, r.route)
      PROVE  PInv'
  <2>1. Pending = {}
    BY <1>5, <1>c
  <2>2. Pending' = {r.route}
    <3>1. InVisit' /\ stepResult' # None
      BY <1>5, <1>a, NoneAssumption DEF InVisit, Escaped
    <3> QED
      BY <3>1, <1>5 DEF Pending
  <2>3. /\ Chained'
        /\ RecordedRoutes' = RecordedRoutes
        /\ \A k \in DOMAIN executed' : Routed(executed[k])'
        /\ Routed(r)'
    BY <1>5 DEF PInv, Chained, NextOf, RecordedRoutes, Routed
  <2>4. /\ current = IF executed = <<>> THEN 1 ELSE NextOf(executed[Len(executed)])
        /\ \A k \in DOMAIN trace : trace[k].step < current
    BY <1>5 DEF PInv, Placed, Before, Visiting
  <2>5. Traced' /\ Placed'
    <3>1. CASE r.route = None /\ trace' = trace
      <4>1. \A d : d \in (RecordedRoutes' \cup Pending') \ {None} <=> d \in (RecordedRoutes \cup Pending) \ {None}
        BY <3>1, <2>1, <2>2, <2>3
      <4>2. Traced'
        BY <3>1, <4>1 DEF PInv, Traced
      <4>3. Placed'
        BY <3>1, <2>4, <1>5 DEF Placed, NextOf
      <4> QED
        BY <4>2, <4>3
    <3>2. CASE r.route # None /\ r.route.step = current /\ trace' = Append(trace, r.route)
      <4> DEFINE n == Len(trace)
      <4>1. /\ n \in Nat
            /\ DOMAIN trace = 1..n
            /\ DOMAIN trace' = 1..n + 1
            /\ trace'[n + 1] = r.route
            /\ \A k \in 1..n : trace'[k] = trace[k]
        BY <3>2, <1>b DEF TypeOK
      <4> HIDE DEF n
      <4>2. \A k : k \in 1..n + 1 <=> k \in 1..n \/ k = n + 1
        BY <4>1
      <4>3. \A d : (\E k \in DOMAIN trace' : trace'[k] = d) <=> (\E k \in DOMAIN trace : trace[k] = d) \/ d = r.route
        BY <4>1, <4>2
      <4>4. \A d : d \in (RecordedRoutes' \cup Pending') \ {None} <=>
                     d \in (RecordedRoutes \cup Pending) \ {None} \/ d = r.route
        BY <3>2, <2>1, <2>2, <2>3
      <4>5. ASSUME NEW j \in 1..n + 1, NEW k \in 1..n + 1, j < k
            PROVE  trace'[j].step < trace'[k].step
        <5>1. j \in 1..n /\ trace'[j] = trace[j]
          BY <4>1, <4>5
        <5>2. CASE k = n + 1
          BY <5>1, <5>2, <4>1, <3>2, <2>4
        <5>3. CASE k \in 1..n
          BY <5>1, <5>3, <4>1, <4>5 DEF PInv, Traced
        <5> QED
          BY <5>2, <5>3, <4>2
      <4>6. Traced'
        BY <4>1, <4>3, <4>4, <4>5 DEF PInv, Traced
      <4>7. \A k \in DOMAIN trace' : trace'[k].step < current \/ trace'[k].step = current
        BY <4>1, <4>2, <3>2, <2>4
      <4>8. Placed'
        BY <4>7, <2>4, <1>5 DEF Placed, NextOf
      <4> QED
        BY <4>6, <4>8
    <3> QED
      BY <1>5, <3>1, <3>2
  <2> QED
    BY <2>3, <2>5, <1>5 DEF PInv
<1>7. IInv'
  BY NextIInv
<1>8. CASE ApprovalFails
  <2>1. PICK r : r = stepResult'
    OBVIOUS
  <2>2. /\ UNCHANGED <<wf, current, executed, boundary, trace>>
        /\ pc = "approve"
        /\ pc' = "stepFinished"
        /\ r.step = current
        /\ r.status = "failed"
        /\ r.route = None
    BY <1>8, <2>1 DEF ApprovalFails, Result, input
  <2>3. r \in StepResults
    BY <2>1, <2>2, <1>7 DEF IInv, Control, Settled
  <2> QED
    BY <2>1, <2>2, <2>3, <1>5 DEF Routed
<1>9. ASSUME NEW output \in Outputs, InvokeReturns(output) PROVE PInv'
  <2>1. PICK r : r = stepResult'
    OBVIOUS
  <2>2. /\ UNCHANGED <<wf, current, executed, boundary>>
        /\ pc = "invoke"
        /\ pc' = "stepFinished"
        /\ current \in DOMAIN wf.steps
    BY <1>9, <1>b DEF InvokeReturns, input, Control, Visiting
  <2>3. r \in StepResults
    BY <2>1, <2>2, <1>7 DEF IInv, Control, Settled
  <2>4. CASE ~RouteResolves(Step, output)
    <3>1. r.step = current /\ r.status = "failed" /\ r.route = None /\ trace' = trace
      BY <1>9, <2>1, <2>4 DEF InvokeReturns, Result
    <3> QED
      BY <3>1, <2>1, <2>2, <2>3, <1>5 DEF Routed
  <2>5. CASE RouteResolves(Step, output) /\ Step.routes = None
    <3>1. r.step = current /\ r.route = None /\ trace' = trace
      BY <1>9, <2>1, <2>5 DEF InvokeReturns, Result
    <3>2. Routed(r)
      BY <3>1, <2>5 DEF Routed, Step
    <3> QED
      BY <3>1, <3>2, <2>1, <2>2, <2>3, <1>5
  <2>6. CASE RouteResolves(Step, output) /\ Step.routes # None
    <3> DEFINE d == RouteDecision(wf, current, output)
    <3>1. r.step = current /\ r.output = output /\ r.route = d /\ trace' = Append(trace, d)
      BY <1>9, <2>1, <2>6 DEF InvokeReturns, Result
    <3>2. d \in RouteDecisions /\ d.step = current
      <4>1. IsWorkflowDefinition(wf) /\ ValidWorkflowDefinition(wf)
        BY <1>b, <2>2, DefinitionOfRun DEF Control
      <4> QED
        BY <4>1, <2>2, <2>6, RoutesLeadForward DEF RouteDecisions, Step
    <3>3. Routed(r)
      BY <3>1, <2>6 DEF Routed, Step
    <3> HIDE DEF d
    <3> QED
      BY <3>1, <3>2, <3>3, <2>1, <2>2, <2>3, <1>5, NoneAssumption
  <2> QED
    BY <2>4, <2>5, <2>6
<1>10. ASSUME NEW class \in Raised \cup {"RuntimeError"}, InvokeRaises(class) PROVE PInv'
  <2>1. PICK r : r = stepResult'
    OBVIOUS
  <2>2. /\ UNCHANGED <<wf, current, executed, trace, boundary>>
        /\ pc = "invoke"
    BY <1>10 DEF InvokeRaises, input
  <2>3. CASE pc' = "invoke" /\ stepResult' = stepResult
    <3>1. stepResult' = None
      BY <2>2, <2>3 DEF PInv, Placed
    <3>2. Pending = {} /\ Pending' = {}
      BY <2>2, <3>1, <1>c DEF Pending
    <3> QED
      BY <2>2, <2>3, <3>1, <3>2, NothingMoves
  <2>4. CASE pc' = "stepFinished" /\ r.step = current /\ r.status = "failed" /\ r.route = None
    <3>1. r \in StepResults
      BY <2>1, <2>4, <1>7 DEF IInv, Control, Settled
    <3> QED
      BY <3>1, <2>1, <2>2, <2>4, <1>5 DEF Routed
  <2> QED
    BY <1>10, <2>1, <2>3, <2>4 DEF InvokeRaises, RetryFrom, Result
<1>11. CASE StepStartedHookFails
  <2>1. PICK r : r = Result("failed", 0, None, HookError(pc), None)
    OBVIOUS
  <2>2. /\ pc = "stepStarted" /\ pc' = "buildResult" /\ boundary' = boundary
        /\ UNCHANGED <<wf, trace>>
        /\ executed' = Put(executed, r)
    BY <1>11, <2>1 DEF StepStartedHookFails, FailByHook, input
  <2>3. r.step = current /\ r.status = "failed" /\ r.route = None
    BY <2>1 DEF Result
  <2>4. Pending = {}
    BY <2>2, <1>c
  <2> QED
    BY <2>2, <2>3, <2>4, <1>a, RecordingMoves DEF Routed, Visiting
<1>12. CASE StepFinished
  <2>1. PICK r : r = stepResult
    OBVIOUS
  <2>2. /\ pc = "stepFinished" /\ boundary' = boundary
        /\ UNCHANGED <<wf, trace>>
        /\ executed' = Put(executed, r)
        /\ Settled(r) /\ r.step = current /\ Routed(r)
    BY <1>12, <2>1, <1>b DEF StepFinished, Control, PInv, input
  <2>3. Pending = {r.route}
    BY <2>1, <2>2, <1>c
  <2>4. \/ pc' = "buildResult"
        \/ pc' = "loop" /\ current' \in Nat /\ current' = NextOf(r) /\ current < current'
    <3>1. CASE LeavesLoop(r)
      BY <1>12, <2>1, <3>1 DEF StepFinished
    <3>2. CASE ~LeavesLoop(r)
      <4>1. NextIndex(r) = NextOf(r)
        BY <2>2 DEF NextIndex, NextOf
      <4>2. NextOf(r) \in Nat /\ current < NextOf(r)
        BY <2>2, <3>2, <1>b, DefinitionOfRun DEF NextOf, LeavesLoop, Settled, TypeOK
      <4> QED
        BY <1>12, <2>1, <3>2, <4>1, <4>2 DEF StepFinished
    <3> QED
      BY <3>1, <3>2
  <2> QED
    BY <2>2, <2>3, <2>4, <1>a, RecordingMoves DEF Visiting
<1>13. CASE StepFinishedHookFails
  <2>1. PICK x, r : x = stepResult /\ r = FailedByHook(stepResult)
    OBVIOUS
  <2>2. /\ pc = "stepFinished" /\ pc' = "buildResult" /\ boundary' = boundary
        /\ UNCHANGED <<wf, trace>>
        /\ executed' = Put(executed, r)
    BY <1>13, <2>1 DEF StepFinishedHookFails, FailByHook, input
  <2>3. x \in StepResults /\ x.step = current
    BY <2>1, <2>2, <1>b DEF Control, Settled
  <2>4. r.step = current /\ r.status = "failed" /\ r.route = x.route
    BY <2>1, <2>3 DEF FailedByHook, StepResults
  <2>5. Pending = {r.route}
    BY <2>1, <2>2, <2>4, <1>c
  <2> QED
    BY <2>2, <2>4, <2>5, <1>a, RecordingMoves DEF Routed, Visiting
<1>14. CASE Return
  <2>1. /\ UNCHANGED <<wf, current, stepResult, executed, trace>>
        /\ pc = "return"
        /\ pc' = "done"
        /\ boundary'.how # "escaped"
    BY <1>14 DEF Return, input, visit
  <2>2. Pending = {} /\ Pending' = {}
    BY <2>1, <1>c DEF Pending, InVisit, Escaped
  <2> QED
    BY <2>1, <2>2, NothingMoves DEF Before, Visiting
<1>15. ASSUME NEW class \in Raised, Interrupt(class) PROVE PInv'
  <2>1. class \in ErrorClasses /\ pc # "done" /\ Escape(class) /\ wf' = wf
    BY <1>15, ExecutorAssumption DEF Interrupt, input
  <2> QED
    BY <2>1, EscapeStays
<1>16. CASE UNCHANGED vars
  <2>1. UNCHANGED <<wf, pc, current, stepResult, executed, trace, boundary>>
    BY <1>16 DEF vars, visit, input
  <2>2. Pending' = Pending
    BY <2>1 DEF Pending, InVisit, Escaped
  <2> QED
    BY <2>1, <2>2, NothingMoves DEF PInv, Placed
<1> QED
  BY <1>1, <1>2, <1>3, <1>4, <1>8, <1>9, <1>10, <1>11, <1>12, <1>13, <1>14, <1>15, <1>16
     DEF Next, Done

-------------------------------------------------------------------------------
(* Theorems.                                                                *)

\* PInv holds throughout a run.
THEOREM PathInvariance == Spec => []PInv
<1>1. IInv /\ RInv /\ PInv /\ [Next]_vars => PInv'
  BY NextPInv
<1> QED
  BY <1>1, InitPInv, Invariance, ReportInvariance, PTL DEF Spec

\* For every workflow, the decisions in the trace are those the path was taken by.
\* (TraceExplainsPath)
THEOREM PathIsExplained == Spec => []TraceExplainsPath
<1>1. IInv /\ PInv => TraceExplainsPath
  <2> SUFFICES ASSUME IInv, PInv PROVE TraceExplainsPath
    OBVIOUS
  <2>1. Range(trace) = (RecordedRoutes \cup Pending) \ {None}
    <3>1. \A d : d \in Range(trace) <=> \E k \in DOMAIN trace : trace[k] = d
      BY DEF Range
    <3> QED
      BY <3>1 DEF PInv, Traced
  <2>2. \A k \in DOMAIN executed :
          LET before == IF k = 1 THEN None ELSE executed[k-1] IN
          executed[k].step =
            IF k = 1 THEN 1
            ELSE IF before.route = None THEN before.step + 1 ELSE before.route.next
    BY DEF PInv, Chained, NextOf
  <2> QED
    BY <2>1, <2>2 DEF TraceExplainsPath, PInv, Traced, RecordedRoutes, Pending
<1> QED
  BY <1>1, Invariance, PathInvariance, PTL

-------------------------------------------------------------------------------
(* The graph the walk is over is that of the definition.                    *)

LEMMA WalkIsOverDefinition ==
  ASSUME NEW w
  PROVE  Walk!ValidWorkflowDefinition(w) <=> ValidWorkflowDefinition(w)
BY Zenon
   DEF Walk!ValidWorkflowDefinition, ValidWorkflowDefinition, Walk!ValidStepDefinition,
       ValidStepDefinition, Walk!ReservedNames, ReservedNames, Walk!ValidRetrySettings,
       ValidRetrySettings, Walk!NamesDiffer, NamesDiffer, Walk!ValidRouteTargets,
       ValidRouteTargets, Walk!StepIndexes, StepIndexes, Walk!Max, Max

LEMMA WalkLooksUpNames ==
  ASSUME NEW w
  PROVE  Walk!StepIndexes(w) = StepIndexes(w)
BY Zenon DEF Walk!StepIndexes, StepIndexes, Walk!Max, Max

\* A step without routes leads to the next one, and the last of them nowhere.
LEMMA EdgeOfOrder ==
  ASSUME NEW w, IsWorkflowDefinition(w), NEW i \in DOMAIN w.steps, w.steps[i].routes = None
  PROVE  /\ i < Len(w.steps) => \E e \in Walk!GraphEdges(w) : e.source = i /\ e.target = i + 1
         /\ i = Len(w.steps) => \A e \in Walk!GraphEdges(w) : e.source # i
<1>1. i < Len(w.steps) => \E e \in Walk!GraphEdges(w) : e.source = i /\ e.target = i + 1
  <2> DEFINE e == [source |-> i, target |-> i + 1, kind |-> "linear", key |-> None]
  <2>1. i < Len(w.steps) => e \in Walk!LinearEdges(w)
    BY DEF Walk!LinearEdges
  <2> QED
    BY <2>1 DEF Walk!GraphEdges
<1>2. \A e \in Walk!RouteEdges(w) : e.source # i
  BY DEF Walk!RouteEdges, Walk!Routes
<1>3. i = Len(w.steps) => \A e \in Walk!LinearEdges(w) : e.source # i
  <2>1. ~(i < i)
    BY StepsAreNumbered
  <2> QED
    BY <2>1 DEF Walk!LinearEdges
<1> QED
  BY <1>1, <1>2, <1>3 DEF Walk!GraphEdges

\* A step with routes has an edge for the decision of each output that resolves.
LEMMA EdgeOfDecision ==
  ASSUME NEW w, NEW i \in DOMAIN w.steps, w.steps[i].routes # None,
         NEW output, RouteResolves(w.steps[i], output)
  PROVE  LET d == RouteDecision(w, i, output)
         IN  \E e \in Walk!GraphEdges(w) :
               e.source = i /\ e.target = IF d.ended THEN END ELSE d.next
<1> DEFINE routes == w.steps[i].routes
           e == [source |-> i,
                 target |-> IF routes[output] = END THEN END ELSE Walk!StepIndexes(w)[routes[output]],
                 kind   |-> "route",
                 key    |-> output]
<1>1. output \in DOMAIN routes
  BY DEF RouteResolves
<1>2. e \in Walk!RouteEdges(w)
  BY <1>1 DEF Walk!RouteEdges, Walk!Routes
<1>3. e \in Walk!GraphEdges(w)
  BY <1>2 DEF Walk!GraphEdges
<1>4. LET d == RouteDecision(w, i, output)
      IN  e.source = i /\ e.target = IF d.ended THEN END ELSE d.next
  BY WalkLooksUpNames DEF RouteDecision
<1> QED
  BY <1>3, <1>4

-------------------------------------------------------------------------------
(* The end of a run.                                                        *)

LastOne == executed[Len(executed)]

\* The last step succeeded, and nothing follows it or it leads to END.
Arriving ==
  /\ executed # <<>>
  /\ LastOne.status = "succeeded"
  /\ IF LastOne.route = None THEN LastOne.step = Len(wf.steps) ELSE LastOne.route.ended

WInv ==
  /\ pc \in Before /\ executed # <<>> => LastOne.route = None \/ ~LastOne.route.ended
  /\ pc \in {"buildResult", "workflowFinished", "return"} =>
       /\ executed # <<>> => LastOne.status = "failed" \/ Arriving
       /\ workflowError = None => Arriving

\* The step the loop is at is one of the definition, or the one behind the last.
LEMMA NextIsStep ==
  ASSUME IInv, RInv, PInv, WInv, pc \in {"loop"}
  PROVE  /\ ValidWorkflowDefinition(wf)
         /\ executed = <<>> => current = 1
         /\ executed # <<>> =>
              /\ LastOne.step \in DOMAIN wf.steps
              /\ LastOne.status = "succeeded"
              /\ Routed(LastOne)
              /\ current = NextOf(LastOne)
              /\ LastOne.route # None =>
                   /\ wf.steps[LastOne.step].routes # None
                   /\ current \in DOMAIN wf.steps
                   /\ LastOne.route.next = current
                   /\ ~LastOne.route.ended
              /\ LastOne.route = None =>
                   /\ wf.steps[LastOne.step].routes = None
                   /\ current = LastOne.step + 1
<1>1. /\ ValidWorkflowDefinition(wf) /\ IsWorkflowDefinition(wf)
      /\ current = IF executed = <<>> THEN 1 ELSE NextOf(LastOne)
  BY DefinitionOfRun DEF IInv, Control, PInv, Placed, Before, LastOne
<1> SUFFICES ASSUME executed # <<>>
             PROVE  /\ LastOne.step \in DOMAIN wf.steps
                    /\ LastOne.status = "succeeded"
                    /\ Routed(LastOne)
                    /\ LastOne.route # None =>
                         /\ wf.steps[LastOne.step].routes # None
                         /\ current \in DOMAIN wf.steps
                         /\ LastOne.route.next = current
                         /\ ~LastOne.route.ended
                    /\ LastOne.route = None =>
                         /\ wf.steps[LastOne.step].routes = None
                         /\ current = LastOne.step + 1
  BY <1>1
<1>2. Len(executed) \in DOMAIN executed
  BY DEF IInv, TypeOK
<1>3. PICK r : r = LastOne
  OBVIOUS
<1>4. /\ r.step \in DOMAIN wf.steps
      /\ r.status = "succeeded"
      /\ Routed(r)
      /\ r.route = None \/ ~r.route.ended
  BY <1>2, <1>3 DEF LastOne, RInv, Recorded, Accounted, PInv, WInv, Before
<1>5. CASE wf.steps[r.step].routes = None
  BY <1>1, <1>3, <1>4, <1>5 DEF Routed, NextOf
<1>6. CASE wf.steps[r.step].routes # None
  <2> DEFINE d == RouteDecision(wf, r.step, r.output)
  <2>1. RouteResolves(wf.steps[r.step], r.output) /\ r.route = d
    BY <1>4, <1>6 DEF Routed
  <2>2. d \in RouteDecisions /\ (d.ended \/ d.next \in DOMAIN wf.steps)
    BY <1>1, <1>4, <1>6, <2>1, RoutesLeadForward DEF RouteDecisions
  <2> HIDE DEF d
  <2>3. r.route # None
    BY <2>1, <2>2, NoneAssumption
  <2> QED
    BY <1>1, <1>3, <1>4, <1>6, <2>1, <2>2, <2>3 DEF NextOf
<1> QED
  BY <1>3, <1>4, <1>5, <1>6

LEMMA NextWInv == IInv /\ RInv /\ PInv /\ WInv /\ [Next]_vars => WInv'
<1> SUFFICES ASSUME IInv, RInv, PInv, WInv, [Next]_vars PROVE WInv'
  OBVIOUS
<1>a. TypeOK /\ Control
  BY DEF IInv
<1>1. CASE \/ AcceptInput \/ WorkflowStarted \/ EnterStep \/ StepStarted \/ Approve \/ ApprovalFails
           \/ \E output \in Outputs : InvokeReturns(output)
           \/ \E class \in Raised \cup {"RuntimeError"} : InvokeRaises(class)
  <2>1. /\ UNCHANGED <<wf, executed>>
        /\ pc \in Before
        /\ pc' \in Before
    BY <1>1
       DEF AcceptInput, WorkflowStarted, EnterStep, StepStarted, Approve, ApprovalFails,
           InvokeReturns, InvokeRaises, RetryFrom, input, Before, Visiting
  <2> QED
    BY <2>1 DEF WInv, LastOne, Before, Visiting
<1>2. CASE RejectInput \/ RejectMethod \/ Return
  <2>1. pc' = "done"
    BY <1>2 DEF RejectInput, RejectMethod, Return, Escape
  <2> QED
    BY <2>1 DEF WInv, Before, Visiting
<1>3. ASSUME NEW class \in Raised, Interrupt(class) PROVE WInv'
  <2>1. pc' = "done"
    BY <1>3 DEF Interrupt, Escape
  <2> QED
    BY <2>1 DEF WInv, Before, Visiting
<1>4. CASE WorkflowStartedHookFails
  <2>1. /\ executed' = <<>>
        /\ pc' = "return"
        /\ workflowError' # None
    BY <1>4, HookErrorTyped, NoneAssumption, <1>a
       DEF WorkflowStartedHookFails, RInv, Accounted, TypeOK
  <2> QED
    BY <2>1 DEF WInv, Before, Visiting
<1>5. CASE LeaveLoop
  <2>1. /\ UNCHANGED <<wf, executed, workflowError>>
        /\ pc' = "buildResult"
        /\ pc = "loop"
        /\ current > Len(wf.steps)
    BY <1>5 DEF LeaveLoop, input
  <2>2. Len(wf.steps) \in Nat /\ DOMAIN wf.steps = 1..Len(wf.steps) /\ Len(wf.steps) # 0
    BY <1>a, <2>1, NextIsStep, DefinitionOfRun DEF ValidWorkflowDefinition, IsWorkflowDefinition
  <2>3. executed # <<>>
    BY <2>1, <2>2, NextIsStep
  <2>4. /\ LastOne.step \in DOMAIN wf.steps
        /\ LastOne.status = "succeeded"
        /\ LastOne.route = None
        /\ current = LastOne.step + 1
    BY <2>1, <2>2, <2>3, NextIsStep
  <2>5. Arriving
    BY <2>1, <2>2, <2>3, <2>4 DEF Arriving
  <2> QED
    BY <2>1, <2>5 DEF WInv, Arriving, LastOne, Before, Visiting
<1>6. ASSUME pc \in Visiting, wf' = wf, NEW r, r.step = current, executed' = Put(executed, r)
      PROVE  executed' # <<>> /\ LastOne' = r
  BY <1>6, RecordedLast DEF LastOne
<1>7. CASE StepStartedHookFails \/ StepFinishedHookFails
  <2>1. PICK r : /\ r.step = current
                 /\ r.status = "failed"
                 /\ executed' = Put(executed, r)
    <3>1. CASE StepStartedHookFails
      BY <3>1 DEF StepStartedHookFails, Result
    <3>2. CASE StepFinishedHookFails
      <4>1. stepResult \in StepResults /\ stepResult.step = current
        BY <3>2, <1>a DEF StepFinishedHookFails, Control, Settled
      <4>2. FailedByHook(stepResult).step = current /\ FailedByHook(stepResult).status = "failed"
        BY <4>1 DEF FailedByHook, StepResults
      <4> QED
        BY <3>2, <4>2 DEF StepFinishedHookFails
    <3> QED
      BY <1>7, <3>1, <3>2
  <2>2. /\ pc \in Visiting
        /\ pc' = "buildResult"
        /\ wf' = wf
        /\ workflowError' # None
    BY <1>7, HookErrorTyped, NoneAssumption, <1>a
       DEF StepStartedHookFails, StepFinishedHookFails, FailByHook, Visiting, TypeOK, input
  <2>3. LastOne' = r
    BY <2>1, <2>2, <1>6
  <2> QED
    BY <2>1, <2>2, <2>3 DEF WInv, Before, Visiting
<1>8. CASE StepFinished
  <2>1. PICK r : r = stepResult
    OBVIOUS
  <2>2. /\ pc = "stepFinished" /\ wf' = wf
        /\ executed' = Put(executed, r)
        /\ workflowError' = r.error
        /\ Settled(r) /\ r.step = current
    BY <1>8, <2>1, <1>a DEF StepFinished, Control, input
  <2>3. executed' # <<>> /\ LastOne' = r
    BY <2>2, <1>6 DEF Visiting
  <2>4. CASE LeavesLoop(r)
    <3>1. pc' = "buildResult"
      BY <1>8, <2>1, <2>4 DEF StepFinished
    <3>2. r.status = "failed" \/ (r.status = "succeeded" /\ r.error = None)
      BY <2>2 DEF Settled
    <3>3. r.error = None => r.route # None /\ r.route.ended /\ r.status = "succeeded"
      BY <2>2, <2>4 DEF LeavesLoop, Settled
    <3> QED
      BY <2>2, <2>3, <3>1, <3>2, <3>3 DEF WInv, Arriving, Before, Visiting
  <2>5. CASE ~LeavesLoop(r)
    <3>1. pc' = "loop"
      BY <1>8, <2>1, <2>5 DEF StepFinished
    <3> QED
      BY <2>3, <2>5, <3>1 DEF WInv, LeavesLoop
  <2> QED
    BY <2>4, <2>5
<1>9. CASE BuildResult \/ WorkflowFinished
  <2>1. /\ UNCHANGED <<wf, executed, workflowError>>
        /\ pc \in {"buildResult", "workflowFinished"}
        /\ pc' \in {"workflowFinished", "return"}
    BY <1>9 DEF BuildResult, WorkflowFinished, input
  <2> QED
    BY <2>1 DEF WInv, Arriving, LastOne, Before, Visiting
<1>10. CASE WorkflowFinishedHookFails
  <2>1. /\ UNCHANGED <<wf, executed>>
        /\ workflowError' # None
        /\ pc = "workflowFinished"
        /\ pc' = "return"
    BY <1>10, HookErrorTyped, NoneAssumption, <1>a DEF WorkflowFinishedHookFails, TypeOK, input
  <2> QED
    BY <2>1 DEF WInv, Arriving, LastOne, Before, Visiting
<1>11. CASE UNCHANGED vars
  BY <1>11 DEF vars, input, WInv, Arriving, LastOne
<1> QED
  BY <1>1, <1>2, <1>3, <1>4, <1>5, <1>7, <1>8, <1>9, <1>10, <1>11 DEF Next, Done

-------------------------------------------------------------------------------
(* What the walk sees of a run.                                             *)

Steps == [k \in DOMAIN executed |-> executed[k].step]

Statuses == [i \in DOMAIN wf.steps |-> StatusOf(i)]

Over == pc = "done" /\ ~Escaped

LEMMA PathIsSteps ==
  TypeOK =>
    /\ Steps \in Seq(Nat)
    /\ Len(Steps) = Len(executed)
    /\ Path = IF InVisit THEN Append(Steps, current) ELSE Steps
    /\ InVisit => Path # <<>> /\ Path[Len(Path)] = current
    /\ ~InVisit => /\ Path = <<>> <=> executed = <<>>
                   /\ executed # <<>> => Path[Len(Path)] = LastOne.step
<1> HAVE TypeOK
<1>1. executed \in Seq(StepResults) /\ current \in Nat
  BY DEF TypeOK
<1>2. Steps \in Seq(Nat) /\ Len(Steps) = Len(executed)
  <2>1. \A k \in DOMAIN executed : executed[k] \in StepResults
    BY <1>1
  <2>2. \A k \in DOMAIN executed : executed[k].step \in Nat
    BY <2>1 DEF StepResults
  <2>3. Steps \in [1..Len(executed) -> Nat] /\ Len(executed) \in Nat
    BY <1>1, <2>2 DEF Steps
  <2> QED
    BY <2>3, SeqDef, LenProperties
<1>3. Path = IF InVisit THEN Append(Steps, current) ELSE Steps
  BY <1>1, <1>2, AppendIsConcat, ConcatEmptySeq DEF Path, Steps
<1>4. InVisit => Path # <<>> /\ Path[Len(Path)] = current
  BY <1>1, <1>2, <1>3
<1>5. ~InVisit => /\ Path = <<>> <=> executed = <<>>
                  /\ executed # <<>> => Path[Len(Path)] = LastOne.step
  BY <1>1, <1>2, <1>3 DEF Steps, LastOne
<1> QED
  BY <1>2, <1>3, <1>4, <1>5

\* The status of a recorded step is that of its result.
LEMMA StatusOfRecorded ==
  TypeOK /\ Recorded =>
    \A k \in DOMAIN executed : \A x :
      executed[k].step = x => StatusOf(x) = executed[k].status
<1> SUFFICES ASSUME TypeOK, Recorded, NEW k \in DOMAIN executed
             PROVE  StatusOf(executed[k].step) = executed[k].status
  OBVIOUS
<1> DEFINE i == executed[k].step
           j == CHOOSE x \in DOMAIN executed : executed[x].step = i
<1>1. j \in DOMAIN executed /\ executed[j].step = i
  BY Zenon
<1>2. ResultOf(executed, i) = executed[j]
  BY DEF ResultOf
<1> HIDE DEF j
<1>3. j = k
  <2>1. DOMAIN executed \subseteq Nat /\ i \in Nat
    BY DefinitionOfRun DEF TypeOK, Recorded
  <2>2. ~(j < k) /\ ~(k < j)
    BY <1>1, <2>1 DEF Recorded
  <2> QED
    BY <1>1, <2>1, <2>2
<1> QED
  BY <1>2, <1>3 DEF StatusOf

LEMMA StatusOfOthers ==
  \A i : (\A k \in DOMAIN executed : executed[k].step # i) =>
          StatusOf(i) = IF InVisit /\ i = current THEN "running"
                        ELSE IF Over THEN "skipped" ELSE "pending"
BY DEF StatusOf, Over

\* A step of the run that the walk does not see.
LEMMA NothingSeen ==
  ASSUME UNCHANGED <<wf, executed, InVisit, Outcome, Over>>, InVisit => current' = current
  PROVE  UNCHANGED <<wf, Path, Statuses, Outcome>>
<1>1. UNCHANGED Path
  BY DEF Path
<1>2. \A i : StatusOf(i)' = StatusOf(i)
  BY DEF StatusOf, Over
<1> QED
  BY <1>1, <1>2 DEF Statuses

-------------------------------------------------------------------------------
(* The steps of the walk.                                                   *)

\* An exception that leaves the run aborts the walk where it is.
LEMMA EscapeAborts ==
  ASSUME IInv, RInv, pc # "done", NEW class \in ErrorClasses, Escape(class), wf' = wf
  PROVE  Walk!Abort
<1>1. UNCHANGED <<current, executed>>
  BY DEF Escape
<1>2. boundary = None
  BY DEF RInv, Ended
<1>3. Escaped' /\ boundary'.cause.at = pc
  <2>1. boundary' = [how |-> "escaped", step |-> 0, cause |-> Error(class, pc)]
    BY DEF Escape
  <2>2. boundary' \in Boundaries
    BY <2>1, ErrorTyped DEF IInv, TypeOK, Boundaries
  <2> QED
    BY <2>1, <2>2, NoneAssumption DEF Escaped, Error
<1>4. InVisit' = InVisit
  BY <1>2, <1>3 DEF InVisit, Escaped
<1>5. Over = FALSE /\ Over' = FALSE
  BY <1>3 DEF Over
<1>6. UNCHANGED <<Path, Statuses>>
  <2>1. UNCHANGED Path
    BY <1>1, <1>4 DEF Path
  <2>2. \A i : StatusOf(i)' = StatusOf(i)
    BY <1>1, <1>4, <1>5 DEF StatusOf, Over
  <2> QED
    BY <2>1, <2>2 DEF Statuses
<1>7. Outcome \in {"pending", "running"} /\ Outcome' = "aborted"
  BY <1>2, <1>3 DEF Outcome, Escaped
<1> QED
  BY <1>6, <1>7 DEF Walk!Abort, Statuses

\* Entering a step is a visit of it.
LEMMA EnterVisits ==
  ASSUME IInv, RInv, PInv, WInv, EnterStep
  PROVE  \E i \in DOMAIN wf.steps : Walk!Visit(i)
<1>a. TypeOK /\ Recorded
  BY DEF IInv, RInv
<1>1. /\ UNCHANGED <<wf, current, executed, boundary>>
      /\ pc = "loop"
      /\ pc' = "stepStarted"
      /\ boundary = None
      /\ current <= Len(wf.steps)
  BY DEF EnterStep, RInv, Ended, input
<1>2. ~InVisit /\ InVisit' /\ ~Over /\ ~Over'
  BY <1>1 DEF InVisit, Escaped, Over
<1>3. Outcome = "running" /\ Outcome' = "running"
  BY <1>1 DEF Outcome, Escaped
<1>4. Len(wf.steps) \in Nat /\ DOMAIN wf.steps = 1..Len(wf.steps) /\ IsWorkflowDefinition(wf)
  BY <1>a, DefinitionOfRun
<1>5. current \in DOMAIN wf.steps
  BY <1>a, <1>1, <1>4 DEF TypeOK
<1>6. \A k \in DOMAIN executed : executed[k].step # current
  <2>1. \A k \in DOMAIN executed : executed[k].step < current /\ executed[k].step \in DOMAIN wf.steps
    BY <1>1 DEF RInv, Accounted, Recorded, Before
  <2> QED
    BY <2>1, <1>4, <1>5
<1>7. Path' = Append(Path, current)
  <2>1. Path = Steps
    BY <1>a, <1>2, PathIsSteps
  <2>2. Steps \in Seq(Nat) /\ current \in Nat
    BY <1>a, PathIsSteps DEF TypeOK
  <2>3. Path' = Steps' \o <<current'>>
    BY <1>2 DEF Path, Steps
  <2>4. Steps' = Steps
    BY <1>1 DEF Steps
  <2> QED
    BY <2>1, <2>2, <2>3, <2>4, <1>1, AppendIsConcat
<1>8. StatusOf(current) = "pending"
  BY <1>2, <1>6, StatusOfOthers
<1>9. ASSUME NEW i \in DOMAIN wf.steps
      PROVE  StatusOf(i)' = IF i = current THEN "running" ELSE StatusOf(i)
  <2>1. CASE i = current
    <3>1. ~ \E k \in DOMAIN executed : executed[k].step = i
      BY <2>1, <1>6
    <3> QED
      BY <2>1, <3>1, <1>1, <1>2 DEF StatusOf
  <2>2. CASE i # current
    BY <2>2, <1>1, <1>2 DEF StatusOf, Over
  <2> QED
    BY <2>1, <2>2
<1>10. Statuses' = [Statuses EXCEPT ![current] = "running"]
  BY <1>1, <1>5, <1>9 DEF Statuses
<1>11. Statuses[current] = "pending"
  BY <1>5, <1>8 DEF Statuses
<1>12. IF Path = <<>> THEN current = 1
       ELSE /\ Statuses[Path[Len(Path)]] = "succeeded"
            /\ \E e \in Walk!GraphEdges(wf) : e.source = Path[Len(Path)] /\ e.target = current
  <2>1. CASE executed = <<>>
    BY <2>1, <1>a, <1>1, <1>2, PathIsSteps, NextIsStep
  <2>2. CASE executed # <<>>
    <3>1. Path # <<>> /\ Path[Len(Path)] = LastOne.step
      BY <2>2, <1>a, <1>2, PathIsSteps
    <3>2. PICK r : r = LastOne
      OBVIOUS
    <3>3. /\ r.step \in DOMAIN wf.steps
          /\ r.status = "succeeded"
          /\ Routed(r)
          /\ r.route # None =>
               /\ wf.steps[r.step].routes # None
               /\ r.route.next = current
               /\ ~r.route.ended
          /\ r.route = None =>
               /\ wf.steps[r.step].routes = None
               /\ current = r.step + 1
      BY <2>2, <3>2, <1>1, NextIsStep
    <3>4. Statuses[r.step] = "succeeded"
      <4>1. Len(executed) \in DOMAIN executed
        BY <2>2, <1>a DEF TypeOK
      <4>2. StatusOf(r.step) = "succeeded"
        BY <3>2, <3>3, <4>1, <1>a, StatusOfRecorded DEF LastOne
      <4> QED
        BY <3>3, <4>2 DEF Statuses
    <3>5. \E e \in Walk!GraphEdges(wf) : e.source = r.step /\ e.target = current
      <4>1. CASE r.route = None
        <5>1. r.step < Len(wf.steps)
          BY <4>1, <3>3, <1>4, <1>1
        <5> QED
          BY <4>1, <5>1, <3>3, <1>4, EdgeOfOrder
      <4>2. CASE r.route # None
        <5>1. RouteResolves(wf.steps[r.step], r.output) /\ r.route = RouteDecision(wf, r.step, r.output)
          BY <4>2, <3>3 DEF Routed
        <5>2. LET d == RouteDecision(wf, r.step, r.output)
              IN  \E e \in Walk!GraphEdges(wf) :
                    e.source = r.step /\ e.target = IF d.ended THEN END ELSE d.next
          BY <4>2, <5>1, <3>3, EdgeOfDecision
        <5> QED
          BY <4>2, <5>1, <5>2, <3>3
      <4> QED
        BY <4>1, <4>2
    <3> QED
      BY <3>1, <3>2, <3>4, <3>5
  <2> QED
    BY <2>1, <2>2
<1>13. Walk!Visit(current)
  BY <1>1, <1>3, <1>7, <1>10, <1>11, <1>12 DEF Walk!Visit, Walk!Here, Statuses
<1> QED
  BY <1>5, <1>13

LEMMA AppendAsFunction ==
  ASSUME NEW s \in Seq(Nat), NEW x \in Nat
  PROVE  Append(s, x) = [k \in 1..Len(s) + 1 |-> IF k = Len(s) + 1 THEN x ELSE s[k]]
<1>1. PICK t, n : t = Append(s, x) /\ n = Len(s)
  OBVIOUS
<1>2. n \in Nat /\ t \in Seq(Nat) /\ Len(t) = n + 1
  BY <1>1, AppendProperties
<1>3. (\A k \in 1..n : t[k] = s[k]) /\ t[n + 1] = x
  BY <1>1, AppendProperties
<1>4. t \in [1..n + 1 -> Nat]
  BY <1>2
<1>5. \A k \in 1..n + 1 : t[k] = IF k = n + 1 THEN x ELSE s[k]
  <2>1. \A k \in 1..n + 1 : k = n + 1 \/ (k \in 1..n /\ k # n + 1)
    BY <1>2
  <2> QED
    BY <1>3, <2>1
<1> QED
  BY <1>1, <1>4, <1>5

\* Recording the result of the current step settles it.
LEMMA RecordingSettles ==
  ASSUME IInv, RInv, TypeOK', Recorded', pc \in Visiting, pc' \in {"loop", "buildResult"},
         UNCHANGED <<wf, boundary>>, NEW r, r.step = current, executed' = Put(executed, r)
  PROVE  Walk!Settle(r.status)
<1>a. TypeOK /\ boundary = None /\ current \in DOMAIN wf.steps
  BY DEF IInv, Control, RInv, Ended, Visiting
<1>1. InVisit /\ ~InVisit' /\ ~Over /\ ~Over' /\ Outcome = "running" /\ Outcome' = "running"
  BY <1>a DEF InVisit, Escaped, Over, Outcome, Visiting
<1>2. /\ Len(executed) \in Nat
      /\ DOMAIN executed = 1..Len(executed)
      /\ Len(executed') = Len(executed) + 1
      /\ DOMAIN executed' = 1..Len(executed) + 1
      /\ executed'[Len(executed) + 1] = r
      /\ \A k \in 1..Len(executed) : executed'[k] = executed[k]
      /\ \A k \in DOMAIN executed : executed[k].step \in Nat /\ executed[k].step < current
  BY RecordedLast
<1>3. Path # <<>> /\ Path[Len(Path)] = current /\ Path = Append(Steps, current)
  BY <1>a, <1>1, PathIsSteps
<1>4. Path' = Path
  <2>1. Steps \in Seq(Nat) /\ Len(Steps) = Len(executed) /\ current \in Nat
    BY <1>a, PathIsSteps DEF TypeOK
  <2>2. Path' = Steps' \o <<>>
    BY <1>1 DEF Path, Steps
  <2>3. Steps' = [k \in 1..Len(executed) + 1 |-> executed'[k].step]
    BY <1>2 DEF Steps
  <2>4. \A k \in 1..Len(executed) + 1 :
          executed'[k].step = IF k = Len(executed) + 1 THEN current ELSE Steps[k]
    BY <1>2 DEF Steps
  <2>5. Append(Steps, current) =
          [k \in 1..Len(executed) + 1 |-> IF k = Len(executed) + 1 THEN current ELSE Steps[k]]
    BY <2>1, AppendAsFunction
  <2>6. Steps' = Append(Steps, current)
    BY <2>3, <2>4, <2>5
  <2>7. Append(Steps, current) \in Seq(Nat)
    BY <2>1
  <2> QED
    BY <2>2, <2>6, <2>7, <1>3, ConcatEmptySeq
<1>5. StatusOf(current) = "running"
  <2>1. \A k \in DOMAIN executed : executed[k].step # current
    BY <1>2, <1>a, DefinitionOfRun
  <2> QED
    BY <2>1, <1>1, StatusOfOthers
<1>6. ASSUME NEW i \in DOMAIN wf.steps
      PROVE  StatusOf(i)' = IF i = current THEN r.status ELSE StatusOf(i)
  <2>a. \A k \in DOMAIN executed' : executed'[k].step = i => StatusOf(i)' = executed'[k].status
    <3>1. (TypeOK /\ Recorded =>
             \A k \in DOMAIN executed : \A x :
               executed[k].step = x => StatusOf(x) = executed[k].status)'
      BY StatusOfRecorded, PTL
    <3> QED
      BY <3>1
  <2>1. CASE i = current
    <3>1. Len(executed) + 1 \in DOMAIN executed'
      BY <1>2
    <3> QED
      BY <2>1, <2>a, <3>1, <1>2
  <2>2. CASE i # current /\ \E k \in DOMAIN executed : executed[k].step = i
    <3>1. PICK k \in DOMAIN executed : executed[k].step = i
      BY <2>2
    <3>2. StatusOf(i) = executed[k].status
      BY <3>1, <1>a, StatusOfRecorded DEF RInv
    <3>3. k \in DOMAIN executed' /\ executed'[k] = executed[k]
      BY <3>1, <1>2
    <3>4. StatusOf(i)' = executed[k].status
      BY <3>1, <3>3, <2>a
    <3> QED
      BY <2>2, <3>2, <3>4
  <2>3. CASE i # current /\ ~ \E k \in DOMAIN executed : executed[k].step = i
    <3>1. ~ \E k \in DOMAIN executed' : executed'[k].step = i
      BY <2>3, <1>2
    <3>2. StatusOf(i)' = "pending"
      BY <3>1, <1>1 DEF StatusOf, Over
    <3>3. StatusOf(i) = "pending"
      BY <2>3, <1>1 DEF StatusOf, Over
    <3> QED
      BY <2>3, <3>2, <3>3
  <2> QED
    BY <2>1, <2>2, <2>3
<1>7. Statuses' = [Statuses EXCEPT ![current] = r.status]
  BY <1>6, <1>a DEF Statuses
<1>8. Statuses[current] = "running"
  BY <1>5, <1>a DEF Statuses
<1> QED
  BY <1>1, <1>3, <1>4, <1>7, <1>8 DEF Walk!Settle, Walk!Here, Statuses

\* Leaving the run finishes the walk.
LEMMA ReturnFinishes ==
  ASSUME IInv, RInv, PInv, WInv, Return
  PROVE  Walk!Finish(result.status)
<1>a. TypeOK /\ Recorded /\ Reported /\ boundary = None /\ pc = "return"
  BY DEF IInv, RInv, Ended, Return
<1>1. /\ UNCHANGED <<wf, current, executed, result>>
      /\ pc' = "done"
      /\ boundary'.how # "escaped"
  BY DEF Return, input
<1>2. ~InVisit /\ ~InVisit' /\ ~Over /\ Over' /\ Outcome = "running" /\ Outcome' = result.status
  BY <1>a, <1>1 DEF InVisit, Escaped, Over, Outcome
<1>3. Path' = Path
  BY <1>1, <1>2 DEF Path
<1>4. ASSUME NEW i \in DOMAIN wf.steps
      PROVE  StatusOf(i)' = IF StatusOf(i) = "pending" THEN "skipped" ELSE StatusOf(i)
  <2>1. CASE \E k \in DOMAIN executed : executed[k].step = i
    <3>1. PICK k \in DOMAIN executed : executed[k].step = i
      BY <2>1
    <3>2. StatusOf(i) = executed[k].status /\ executed[k].status # "pending"
      BY <3>1, <1>a, StatusOfRecorded DEF Recorded
    <3>3. StatusOf(i)' = StatusOf(i)
      BY <2>1, <1>1 DEF StatusOf
    <3> QED
      BY <3>2, <3>3
  <2>2. CASE ~ \E k \in DOMAIN executed : executed[k].step = i
    BY <2>2, <1>1, <1>2 DEF StatusOf, Over
  <2> QED
    BY <2>1, <2>2
<1>5. Statuses' = [i \in DOMAIN Statuses |->
                     IF Statuses[i] = "pending" THEN "skipped" ELSE Statuses[i]]
  BY <1>1, <1>4 DEF Statuses
<1>6. result # None /\ result.status \in {"succeeded", "failed"} /\ result.error = workflowError
  <2>1. result # None /\ result \in WorkflowResults
    BY <1>a DEF IInv, Control, TypeOK
  <2> QED
    BY <2>1, <1>a DEF TypeOK, WorkflowResults
<1>7. result.status = "succeeded" => workflowError = None
  BY <1>6, <1>a DEF Reported
<1>b. executed # <<>> =>
        /\ Path # <<>> /\ Path[Len(Path)] = LastOne.step
        /\ LastOne.step \in DOMAIN wf.steps
        /\ Routed(LastOne)
        /\ Statuses[LastOne.step] = LastOne.status
  <2> SUFFICES ASSUME executed # <<>>
               PROVE  /\ Path # <<>> /\ Path[Len(Path)] = LastOne.step
                      /\ LastOne.step \in DOMAIN wf.steps
                      /\ Routed(LastOne)
                      /\ Statuses[LastOne.step] = LastOne.status
    OBVIOUS
  <2>1. Len(executed) \in DOMAIN executed
    BY <1>a DEF TypeOK
  <2>2. LastOne.step \in DOMAIN wf.steps /\ Routed(LastOne)
    BY <2>1, <1>a DEF Recorded, PInv, LastOne
  <2>3. StatusOf(LastOne.step) = LastOne.status
    BY <2>1, <1>a, StatusOfRecorded DEF LastOne
  <2>4. Statuses[LastOne.step] = LastOne.status
    BY <2>2, <2>3 DEF Statuses
  <2> QED
    BY <2>2, <2>4, <1>a, <1>2, PathIsSteps
<1>8. Arriving =>
        /\ Path # <<>>
        /\ Statuses[Path[Len(Path)]] = "succeeded"
        /\ \/ \A e \in Walk!GraphEdges(wf) : e.source # Path[Len(Path)]
           \/ \E e \in Walk!GraphEdges(wf) : e.source = Path[Len(Path)] /\ e.target = END
  <2> SUFFICES ASSUME Arriving
               PROVE  \/ \A e \in Walk!GraphEdges(wf) : e.source # LastOne.step
                      \/ \E e \in Walk!GraphEdges(wf) : e.source = LastOne.step /\ e.target = END
    BY <1>b DEF Arriving
  <2>1. PICK r : r = LastOne
    OBVIOUS
  <2>2. /\ r.step \in DOMAIN wf.steps
        /\ Routed(r)
        /\ r.status = "succeeded"
        /\ IF r.route = None THEN r.step = Len(wf.steps) ELSE r.route.ended
    BY <2>1, <1>b DEF Arriving
  <2>3. ValidWorkflowDefinition(wf) /\ IsWorkflowDefinition(wf)
    BY <1>a, DefinitionOfRun DEF IInv, Control
  <2>4. CASE wf.steps[r.step].routes = None
    <3>1. r.route = None
      BY <2>2, <2>4 DEF Routed
    <3> QED
      BY <2>1, <2>2, <2>3, <2>4, <3>1, EdgeOfOrder
  <2>5. CASE wf.steps[r.step].routes # None
    <3> DEFINE d == RouteDecision(wf, r.step, r.output)
    <3>1. RouteResolves(wf.steps[r.step], r.output) /\ r.route = d
      BY <2>2, <2>5 DEF Routed
    <3>2. d \in RouteDecisions
      BY <2>2, <2>3, <2>5, <3>1, RoutesLeadForward DEF RouteDecisions
    <3>3. \E e \in Walk!GraphEdges(wf) :
            e.source = r.step /\ e.target = IF d.ended THEN END ELSE d.next
      BY <2>2, <2>5, <3>1, EdgeOfDecision
    <3> HIDE DEF d
    <3>4. d.ended
      BY <2>2, <3>1, <3>2, NoneAssumption
    <3> QED
      BY <2>1, <3>3, <3>4
  <2> QED
    BY <2>4, <2>5
<1>9. CASE result.status = "succeeded"
  <2>1. Arriving
    BY <1>7, <1>9, <1>a DEF WInv
  <2> QED
    BY <1>1, <1>2, <1>3, <1>5, <1>8, <1>9, <2>1 DEF Walk!Finish, Walk!Arrived, Walk!Here, Statuses
<1>10. CASE result.status = "failed"
  <2>1. Path = <<>> \/ Statuses[Path[Len(Path)]] = "failed" \/ Arriving
    <3>1. CASE executed = <<>>
      BY <3>1, <1>a, <1>2, PathIsSteps
    <3>2. CASE executed # <<>>
      BY <3>2, <1>a, <1>b DEF WInv
    <3> QED
      BY <3>1, <3>2
  <2> QED
    BY <1>1, <1>2, <1>3, <1>5, <1>8, <1>10, <2>1 DEF Walk!Finish, Walk!Arrived, Walk!Here, Statuses
<1> QED
  BY <1>6, <1>9, <1>10

-------------------------------------------------------------------------------
(* The simulation.                                                          *)

LEMMA InitWInv == Init => WInv /\ Walk!Init
<1> SUFFICES ASSUME Init PROVE WInv /\ Walk!Init
  OBVIOUS
<1>1. WInv
  BY DEF Init, WInv
<1>2. Outcome = "pending" /\ ~InVisit /\ ~Over
  BY DEF Init, Outcome, InVisit, Escaped, Over
<1>3. Path = <<>>
  BY <1>2 DEF Init, Path
<1>4. Statuses = [i \in DOMAIN wf.steps |-> "pending"]
  <2>1. \A i : StatusOf(i) = "pending"
    BY <1>2 DEF Init, StatusOf, Over
  <2> QED
    BY <2>1 DEF Statuses
<1> QED
  BY <1>1, <1>2, <1>3, <1>4 DEF Init, Walk!Init, Statuses

\* Every step of the run is a step of the walk, or one that the walk does not see.
LEMMA StepWalks ==
  ASSUME IInv, RInv, PInv, WInv, TypeOK', Recorded', [Next]_vars
  PROVE  [Walk!Next]_(Walk!vars)
<1>a. TypeOK /\ (pc # "done" => boundary = None)
  BY DEF IInv, RInv, Ended
<1>b. ASSUME UNCHANGED <<wf, Path, Statuses, Outcome>> PROVE UNCHANGED Walk!vars
  BY <1>b DEF Walk!vars, Statuses
<1>1. CASE RejectInput
  <2>1. /\ pc # "done" /\ wf' = wf
        /\ \E class \in {"WorkflowDefinitionError", "StateValidationError"} : Escape(class)
    BY <1>1 DEF RejectInput, input
  <2>2. Walk!Abort
    BY <2>1, EscapeAborts, ErrorAssumption DEF FrameworkErrors
  <2> QED
    BY <2>2 DEF Walk!Next
<1>2. CASE RejectMethod
  <2>1. /\ pc # "done" /\ wf' = wf
        /\ \E class \in {"AttributeError", "WorkflowDefinitionError"} : Escape(class)
    BY <1>2 DEF RejectMethod, input
  <2>2. Walk!Abort
    BY <2>1, EscapeAborts, ErrorAssumption DEF FrameworkErrors
  <2> QED
    BY <2>2 DEF Walk!Next
<1>3. ASSUME NEW class \in Raised, Interrupt(class) PROVE Walk!Next
  <2>1. pc # "done" /\ wf' = wf /\ Escape(class) /\ class \in ErrorClasses
    BY <1>3, ExecutorAssumption DEF Interrupt, input
  <2>2. Walk!Abort
    BY <2>1, EscapeAborts
  <2> QED
    BY <2>2 DEF Walk!Next
<1>4. CASE AcceptInput
  <2>1. /\ UNCHANGED <<wf, current, executed, boundary>>
        /\ ValidWorkflowDefinition(wf)
        /\ boundary = None
        /\ pc = "validate"
        /\ pc' = "workflowStarted"
    BY <1>4, <1>a DEF AcceptInput, input
  <2>2. ~InVisit /\ ~InVisit' /\ ~Over /\ ~Over' /\ Outcome = "pending" /\ Outcome' = "running"
    BY <2>1 DEF InVisit, Escaped, Over, Outcome
  <2>3. UNCHANGED <<Path, Statuses>>
    <3>1. UNCHANGED Path
      BY <2>1, <2>2 DEF Path
    <3>2. \A i : StatusOf(i)' = StatusOf(i)
      BY <2>1, <2>2 DEF StatusOf, Over
    <3> QED
      BY <2>1, <3>1, <3>2 DEF Statuses
  <2>4. Walk!Start
    BY <2>1, <2>2, <2>3, WalkIsOverDefinition DEF Walk!Start, Statuses
  <2> QED
    BY <2>4 DEF Walk!Next
<1>5. CASE EnterStep
  BY <1>5, EnterVisits DEF Walk!Next
<1>6. CASE StepStartedHookFails \/ StepFinishedHookFails \/ StepFinished
  <2>1. PICK r : /\ r.step = current
                 /\ r.status \in {"succeeded", "failed"}
                 /\ executed' = Put(executed, r)
    <3>1. CASE StepStartedHookFails
      BY <3>1 DEF StepStartedHookFails, Result
    <3>2. CASE StepFinishedHookFails
      <4>1. stepResult \in StepResults /\ stepResult.step = current
        BY <3>2 DEF StepFinishedHookFails, IInv, Control, Settled
      <4>2. FailedByHook(stepResult).step = current /\ FailedByHook(stepResult).status = "failed"
        BY <4>1 DEF FailedByHook, StepResults
      <4> QED
        BY <3>2, <4>2 DEF StepFinishedHookFails
    <3>3. CASE StepFinished
      <4>1. Settled(stepResult) /\ stepResult.step = current
        BY <3>3 DEF StepFinished, IInv, Control
      <4> QED
        BY <3>3, <4>1 DEF StepFinished, Settled
    <3> QED
      BY <1>6, <3>1, <3>2, <3>3
  <2>2. /\ pc \in Visiting
        /\ pc' \in {"loop", "buildResult"}
        /\ UNCHANGED <<wf, boundary>>
    BY <1>6
       DEF StepStartedHookFails, StepFinishedHookFails, FailByHook, StepFinished, input, Visiting
  <2>3. Walk!Settle(r.status)
    BY <2>1, <2>2, RecordingSettles
  <2> QED
    BY <2>1, <2>3 DEF Walk!Next
<1>7. CASE Return
  <2>1. Walk!Finish(result.status)
    BY <1>7, ReturnFinishes
  <2>2. result.status \in {"succeeded", "failed"}
    <3>1. result # None /\ result \in WorkflowResults
      BY <1>7, <1>a DEF Return, IInv, Control, TypeOK
    <3> QED
      BY <3>1 DEF WorkflowResults
  <2> QED
    BY <2>1, <2>2 DEF Walk!Next
<1>8. CASE \/ WorkflowStarted \/ WorkflowStartedHookFails \/ LeaveLoop
           \/ BuildResult \/ WorkflowFinished \/ WorkflowFinishedHookFails
  <2>1. /\ UNCHANGED <<wf, executed, boundary>>
        /\ {pc, pc'} \subseteq {"workflowStarted", "loop", "buildResult", "workflowFinished", "return"}
    BY <1>8
       DEF WorkflowStarted, WorkflowStartedHookFails, LeaveLoop, BuildResult, WorkflowFinished,
           WorkflowFinishedHookFails, input
  <2>2. ~InVisit /\ ~InVisit' /\ ~Over /\ ~Over' /\ Outcome = "running" /\ Outcome' = "running"
    BY <2>1, <1>a DEF InVisit, Escaped, Over, Outcome
  <2>3. UNCHANGED <<InVisit, Over, Outcome>> /\ (InVisit => current' = current)
    BY <2>1, <2>2 DEF InVisit, Over
  <2> QED
    BY <2>1, <2>3, <1>b, NothingSeen
<1>9. CASE \/ StepStarted \/ Approve \/ ApprovalFails
           \/ \E output \in Outputs : InvokeReturns(output)
           \/ \E class \in Raised \cup {"RuntimeError"} : InvokeRaises(class)
  <2>1. /\ UNCHANGED <<wf, current, executed, boundary>>
        /\ {pc, pc'} \subseteq {"stepStarted", "approve", "invoke", "stepFinished"}
    BY <1>9
       DEF StepStarted, Approve, ApprovalFails, InvokeReturns, InvokeRaises, RetryFrom, input
  <2>2. InVisit /\ InVisit' /\ ~Over /\ ~Over' /\ Outcome = "running" /\ Outcome' = "running"
    BY <2>1, <1>a DEF InVisit, Escaped, Over, Outcome
  <2>3. UNCHANGED <<InVisit, Over, Outcome>> /\ (InVisit => current' = current)
    BY <2>1, <2>2 DEF InVisit, Over
  <2> QED
    BY <2>1, <2>3, <1>b, NothingSeen
<1>10. CASE UNCHANGED vars
  <2>1. UNCHANGED <<wf, pc, current, executed, result, boundary>>
    BY <1>10 DEF vars, input
  <2>2. UNCHANGED <<InVisit, Over, Outcome>>
    BY <2>1 DEF InVisit, Escaped, Over, Outcome
  <2> QED
    BY <2>1, <2>2, <1>b, NothingSeen
<1> QED
  BY <1>1, <1>2, <1>3, <1>4, <1>5, <1>6, <1>7, <1>8, <1>9, <1>10 DEF Next, Done

-------------------------------------------------------------------------------
(* Theorems.                                                                *)

\* WInv holds throughout a run.
THEOREM WalkInvariance == Spec => []WInv
<1>1. IInv /\ RInv /\ PInv /\ WInv /\ [Next]_vars => WInv'
  BY NextWInv
<1>2. Init => WInv
  BY InitWInv
<1> QED
  BY <1>1, <1>2, Invariance, ReportInvariance, PathInvariance, PTL DEF Spec

\* For every workflow, every list of hooks and every behaviour of the user code, a run
\* visits the steps along the edges of the exported graph, one result each, and ends only
\* where the graph does or a step failed. (WalksTheGraph)
THEOREM RunWalksTheGraph == Spec => WalksTheGraph
<1>1. Init => Walk!Init
  BY InitWInv
<1>2. IInv /\ RInv /\ PInv /\ WInv /\ IInv' /\ RInv' /\ [Next]_vars => [Walk!Next]_(Walk!vars)
  BY StepWalks DEF IInv, RInv
<1> QED
  BY <1>1, <1>2, Invariance, ReportInvariance, PathInvariance, WalkInvariance, PTL
     DEF Spec, WalksTheGraph, Walk!Spec
===============================================================================
