----------------------------- MODULE ExecutorProofs -----------------------------
(***************************************************************************)
(* Safety of a run for every workflow, every list of hooks and every       *)
(* behaviour of the user code.                                             *)
(***************************************************************************)
EXTENDS ExecutorProperties, DefinitionProofs, SequenceTheorems, FiniteSetTheorems

Visiting == {"stepStarted", "approve", "invoke", "stepFinished"}

\* The places of the body where nothing has failed yet.
Before == {"validate", "workflowStarted", "loop"} \cup Visiting

\* A result that is ready to be recorded.
Settled(r) ==
  /\ r \in StepResults
  /\ r.step \in DOMAIN wf.steps
  /\ r.status \in {"succeeded", "failed"}
  /\ r.status = "failed" <=> r.error # None
  /\ r.route # None => r.route.ended \/ (r.route.next \in DOMAIN wf.steps /\ r.route.next > r.step)

Control ==
  /\ pc \notin {"validate", "done"} => ValidWorkflowDefinition(wf)
  /\ pc \in Visiting => current \in DOMAIN wf.steps
  /\ pc = "stepFinished" => Settled(stepResult) /\ stepResult.step = current
  /\ pc \in Before => workflowError = None
  /\ pc \in Before \cup {"buildResult"} => result = None
  /\ pc \in {"workflowFinished", "return"} => result # None

IInv == TypeOK /\ Control

-------------------------------------------------------------------------------
(* Lemmas about the operators of the executor.                              *)

LEMMA DefinitionOfRun ==
  ASSUME TypeOK
  PROVE  /\ IsWorkflowDefinition(wf)
         /\ Len(wf.steps) \in Nat
         /\ DOMAIN wf.steps = 1..Len(wf.steps)
BY ExecutorAssumption, StepsAreNumbered DEF TypeOK

LEMMA HooksCounted ==
  ASSUME TypeOK
  PROVE  NumHooks \in Nat
BY ExecutorAssumption DEF TypeOK, Arguments, NumHooks

LEMMA ErrorTyped ==
  ASSUME NEW class \in ErrorClasses, NEW at \in Places \cup {"route"}
  PROVE  Error(class, at) \in Errors
BY DEF Error, Errors

LEMMA FrameworkErrorTyped ==
  ASSUME NEW class \in FrameworkErrors, NEW at \in Places \cup {"route"}
  PROVE  Error(class, at) \in Errors
BY ErrorTyped, ErrorAssumption

LEMMA HookErrorTyped ==
  ASSUME NEW at \in Places
  PROVE  HookError(at) \in Errors
BY FrameworkErrorTyped DEF HookError, FrameworkErrors

LEMMA ResultTyped ==
  ASSUME TypeOK, NEW status \in {"succeeded", "failed"}, NEW tries \in Nat,
         NEW output \in Outputs \cup {None}, NEW error \in Errors \cup {None},
         NEW route \in RouteDecisions \cup {None}
  PROVE  Result(status, tries, output, error, route) \in StepResults
BY DEF Result, StepResults, TypeOK

LEMMA PutTyped ==
  ASSUME NEW S, NEW dict \in Seq(S), NEW r \in S
  PROVE  Put(dict, r) \in Seq(S)
BY DEF Put

\* A failure of the current step is a result that is ready to be recorded.
LEMMA FailureSettled ==
  ASSUME TypeOK, current \in DOMAIN wf.steps, NEW tries \in Nat,
         NEW output \in Outputs \cup {None}, NEW error \in Errors
  PROVE  /\ Settled(Result("failed", tries, output, error, None))
         /\ Result("failed", tries, output, error, None).step = current
<1> DEFINE r == Result("failed", tries, output, error, None)
<1>1. r \in StepResults
  BY ResultTyped
<1>2. /\ r.step = current
      /\ r.status = "failed"
      /\ r.error = error
      /\ r.route = None
  BY DEF Result
<1> QED
  BY <1>1, <1>2, NoneAssumption DEF Settled

\* A skipped result is a result.
LEMMA SkippedTyped ==
  ASSUME NEW i \in Nat, NEW reason \in {"workflow_ended", "workflow_failed"}
  PROVE  SkippedResult(i, reason) \in StepResults
BY DEF SkippedResult, StepResults, Decisions

\* finalize_step_results keeps the results it is given and adds skipped ones.
LEMMA FinalizeTyped ==
  ASSUME TypeOK, NEW reason \in {"workflow_ended", "workflow_failed"}
  PROVE  FinalizeStepResults(wf, executed, reason) \in Seq(StepResults)
<1>1. CASE ~UsesRoutes(wf)
  BY <1>1 DEF FinalizeStepResults, TypeOK
<1>2. CASE UsesRoutes(wf)
  <2> DEFINE n == Len(wf.steps)
             f == FinalizeStepResults(wf, executed, reason)
  <2>1. n \in Nat /\ DOMAIN wf.steps = 1..n
    BY DefinitionOfRun
  <2>2. f = [i \in 1..n |-> IF \E k \in DOMAIN executed : executed[k].step = i
                            THEN ResultOf(executed, i) ELSE SkippedResult(i, reason)]
    BY <1>2, <2>1 DEF FinalizeStepResults
  <2> HIDE DEF f
  <2>3. ASSUME NEW i \in 1..n PROVE f[i] \in StepResults
    <3>1. CASE \E k \in DOMAIN executed : executed[k].step = i
      <4> DEFINE k == CHOOSE j \in DOMAIN executed : executed[j].step = i
      <4>1. k \in DOMAIN executed
        BY <3>1, Zenon
      <4>2. f[i] = executed[k]
        BY <2>2, <3>1 DEF ResultOf
      <4> HIDE DEF k
      <4> QED
        BY <4>1, <4>2 DEF TypeOK
    <3>2. CASE ~ \E k \in DOMAIN executed : executed[k].step = i
      <4>1. f[i] = SkippedResult(i, reason)
        BY <2>2, <3>2
      <4>2. i \in Nat
        BY <2>1
      <4> QED
        BY <4>1, <4>2, SkippedTyped
    <3> QED
      BY <3>1, <3>2
  <2>4. f \in [1..n -> StepResults]
    BY <2>2, <2>3
  <2> QED
    BY <2>1, <2>4, SeqDef DEF f
<1> QED
  BY <1>1, <1>2

\* The failing step of a list of results is one of theirs, or 0.
LEMMA FailingStepTyped ==
  ASSUME NEW results \in Seq(StepResults)
  PROVE  FailingStep(results) \in Nat
<1> DEFINE failed == {k \in DOMAIN results : results[k].status = "failed"}
<1>1. CASE failed = {}
  BY <1>1 DEF FailingStep
<1>2. CASE failed # {}
  <2>1. Min(failed) \in failed
    <3>1. failed \in SUBSET Nat
      OBVIOUS
    <3> HIDE DEF failed
    <3> QED
      BY <1>2, <3>1, MinIsMember
  <2>2. Min(failed) \in DOMAIN results
    BY <2>1
  <2>3. FailingStep(results) = results[Min(failed)].step
    BY <1>2 DEF FailingStep
  <2>4. results[Min(failed)] \in StepResults
    BY <2>2
  <2> QED
    BY <2>3, <2>4 DEF StepResults
<1> QED
  BY <1>1, <1>2

-------------------------------------------------------------------------------
(* The invariant.                                                           *)

LEMMA InitIInv == Init => IInv
<1> SUFFICES ASSUME Init PROVE IInv
  OBVIOUS
<1>1. TypeOK
  BY DEF Init, TypeOK, Places, Decisions
<1>2. Control
  BY DEF Init, Control, Before, Visiting
<1> QED
  BY <1>1, <1>2 DEF IInv

LEMMA EscapeInv ==
  ASSUME IInv, NEW class \in ErrorClasses, Escape(class), UNCHANGED input,
         log' \in Seq(Entry)
  PROVE  IInv'
<1>1. Error(class, pc) \in Errors
  BY ErrorTyped DEF IInv, TypeOK
<1>2. TypeOK'
  BY <1>1 DEF IInv, TypeOK, Escape, input, visit, Places, Boundaries
<1>3. Control'
  BY DEF IInv, Control, Escape, input, Before, Visiting
<1> QED
  BY <1>2, <1>3 DEF IInv

LEMMA NextIInv == IInv /\ [Next]_vars => IInv'
<1> SUFFICES ASSUME IInv, [Next]_vars PROVE IInv'
  OBVIOUS
<1> USE DEF IInv
<1>1. CASE RejectInput
  BY <1>1, EscapeInv, ErrorAssumption DEF RejectInput, FrameworkErrors, TypeOK, input
<1>2. CASE AcceptInput
  <2>1. TypeOK'
    BY <1>2 DEF AcceptInput, TypeOK, input, visit, Places
  <2>2. Control'
    BY <1>2 DEF AcceptInput, Control, input, visit, Before, Visiting
  <2> QED
    BY <2>1, <2>2
<1>3. CASE WorkflowStarted
  <2>1. log' \in Seq(Entry)
    <3>1. NumHooks \in Nat
      BY HooksCounted
    <3> QED
      BY <1>3, <3>1 DEF WorkflowStarted, Log, Entry, EventKinds, TypeOK
  <2>2. TypeOK'
    BY <1>3, <2>1 DEF WorkflowStarted, TypeOK, input, visit, Places
  <2>3. Control'
    BY <1>3 DEF WorkflowStarted, Control, input, visit, Before, Visiting
  <2> QED
    BY <2>2, <2>3
<1>4. CASE WorkflowStartedHookFails
  <2>1. HookError(pc) \in Errors
    BY HookErrorTyped DEF TypeOK
  <2>2. log' \in Seq(Entry)
    <3>1. PICK h \in 1..NumHooks : Log("WorkflowStarted", 0, h, "running")
      BY <1>4 DEF WorkflowStartedHookFails
    <3> QED
      BY <3>1, HooksCounted DEF Log, Entry, EventKinds, TypeOK
  <2>3. result' \in WorkflowResults /\ result'.error = workflowError'
    <3>1. <<>> \in Seq(StepResults) /\ <<>> \in Seq(RouteDecisions)
      OBVIOUS
    <3> QED
      BY <1>4, <2>1, <3>1 DEF WorkflowStartedHookFails, WorkflowResults
  <2>4. TypeOK'
    BY <1>4, <2>1, <2>2, <2>3 DEF WorkflowStartedHookFails, TypeOK, input, visit, Places
  <2>5. Control'
    BY <1>4, <2>3, NoneAssumption
       DEF WorkflowStartedHookFails, Control, input, visit, Before, Visiting
  <2> QED
    BY <2>4, <2>5
<1>5. CASE LeaveLoop
  <2>1. TypeOK'
    BY <1>5 DEF LeaveLoop, TypeOK, input, visit, Places
  <2>2. Control'
    BY <1>5 DEF LeaveLoop, Control, input, visit, Before, Visiting
  <2> QED
    BY <2>1, <2>2
<1>6. CASE RejectMethod
  BY <1>6, EscapeInv, ErrorAssumption DEF RejectMethod, FrameworkErrors, TypeOK, input
<1>7. CASE EnterStep
  <2>1. TypeOK'
    BY <1>7 DEF EnterStep, TypeOK, input, Places, Decisions
  <2>2. current \in DOMAIN wf.steps
    BY <1>7, DefinitionOfRun DEF EnterStep, TypeOK
  <2>3. Control'
    BY <1>7, <2>2 DEF EnterStep, Control, input, Before, Visiting
  <2> QED
    BY <2>1, <2>3
<1>8. CASE StepStarted
  <2>1. log' \in Seq(Entry)
    BY <1>8, HooksCounted DEF StepStarted, Log, Entry, EventKinds, TypeOK
  <2>2. TypeOK'
    BY <1>8, <2>1 DEF StepStarted, TypeOK, input, visit, Places
  <2>3. Control'
    BY <1>8 DEF StepStarted, Control, input, visit, Before, Visiting
  <2> QED
    BY <2>2, <2>3
<1>9. CASE StepStartedHookFails
  <2>1. HookError(pc) \in Errors
    BY HookErrorTyped DEF TypeOK
  <2>2. PICK h \in 1..NumHooks : Log("StepStarted", current, h, "running")
    BY <1>9 DEF StepStartedHookFails
  <2>3. log' \in Seq(Entry)
    BY <2>2, HooksCounted DEF Log, Entry, EventKinds, TypeOK
  <2>4. executed' \in Seq(StepResults)
    <3>1. Result("failed", 0, None, HookError(pc), None) \in StepResults
      BY <2>1, ResultTyped
    <3> QED
      BY <1>9, <3>1, PutTyped DEF StepStartedHookFails, TypeOK
  <2>5. TypeOK'
    BY <1>9, <2>1, <2>3, <2>4
       DEF StepStartedHookFails, FailByHook, Control, Before, Visiting, TypeOK, input, visit, Places
  <2>6. Control'
    BY <1>9 DEF StepStartedHookFails, FailByHook, Control, input, visit, Before, Visiting
  <2> QED
    BY <2>5, <2>6
<1>10. CASE Approve
  <2>1. log' \in Seq(Entry)
    BY <1>10 DEF Approve, Log, Entry, TypeOK
  <2>2. TypeOK'
    BY <1>10, <2>1 DEF Approve, TypeOK, input, Places, Decisions
  <2>3. Control'
    BY <1>10 DEF Approve, Control, input, Before, Visiting
  <2> QED
    BY <2>2, <2>3
<1>11. CASE ApprovalFails
  <2> DEFINE denial == Result("failed", 0, None, Error("ApprovalRequiredError", pc), None)
  <2>1. current \in DOMAIN wf.steps
    BY <1>11 DEF ApprovalFails, Control, Visiting
  <2>2. Error("ApprovalRequiredError", pc) \in Errors
    BY FrameworkErrorTyped DEF FrameworkErrors, TypeOK
  <2>3. Settled(denial) /\ denial.step = current
    BY <2>1, <2>2, FailureSettled
  <2>4. /\ Settled(stepResult')
        /\ stepResult'.step = current
        /\ decision' \in Decisions
        /\ log' \in Seq(Entry)
    <3>1. CASE /\ stepResult' = denial
               /\ UNCHANGED <<decision, log>>
      BY <3>1, <2>3 DEF TypeOK
    <3>2. CASE /\ Log("approve", current, 0, "denied")
               /\ decision' = "denied"
               /\ stepResult' = [denial EXCEPT !.decision = "denied"]
      <4>1. log' \in Seq(Entry)
        BY <3>2 DEF Log, Entry, TypeOK
      <4>2. denial \in StepResults
        BY <2>3 DEF Settled
      <4> HIDE DEF denial
      <4>3. /\ stepResult' \in StepResults
            /\ \A f \in {"step", "status", "error", "route"} : stepResult'[f] = denial[f]
        BY <3>2, <4>2 DEF StepResults, Decisions
      <4> QED
        BY <3>2, <4>1, <4>3, <2>3 DEF Settled, Decisions
    <3>3. CASE /\ \E c \in {x \in Raised : IsException(x)} \cup {"ApprovalRequiredError"} :
                    /\ Log("approve", current, 0, c)
                    /\ stepResult' = Result("failed", 0, None, Error(c, pc), None)
               /\ UNCHANGED decision
      <4>1. PICK c \in Raised \cup {"ApprovalRequiredError"} :
              /\ Log("approve", current, 0, c)
              /\ stepResult' = Result("failed", 0, None, Error(c, pc), None)
        BY <3>3
      <4>2. c \in ErrorClasses
        BY ExecutorAssumption, ErrorAssumption DEF FrameworkErrors
      <4>3. log' \in Seq(Entry)
        BY <4>1, <4>2 DEF Log, Entry, TypeOK
      <4>4. Error(c, pc) \in Errors
        BY <4>2, ErrorTyped DEF TypeOK
      <4> QED
        BY <3>3, <4>1, <4>3, <4>4, <2>1, FailureSettled DEF TypeOK
    <3> QED
      BY <1>11, <3>1, <3>2, <3>3 DEF ApprovalFails
  <2>5. Settled(stepResult)'
    BY <1>11, <2>4 DEF ApprovalFails, Settled, input
  <2>6. TypeOK'
    BY <1>11, <2>4 DEF ApprovalFails, Settled, TypeOK, input, Places
  <2>7. Control'
    BY <1>11, <2>4, <2>5 DEF ApprovalFails, Control, input, Before, Visiting
  <2> QED
    BY <2>6, <2>7
<1>12. ASSUME NEW output \in Outputs, InvokeReturns(output) PROVE IInv'
  <2>1. current \in DOMAIN wf.steps /\ ValidWorkflowDefinition(wf)
    BY <1>12 DEF InvokeReturns, Control, Visiting
  <2>2. attempts' \in Nat /\ log' \in Seq(Entry)
    BY <1>12 DEF InvokeReturns, Log, Entry, TypeOK
  <2>3. /\ Settled(stepResult')
        /\ stepResult'.step = current
        /\ trace' \in Seq(RouteDecisions)
    <3>1. CASE ~RouteResolves(Step, output)
      <4>1. Error("RouteResolutionError", "route") \in Errors
        BY FrameworkErrorTyped DEF FrameworkErrors
      <4> QED
        BY <1>12, <2>1, <2>2, <3>1, <4>1, FailureSettled DEF InvokeReturns, TypeOK
    <3>2. CASE RouteResolves(Step, output) /\ Step.routes = None
      <4> DEFINE r == Result("succeeded", attempts', output, None, None)
      <4>1. stepResult' = r /\ trace' = trace
        BY <1>12, <3>2 DEF InvokeReturns
      <4>2. r \in StepResults
        BY <2>2, ResultTyped
      <4>3. /\ r.step = current
            /\ r.status = "succeeded"
            /\ r.error = None
            /\ r.route = None
        BY DEF Result
      <4> HIDE DEF r
      <4> QED
        BY <2>1, <4>1, <4>2, <4>3 DEF Settled, TypeOK
    <3>3. CASE RouteResolves(Step, output) /\ Step.routes # None
      <4> DEFINE route == RouteDecision(wf, current, output)
                 r == Result("succeeded", attempts', output, None, route)
      <4>1. stepResult' = r /\ trace' = Append(trace, route)
        BY <1>12, <3>3 DEF InvokeReturns
      <4>2. /\ route \in RouteDecisions
            /\ route.ended \/ (route.next \in DOMAIN wf.steps /\ route.next > current)
        BY <2>1, <3>3, DefinitionOfRun, RoutesLeadForward DEF RouteDecisions, Step
      <4> HIDE DEF route
      <4>3. r \in StepResults
        BY <2>2, <4>2, ResultTyped
      <4>4. /\ r.step = current
            /\ r.status = "succeeded"
            /\ r.error = None
            /\ r.route = route
        BY DEF Result
      <4> HIDE DEF r
      <4> QED
        BY <2>1, <4>1, <4>2, <4>3, <4>4 DEF Settled, TypeOK
    <3> QED
      BY <3>1, <3>2, <3>3
  <2>4. Settled(stepResult)'
    BY <1>12, <2>3 DEF InvokeReturns, Settled, input
  <2>5. TypeOK'
    BY <1>12, <2>2, <2>3 DEF InvokeReturns, Settled, TypeOK, input, Places
  <2>6. Control'
    BY <1>12, <2>3, <2>4 DEF InvokeReturns, Control, input, Before, Visiting
  <2> QED
    BY <2>5, <2>6
<1>13. ASSUME NEW class \in Raised \cup {"RuntimeError"}, InvokeRaises(class) PROVE IInv'
  <2>1. current \in DOMAIN wf.steps /\ class \in ErrorClasses
    BY <1>13, ExecutorAssumption, ErrorAssumption
       DEF InvokeRaises, Control, Visiting, FrameworkErrors
  <2>2. attempts' \in Nat /\ log' \in Seq(Entry)
    BY <1>13, <2>1 DEF InvokeRaises, Log, Entry, TypeOK
  <2>3. \/ pc' = "invoke" /\ stepResult' = stepResult
        \/ /\ pc' = "stepFinished"
           /\ Settled(stepResult')
           /\ stepResult'.step = current
    <3>1. Error(class, pc) \in Errors
      BY <2>1, ErrorTyped DEF TypeOK
    <3> QED
      BY <1>13, <2>1, <2>2, <3>1, FailureSettled DEF InvokeRaises, RetryFrom
  <2>4. pc' = "stepFinished" => Settled(stepResult)'
    BY <1>13, <2>3 DEF InvokeRaises, Settled, input
  <2>5. TypeOK'
    BY <1>13, <2>2, <2>3 DEF InvokeRaises, Settled, TypeOK, input, Places
  <2>6. Control'
    BY <1>13, <2>3, <2>4 DEF InvokeRaises, Control, input, Before, Visiting
  <2> QED
    BY <2>5, <2>6
<1>14. CASE StepFinished
  <2>1. Settled(stepResult) /\ stepResult.step = current
    BY <1>14 DEF StepFinished, Control
  <2>2. log' \in Seq(Entry)
    BY <1>14, <2>1, HooksCounted DEF StepFinished, Log, Entry, EventKinds, Settled, TypeOK
  <2>3. executed' \in Seq(StepResults)
    BY <1>14, <2>1, PutTyped DEF StepFinished, Settled, TypeOK
  <2>4. workflowError' \in Errors \cup {None}
    BY <1>14, <2>1 DEF StepFinished, Settled, StepResults
  <2>5. /\ current' \in Nat \ {0}
        /\ pc' \in {"loop", "buildResult"}
        /\ pc' = "loop" => workflowError' = None
    <3>1. CASE LeavesLoop(stepResult)
      BY <1>14, <3>1 DEF StepFinished, TypeOK
    <3>2. CASE ~LeavesLoop(stepResult)
      <4>1. NextIndex(stepResult) \in Nat \ {0}
        BY <2>1, <3>2, DefinitionOfRun DEF NextIndex, LeavesLoop, Settled, TypeOK
      <4> QED
        BY <1>14, <3>2, <4>1 DEF StepFinished, LeavesLoop
    <3> QED
      BY <3>1, <3>2
  <2>6. TypeOK'
    BY <1>14, <2>2, <2>3, <2>4, <2>5
       DEF StepFinished, Control, Before, Visiting, TypeOK, input, visit, Places
  <2>7. Control'
    BY <1>14, <2>5 DEF StepFinished, Control, input, visit, Before, Visiting
  <2> QED
    BY <2>6, <2>7
<1>15. CASE StepFinishedHookFails
  <2>1. HookError(pc) \in Errors
    BY HookErrorTyped DEF TypeOK
  <2>2. stepResult \in StepResults /\ stepResult.status \in {"succeeded", "failed"}
    BY <1>15 DEF StepFinishedHookFails, Control, Settled
  <2>3. PICK h \in 1..NumHooks : Log("StepFinished", current, h, stepResult.status)
    BY <1>15 DEF StepFinishedHookFails
  <2>4. log' \in Seq(Entry)
    BY <2>2, <2>3, HooksCounted DEF Log, Entry, EventKinds, TypeOK
  <2>5. executed' \in Seq(StepResults)
    <3>1. FailedByHook(stepResult) \in StepResults
      BY <2>1, <2>2 DEF FailedByHook, StepResults
    <3> QED
      BY <1>15, <3>1, PutTyped DEF StepFinishedHookFails, TypeOK
  <2>6. TypeOK'
    BY <1>15, <2>1, <2>4, <2>5
       DEF StepFinishedHookFails, FailByHook, Control, Before, Visiting, TypeOK, input, visit, Places
  <2>7. Control'
    BY <1>15 DEF StepFinishedHookFails, FailByHook, Control, input, visit, Before, Visiting
  <2> QED
    BY <2>6, <2>7
<1>16. CASE BuildResult
  <2>1. result' \in WorkflowResults /\ result'.error = workflowError
    <3> DEFINE reason == IF workflowError = None THEN "workflow_ended" ELSE "workflow_failed"
               finalized == FinalizeStepResults(wf, executed, reason)
    <3>1. finalized \in Seq(StepResults)
      BY FinalizeTyped
    <3>2. result' = [status |-> IF workflowError = None THEN "succeeded" ELSE "failed",
                     steps  |-> finalized, error |-> workflowError, trace |-> trace]
      BY <1>16 DEF BuildResult
    <3> HIDE DEF finalized
    <3> QED
      BY <3>1, <3>2 DEF WorkflowResults, TypeOK
  <2>2. TypeOK'
    BY <1>16, <2>1 DEF BuildResult, TypeOK, input, visit, Places
  <2>3. Control'
    BY <1>16, <2>1, NoneAssumption DEF BuildResult, Control, input, visit, Before, Visiting
  <2> QED
    BY <2>2, <2>3
<1>17. CASE WorkflowFinished
  <2>1. result \in WorkflowResults
    BY <1>17 DEF WorkflowFinished, Control, TypeOK
  <2>2. log' \in Seq(Entry)
    BY <1>17, <2>1, HooksCounted
       DEF WorkflowFinished, Log, Entry, EventKinds, WorkflowResults, TypeOK
  <2>3. TypeOK'
    BY <1>17, <2>2 DEF WorkflowFinished, TypeOK, input, visit, Places
  <2>4. Control'
    BY <1>17 DEF WorkflowFinished, Control, input, visit, Before, Visiting
  <2> QED
    BY <2>3, <2>4
<1>18. CASE WorkflowFinishedHookFails
  <2>1. HookError(pc) \in Errors
    BY HookErrorTyped DEF TypeOK
  <2>2. result \in WorkflowResults
    BY <1>18 DEF WorkflowFinishedHookFails, Control, TypeOK
  <2>3. PICK h \in 1..NumHooks : Log("WorkflowFinished", 0, h, result.status)
    BY <1>18 DEF WorkflowFinishedHookFails
  <2>4. log' \in Seq(Entry)
    BY <2>2, <2>3, HooksCounted DEF Log, Entry, EventKinds, WorkflowResults, TypeOK
  <2>5. result' \in WorkflowResults /\ result'.error = workflowError'
    BY <1>18, <2>1, <2>2 DEF WorkflowFinishedHookFails, FailedByHook, WorkflowResults
  <2>6. TypeOK'
    BY <1>18, <2>1, <2>4, <2>5 DEF WorkflowFinishedHookFails, TypeOK, input, visit, Places
  <2>7. Control'
    BY <1>18, <2>5, NoneAssumption
       DEF WorkflowFinishedHookFails, Control, input, visit, Before, Visiting
  <2> QED
    BY <2>6, <2>7
<1>19. CASE Return
  <2>1. result \in WorkflowResults
    BY <1>19 DEF Return, Control, TypeOK
  <2>2. FailingStep(result.steps) \in Nat
    BY <2>1, FailingStepTyped DEF WorkflowResults
  <2>3. boundary' \in Boundaries
    BY <1>19, <2>2 DEF Return, Boundaries, TypeOK
  <2>4. TypeOK'
    BY <1>19, <2>3 DEF Return, TypeOK, input, visit, Places
  <2>5. Control'
    BY <1>19 DEF Return, Control, input, visit, Before, Visiting
  <2> QED
    BY <2>4, <2>5
<1>20. ASSUME NEW class \in Raised, Interrupt(class) PROVE IInv'
  <2>1. class \in ErrorClasses
    BY ExecutorAssumption
  <2>2. log' \in Seq(Entry)
    BY <1>20, <2>1 DEF Interrupt, Log, Entry, TypeOK
  <2> QED
    BY <1>20, <2>1, <2>2, EscapeInv DEF Interrupt
<1>21. CASE UNCHANGED vars
  <2>1. TypeOK'
    BY <1>21 DEF TypeOK, vars, visit, input
  <2>2. Settled(stepResult) => Settled(stepResult)'
    BY <1>21 DEF Settled, vars, visit, input
  <2>3. Control'
    BY <1>21, <2>2 DEF Control, vars, visit, input
  <2> QED
    BY <2>1, <2>3
<1> QED
  BY <1>1, <1>2, <1>3, <1>4, <1>5, <1>6, <1>7, <1>8, <1>9, <1>10, <1>11, <1>12, <1>13,
     <1>14, <1>15, <1>16, <1>17, <1>18, <1>19, <1>20, <1>21 DEF Next, Done

-------------------------------------------------------------------------------
(* Theorems.                                                                *)

\* IInv holds throughout a run.
THEOREM Invariance == Spec => []IInv
<1> QED
  BY InitIInv, NextIInv, PTL DEF Spec

\* A run keeps to its types: what is recorded, returned and raised has the shape of
\* models.py, for every workflow, every hook list and whatever the user code does.
THEOREM TypeCorrect == Spec => []TypeOK
<1>1. IInv => TypeOK
  BY DEF IInv
<1> QED
  BY <1>1, Invariance, PTL

\* An entry that is appended is the last of the history.
LEMMA LogLast ==
  ASSUME TypeOK, NEW e, log' = Append(log, e)
  PROVE  Last(log') = e
BY DEF TypeOK, Last

\* Fail-fast, for every workflow: once an error is set the run starts, approves and
\* invokes nothing, and what it recorded stays. (NothingRunsAfterFailure)
THEOREM FailFast == Spec => NothingRunsAfterFailure
<1>1. IInv /\ [Next]_vars => [KeepsFailure]_vars
  <2> SUFFICES ASSUME IInv, Next, workflowError # None
               PROVE  KeepsFailure \/ UNCHANGED vars
    BY DEF KeepsFailure
  <2>1. pc \notin Before
    BY DEF IInv, Control
  <2>2. TypeOK
    BY DEF IInv
  <2>3. CASE BuildResult
    BY <2>3 DEF BuildResult, KeepsFailure, input
  <2>4. CASE WorkflowFinished
    BY <2>4, <2>2, LogLast DEF WorkflowFinished, Log, KeepsFailure
  <2>5. CASE WorkflowFinishedHookFails
    <3>1. PICK h \in 1..NumHooks : Log("WorkflowFinished", 0, h, result.status)
      BY <2>5 DEF WorkflowFinishedHookFails
    <3>2. Last(log').kind = "WorkflowFinished"
      BY <2>2, <3>1, LogLast DEF Log
    <3>3. workflowError' # None
      BY <2>5, <2>2, HookErrorTyped, NoneAssumption DEF WorkflowFinishedHookFails, TypeOK
    <3> QED
      BY <2>5, <3>2, <3>3 DEF WorkflowFinishedHookFails, KeepsFailure
  <2>6. CASE Return
    BY <2>6 DEF Return, KeepsFailure
  <2>7. ASSUME NEW class \in Raised, Interrupt(class) PROVE KeepsFailure
    <3>1. Last(log').kind = "interrupt"
      BY <2>2, <2>7, LogLast DEF Interrupt, Log
    <3> QED
      BY <2>7, <3>1 DEF Interrupt, Escape, KeepsFailure
  <2>8. CASE Done
    BY <2>8 DEF Done
  <2> QED
    BY <2>1, <2>3, <2>4, <2>5, <2>6, <2>7, <2>8
       DEF Next, Before, Visiting, RejectInput, AcceptInput, WorkflowStarted,
           WorkflowStartedHookFails, LeaveLoop, RejectMethod, EnterStep, StepStarted,
           StepStartedHookFails, Approve, ApprovalFails, InvokeReturns, InvokeRaises,
           StepFinished, StepFinishedHookFails
<1> QED
  BY <1>1, Invariance, PTL DEF Spec, NothingRunsAfterFailure

\* The loops of run cannot go on for ever, whatever the routes, the retry policies and
\* the answers of the user code: every step progresses. (EveryStepProgresses)
THEOREM Progress == Spec => EveryStepProgresses
<1>1. IInv /\ [Next]_vars => [Progresses]_vars
  <2> SUFFICES ASSUME IInv, Next
               PROVE  Progresses \/ UNCHANGED vars
    OBVIOUS
  <2>1. TypeOK
    BY DEF IInv
  <2>2. CASE RejectInput
    BY <2>2 DEF RejectInput, Escape, Progresses, Rank
  <2>3. CASE AcceptInput
    BY <2>3 DEF AcceptInput, Progresses, Rank
  <2>4. CASE WorkflowStarted \/ WorkflowStartedHookFails
    BY <2>4 DEF WorkflowStarted, WorkflowStartedHookFails, Progresses, Rank
  <2>5. CASE LeaveLoop \/ EnterStep
    BY <2>5 DEF LeaveLoop, EnterStep, Progresses, Rank
  <2>6. CASE RejectMethod
    BY <2>6 DEF RejectMethod, Escape, Progresses, Rank
  <2>7. CASE StepStarted
    BY <2>7 DEF StepStarted, Progresses, Rank
  <2>8. CASE StepStartedHookFails
    BY <2>8 DEF StepStartedHookFails, FailByHook, Progresses, Rank
  <2>9. CASE Approve \/ ApprovalFails
    BY <2>9 DEF Approve, ApprovalFails, Progresses, Rank
  <2>10. ASSUME NEW output \in Outputs, InvokeReturns(output) PROVE Progresses
    BY <2>10 DEF InvokeReturns, Progresses, Rank
  <2>11. ASSUME NEW class \in Raised \cup {"RuntimeError"}, InvokeRaises(class)
         PROVE  Progresses
    <3>1. CASE ShouldRetry(RetryPolicy(wf, Step), class, attempts')
      <4>1. attempts < attempts'
        BY <2>1, <2>11 DEF InvokeRaises, TypeOK
      <4>2. attempts' <= Policy(current).retries
        BY <3>1 DEF ShouldRetry, Policy, OwnOr, RetryPolicy, Step
      <4> QED
        BY <2>11, <3>1, <4>1, <4>2 DEF InvokeRaises, RetryFrom, Progresses
    <3>2. CASE ~ShouldRetry(RetryPolicy(wf, Step), class, attempts')
      BY <2>11, <3>2 DEF InvokeRaises, Progresses, Rank
    <3> QED
      BY <3>1, <3>2
  <2>12. CASE StepFinished
    <3>1. CASE LeavesLoop(stepResult)
      BY <2>12, <3>1 DEF StepFinished, Progresses, Rank
    <3>2. CASE ~LeavesLoop(stepResult)
      <4>1. Settled(stepResult) /\ stepResult.step = current /\ current \in DOMAIN wf.steps
        BY <2>12 DEF StepFinished, IInv, Control, Visiting
      <4>2. current < NextIndex(stepResult) /\ NextIndex(stepResult) <= Len(wf.steps) + 1
        BY <2>1, <3>2, <4>1, DefinitionOfRun DEF NextIndex, LeavesLoop, Settled
      <4> QED
        BY <2>12, <3>2, <4>2 DEF StepFinished, Progresses
    <3> QED
      BY <3>1, <3>2
  <2>13. CASE StepFinishedHookFails
    BY <2>13 DEF StepFinishedHookFails, FailByHook, Progresses, Rank
  <2>14. CASE BuildResult
    BY <2>14 DEF BuildResult, Progresses, Rank
  <2>15. CASE WorkflowFinished \/ WorkflowFinishedHookFails
    BY <2>15 DEF WorkflowFinished, WorkflowFinishedHookFails, Progresses, Rank
  <2>16. CASE Return
    BY <2>16 DEF Return, Progresses, Rank
  <2>17. ASSUME NEW class \in Raised, Interrupt(class) PROVE Progresses
    BY <2>17 DEF Interrupt, Escape, Progresses, Rank
  <2>18. CASE Done
    BY <2>18 DEF Done
  <2> QED
    BY <2>2, <2>3, <2>4, <2>5, <2>6, <2>7, <2>8, <2>9, <2>10, <2>11, <2>12, <2>13,
       <2>14, <2>15, <2>16, <2>17, <2>18 DEF Next
<1> QED
  BY <1>1, Invariance, PTL DEF Spec, EveryStepProgresses

-------------------------------------------------------------------------------
(* What a run reports is what happened.                                     *)

\* executed_results: in the order of the steps, and only the last can have failed.
Recorded ==
  /\ \A k \in DOMAIN executed :
       /\ executed[k].step \in DOMAIN wf.steps
       /\ executed[k].status \in {"succeeded", "failed"}
       /\ executed[k].status = "failed" <=> executed[k].error # None
       /\ k < Len(executed) => executed[k].status = "succeeded"
  /\ \A j, k \in DOMAIN executed : j < k => executed[j].step < executed[k].step

\* How the places of the body relate to it.
Accounted ==
  /\ pc \in Before =>
       \A k \in DOMAIN executed : executed[k].status = "succeeded" /\ executed[k].step < current
  /\ pc \in {"validate", "workflowStarted"} => executed = <<>>
  /\ pc = "buildResult" =>
       workflowError = IF executed = <<>> THEN None ELSE Last(executed).error

HasFailed(steps, k) == steps[k].status = "failed"

\* The failed step of a list of results, if there is one, is the last that was visited.
FailedIsLast(steps) ==
  /\ \A k \in DOMAIN steps :
       /\ HasFailed(steps, k) <=> steps[k].error # None
       /\ HasFailed(steps, k) => executed # <<>> /\ steps[k] = Last(executed)
  /\ \A j, k \in DOMAIN steps : HasFailed(steps, j) /\ HasFailed(steps, k) => j = k
  /\ executed # <<>> /\ Last(executed).status = "failed" =>
       \E k \in DOMAIN steps : HasFailed(steps, k)

Reported ==
  result # None =>
    /\ result.status = "failed" <=> result.error # None
    /\ FailedIsLast(result.steps)
    /\ \A k \in DOMAIN result.steps : HasFailed(result.steps, k) =>
         result.error \in {result.steps[k].error, HookError("workflowFinished")}
    /\ (\A k \in DOMAIN result.steps : ~HasFailed(result.steps, k)) =>
         result.error \in {None, HookError("workflowStarted"), HookError("workflowFinished")}

\* What run raises, once it has ended.
Ended ==
  /\ pc # "done" => boundary = None
  /\ BoundaryTellsTheOutcome

RInv == Recorded /\ Accounted /\ Reported /\ Ended

-------------------------------------------------------------------------------
(* Lemmas.                                                                  *)

\* The results so far are of earlier steps, so that a new one comes last.
LEMMA PutAppends ==
  ASSUME NEW dict, NEW r, \A k \in DOMAIN dict : dict[k].step # r.step
  PROVE  Put(dict, r) = Append(dict, r)
BY DEF Put

\* A result of the current step is recorded behind those of earlier steps.
LEMMA RecordingKeeps ==
  ASSUME TypeOK, Recorded, pc \in Before, Accounted, current \in DOMAIN wf.steps,
         NEW r \in StepResults, r.step = current, r.status \in {"succeeded", "failed"},
         r.status = "failed" <=> r.error # None,
         executed' = Put(executed, r), wf' = wf
  PROVE  /\ Recorded'
         /\ executed' # <<>>
         /\ Last(executed') = r
         /\ r.status = "succeeded" =>
              \A k \in DOMAIN executed' :
                executed'[k].status = "succeeded" /\ executed'[k].step <= current
<1> DEFINE n == Len(executed)
<1>1. executed \in Seq(StepResults) /\ n \in Nat /\ current \in Nat
  BY DEF TypeOK
<1>2. \A k \in DOMAIN executed : executed[k].status = "succeeded" /\ executed[k].step < current
  BY DEF Accounted
<1>3. \A k \in DOMAIN executed : executed[k].step \in Nat
  <2>1. \A k \in DOMAIN executed : executed[k] \in StepResults
    BY <1>1
  <2> QED
    BY <2>1 DEF StepResults
<1>4. executed' = Append(executed, r)
  <2>1. \A k \in DOMAIN executed : executed[k].step # r.step
    BY <1>1, <1>2, <1>3
  <2> QED
    BY <2>1, PutAppends
<1>5. /\ Len(executed') = n + 1
      /\ DOMAIN executed' = 1..n + 1
      /\ executed'[n + 1] = r
      /\ DOMAIN executed = 1..n
      /\ \A k \in 1..n : executed'[k] = executed[k]
  BY <1>1, <1>4
<1>6. executed' # <<>> /\ Last(executed') = r
  BY <1>1, <1>5 DEF Last
<1>7. ASSUME NEW k \in 1..n + 1
      PROVE  /\ executed'[k].step \in DOMAIN wf.steps
             /\ executed'[k].status \in {"succeeded", "failed"}
             /\ executed'[k].status = "failed" <=> executed'[k].error # None
             /\ k < n + 1 => executed'[k].status = "succeeded"
  <2>1. CASE k = n + 1
    BY <2>1, <1>1, <1>5
  <2>2. CASE k \in 1..n
    BY <2>2, <1>2, <1>5 DEF Recorded
  <2> QED
    BY <2>1, <2>2, <1>1
<1>8. ASSUME NEW j \in 1..n + 1, NEW k \in 1..n + 1, j < k
      PROVE  executed'[j].step < executed'[k].step
  <2>1. j \in 1..n /\ executed'[j] = executed[j]
    BY <1>1, <1>5, <1>8
  <2>2. CASE k = n + 1
    BY <2>1, <2>2, <1>2, <1>5
  <2>3. CASE k \in 1..n
    BY <2>1, <2>3, <1>5, <1>8 DEF Recorded
  <2> QED
    BY <2>2, <2>3, <1>1
<1>9. Recorded'
  BY <1>5, <1>7, <1>8 DEF Recorded
<1>10. ASSUME r.status = "succeeded", NEW k \in 1..n + 1
       PROVE  executed'[k].status = "succeeded" /\ executed'[k].step <= current
  <2>1. CASE k = n + 1
    BY <2>1, <1>1, <1>5, <1>10
  <2>2. CASE k \in 1..n
    BY <2>2, <1>1, <1>2, <1>3, <1>5
  <2> QED
    BY <2>1, <2>2, <1>1
<1> QED
  BY <1>5, <1>6, <1>9, <1>10

\* finalize_step_results hides no failure and invents none.
LEMMA FinalizeKeepsFailure ==
  ASSUME TypeOK, Recorded, NEW reason \in {"workflow_ended", "workflow_failed"}
  PROVE  FailedIsLast(FinalizeStepResults(wf, executed, reason))
<1> DEFINE n == Len(executed)
           f == FinalizeStepResults(wf, executed, reason)
<1>1. executed \in Seq(StepResults) /\ n \in Nat /\ DOMAIN executed = 1..n
  BY DEF TypeOK
<1>2. /\ executed # <<>> => n \in 1..n /\ Last(executed) = executed[n]
      /\ n \in 1..n => executed # <<>>
  BY <1>1 DEF Last
<1>3. \A k \in 1..n : k < n => executed[k].status = "succeeded"
  BY <1>1 DEF Recorded
<1> HIDE DEF n
<1>4. ASSUME NEW k \in 1..n, executed[k].status = "failed"
      PROVE  k = n /\ executed # <<>>
  <2>1. ~(k < n)
    BY <1>3, <1>4
  <2>2. k = n
    BY <2>1, <1>1
  <2> QED
    BY <2>2, <1>2
<1>5. CASE ~UsesRoutes(wf)
  <2>1. f = executed
    BY <1>5 DEF FinalizeStepResults
  <2>2. FailedIsLast(executed)
    <3>1. \A k \in 1..n : executed[k].status = "failed" <=> executed[k].error # None
      BY <1>1 DEF Recorded
    <3>2. executed # <<>> => n \in DOMAIN executed /\ Last(executed) = executed[n]
      BY <1>1, <1>2
    <3> QED
      BY <3>1, <3>2, <1>1, <1>4 DEF FailedIsLast, HasFailed
  <2> QED
    BY <2>1, <2>2
<1>6. CASE UsesRoutes(wf)
  <2>1. f = [i \in DOMAIN wf.steps |-> IF \E k \in DOMAIN executed : executed[k].step = i
                                       THEN ResultOf(executed, i) ELSE SkippedResult(i, reason)]
    BY <1>6 DEF FinalizeStepResults
  <2> HIDE DEF f
  <2>2. DOMAIN f = DOMAIN wf.steps
    BY <2>1
  <2>3. ASSUME NEW i \in DOMAIN f
        PROVE  \/ \E k \in 1..n : f[i] = executed[k] /\ executed[k].step = i
               \/ f[i].status = "skipped" /\ f[i].error = None
    <3>1. CASE \E k \in DOMAIN executed : executed[k].step = i
      <4> DEFINE k == CHOOSE j \in DOMAIN executed : executed[j].step = i
      <4>1. k \in DOMAIN executed /\ executed[k].step = i
        BY <3>1, Zenon
      <4>2. f[i] = executed[k]
        BY <2>1, <2>2, <3>1 DEF ResultOf
      <4> HIDE DEF k
      <4> QED
        BY <4>1, <4>2, <1>1
    <3>2. CASE ~ \E k \in DOMAIN executed : executed[k].step = i
      BY <2>1, <2>2, <3>2 DEF SkippedResult
    <3> QED
      BY <3>1, <3>2
  <2>4. ASSUME NEW i \in DOMAIN f
        PROVE  /\ HasFailed(f, i) <=> f[i].error # None
               /\ HasFailed(f, i) => executed # <<>> /\ f[i] = Last(executed) /\ f[i].step = i
    BY <2>3, <1>1, <1>2, <1>4 DEF HasFailed, Recorded
  <2>5. ASSUME executed # <<>>, Last(executed).status = "failed"
        PROVE  \E k \in DOMAIN f : HasFailed(f, k)
    <3>1. n \in 1..n /\ Last(executed) = executed[n]
      BY <2>5, <1>2
    <3> DEFINE i == executed[n].step
    <3>2. i \in DOMAIN f /\ executed[n].status = "failed"
      BY <3>1, <2>2, <2>5, <1>1 DEF Recorded
    <3>3. f[i] = ResultOf(executed, i)
      BY <3>1, <3>2, <2>1, <2>2, <1>1
    <3>4. ResultOf(executed, i) = executed[n]
      <4> DEFINE k == CHOOSE j \in DOMAIN executed : executed[j].step = i
      <4>1. k \in DOMAIN executed /\ executed[k].step = i
        BY <3>1, <1>1, Zenon
      <4>2. ResultOf(executed, i) = executed[k]
        BY DEF ResultOf
      <4> HIDE DEF k
      <4>3. k = n
        <5>1. ~(k < n)
          BY <4>1, <3>1, <1>1, DefinitionOfRun DEF Recorded
        <5> QED
          BY <5>1, <4>1, <1>1
      <4> QED
        BY <4>2, <4>3
    <3> QED
      BY <3>2, <3>3, <3>4 DEF HasFailed
  <2>6. ASSUME NEW j \in DOMAIN f, NEW k \in DOMAIN f, HasFailed(f, j), HasFailed(f, k)
        PROVE  j = k
    BY <2>4, <2>6
  <2>7. FailedIsLast(f)
    BY <2>4, <2>5, <2>6 DEF FailedIsLast
  <2> QED
    BY <2>7 DEF f
<1> QED
  BY <1>5, <1>6

\* The step _raise_workflow_execution_error names is the one that failed.
LEMMA FailingStepIsLast ==
  ASSUME NEW steps \in Seq(StepResults), FailedIsLast(steps)
  PROVE  FailingStep(steps) = IF executed # <<>> /\ Last(executed).status = "failed"
                              THEN Last(executed).step ELSE 0
<1> DEFINE failed == {k \in DOMAIN steps : steps[k].status = "failed"}
<1>1. CASE failed = {}
  <2>1. FailingStep(steps) = 0
    BY <1>1 DEF FailingStep
  <2>2. ~(executed # <<>> /\ Last(executed).status = "failed")
    BY <1>1 DEF FailedIsLast, HasFailed
  <2> QED
    BY <2>1, <2>2
<1>2. CASE failed # {}
  <2>1. Min(failed) \in failed
    <3>1. failed \in SUBSET Nat
      OBVIOUS
    <3> HIDE DEF failed
    <3> QED
      BY <1>2, <3>1, MinIsMember
  <2>2. FailingStep(steps) = steps[Min(failed)].step
    BY <1>2 DEF FailingStep
  <2>3. /\ executed # <<>>
        /\ steps[Min(failed)] = Last(executed)
        /\ steps[Min(failed)].status = "failed"
    BY <2>1 DEF FailedIsLast, HasFailed
  <2> QED
    BY <2>2, <2>3
<1> QED
  BY <1>1, <1>2

-------------------------------------------------------------------------------
(* The invariant.                                                           *)

LEMMA InitRInv == Init => RInv
<1> SUFFICES ASSUME Init PROVE RInv
  OBVIOUS
<1>1. executed = <<>> /\ result = None /\ boundary = None /\ pc = "validate"
  BY DEF Init
<1>2. Recorded
  BY <1>1 DEF Recorded
<1>3. Accounted
  BY <1>1 DEF Accounted
<1>4. Reported /\ Ended
  BY <1>1 DEF Reported, Ended, BoundaryTellsTheOutcome
<1> QED
  BY <1>2, <1>3, <1>4 DEF RInv

\* What an exception that leaves the run keeps.
LEMMA EscapeKeeps ==
  ASSUME RInv, NEW class, Escape(class), UNCHANGED input
  PROVE  RInv'
<1>1. Recorded'
  BY DEF RInv, Recorded, Escape, input
<1>2. Accounted'
  BY DEF Accounted, Escape, Before, Visiting
<1>3. Reported'
  BY DEF RInv, Reported, FailedIsLast, HasFailed, Escape, HookError, Error
<1>4. Ended'
  BY DEF Ended, BoundaryTellsTheOutcome, Escaped, Escape
<1> QED
  BY <1>1, <1>2, <1>3, <1>4 DEF RInv

\* A step of the body that records nothing and reports nothing.
LEMMA NothingRecorded ==
  ASSUME RInv, UNCHANGED <<wf, executed, result>>, boundary' = None,
         Accounted'
  PROVE  RInv'
<1>1. Recorded'
  BY DEF RInv, Recorded
<1>2. Reported'
  BY DEF RInv, Reported, FailedIsLast, HasFailed, HookError, Error
<1>3. Ended'
  BY DEF Ended, BoundaryTellsTheOutcome
<1> QED
  BY <1>1, <1>2, <1>3 DEF RInv

LEMMA NextRInv == IInv /\ RInv /\ [Next]_vars => RInv'
<1> SUFFICES ASSUME IInv, RInv, [Next]_vars PROVE RInv'
  OBVIOUS
<1>a. TypeOK /\ Control
  BY DEF IInv
<1>b. Recorded /\ Accounted /\ Reported /\ Ended
  BY DEF RInv
<1>c. pc # "done" => boundary = None
  BY <1>b DEF Ended
<1>1. CASE RejectInput
  BY <1>1, EscapeKeeps DEF RejectInput, input
<1>2. CASE \/ AcceptInput \/ WorkflowStarted \/ EnterStep \/ StepStarted \/ Approve \/ ApprovalFails
           \/ \E output \in Outputs : InvokeReturns(output)
           \/ \E class \in Raised \cup {"RuntimeError"} : InvokeRaises(class)
  <2>1. /\ UNCHANGED <<wf, current, executed, result, boundary>>
        /\ pc \in Before
        /\ pc' \in Before \ {"validate"}
        /\ pc' = "workflowStarted" => pc = "validate"
    BY <1>2
       DEF AcceptInput, WorkflowStarted, EnterStep, StepStarted, Approve, ApprovalFails,
           InvokeReturns, InvokeRaises, RetryFrom, input, visit, Before, Visiting
  <2>2. Accounted'
    BY <2>1, <1>b DEF Accounted, Before, Visiting
  <2>3. boundary' = None
    BY <2>1, <1>c DEF Before, Visiting
  <2> QED
    BY <2>1, <2>2, <2>3, NothingRecorded
<1>3. CASE WorkflowStartedHookFails
  <2>1. executed = <<>> /\ executed' = <<>> /\ wf' = wf /\ boundary' = None /\ pc' = "return"
    BY <1>3, <1>b, <1>c DEF WorkflowStartedHookFails, Accounted, input
  <2>2. result' = [status |-> "failed", steps |-> <<>>, error |-> HookError("workflowStarted"),
                   trace |-> <<>>]
    BY <1>3 DEF WorkflowStartedHookFails
  <2>3. HookError("workflowStarted") # None
    BY HookErrorTyped, NoneAssumption DEF Places
  <2>4. Recorded'
    BY <2>1 DEF Recorded
  <2>5. Accounted'
    BY <2>1 DEF Accounted, Before, Visiting
  <2>6. Reported'
    BY <2>1, <2>2, <2>3 DEF Reported, FailedIsLast, HasFailed, HookError, Error
  <2>7. Ended'
    BY <2>1 DEF Ended, BoundaryTellsTheOutcome
  <2> QED
    BY <2>4, <2>5, <2>6, <2>7 DEF RInv
<1>4. CASE LeaveLoop
  <2>1. /\ UNCHANGED <<wf, executed, result>>
        /\ boundary' = None
        /\ pc \in Before
        /\ pc' = "buildResult"
        /\ workflowError' = None
    BY <1>4, <1>a, <1>c DEF LeaveLoop, Control, Before, input
  <2>2. executed # <<>> => Last(executed).error = None
    <3>1. executed # <<>> => Len(executed) \in DOMAIN executed /\ Last(executed) = executed[Len(executed)]
      BY <1>a DEF TypeOK, Last
    <3> QED
      BY <2>1, <3>1, <1>b DEF Accounted, Recorded
  <2>3. Accounted'
    BY <2>1, <2>2 DEF Accounted, Before, Visiting
  <2> QED
    BY <2>1, <2>3, NothingRecorded
<1>5. CASE RejectMethod
  BY <1>5, EscapeKeeps DEF RejectMethod, input
<1>6. ASSUME NEW r \in StepResults, r.step = current, r.status \in {"succeeded", "failed"},
             r.status = "failed" <=> r.error # None, executed' = Put(executed, r), wf' = wf,
             UNCHANGED <<result, boundary>>, pc \in Visiting,
             \/ pc' = "buildResult" /\ workflowError' = r.error
             \/ pc' = "loop" /\ current' \in Nat /\ current < current' /\ r.error = None
      PROVE  RInv'
  <2>1. current \in DOMAIN wf.steps /\ pc \in Before
    BY <1>6, <1>a DEF Control, Before
  <2>2. /\ Recorded'
        /\ executed' # <<>>
        /\ Last(executed') = r
        /\ r.status = "succeeded" =>
             \A k \in DOMAIN executed' :
               executed'[k].status = "succeeded" /\ executed'[k].step <= current
    BY <1>6, <1>a, <1>b, <2>1, RecordingKeeps
  <2>3. Accounted'
    <3>1. CASE pc' = "buildResult" /\ workflowError' = r.error
      BY <3>1, <2>2 DEF Accounted, Before, Visiting
    <3>2. CASE pc' = "loop" /\ current' \in Nat /\ current < current' /\ r.error = None
      <4>1. \A k \in DOMAIN executed' : executed'[k].step \in Nat
        BY <2>2, <1>6, <1>a, DefinitionOfRun DEF Recorded
      <4>2. \A k \in DOMAIN executed' : executed'[k].status = "succeeded" /\ executed'[k].step <= current
        BY <1>6, <2>2, <3>2
      <4>3. \A k \in DOMAIN executed' : executed'[k].step < current'
        BY <3>2, <4>1, <4>2, <1>a DEF TypeOK
      <4> QED
        BY <3>2, <4>2, <4>3 DEF Accounted
    <3> QED
      BY <1>6, <3>1, <3>2
  <2>4. result' = None
    BY <1>6, <1>a, <2>1 DEF Control
  <2>5. boundary' = None
    BY <1>6, <1>c DEF Visiting
  <2> QED
    BY <2>2, <2>3, <2>4, <2>5 DEF RInv, Reported, Ended, BoundaryTellsTheOutcome
<1>7. CASE StepStartedHookFails
  <2> DEFINE r == Result("failed", 0, None, HookError(pc), None)
  <2>1. HookError(pc) \in Errors
    BY <1>a, HookErrorTyped DEF TypeOK
  <2>2. /\ r \in StepResults
        /\ r.step = current
        /\ r.status = "failed"
        /\ r.error = HookError(pc)
    BY <1>a, <2>1, ResultTyped DEF Result
  <2>3. executed' = Put(executed, r) /\ pc' = "buildResult" /\ workflowError' = HookError(pc)
    BY <1>7 DEF StepStartedHookFails, FailByHook
  <2> HIDE DEF r
  <2> QED
    BY <1>6, <1>7, <2>1, <2>2, <2>3, NoneAssumption DEF StepStartedHookFails, Visiting, input
<1>8. CASE StepFinished
  <2>1. Settled(stepResult) /\ stepResult.step = current /\ current \in DOMAIN wf.steps
    BY <1>8, <1>a DEF StepFinished, Control, Visiting
  <2>2. \/ pc' = "buildResult"
        \/ pc' = "loop" /\ current' \in Nat /\ current < current' /\ stepResult.error = None
    <3>1. CASE LeavesLoop(stepResult)
      BY <1>8, <3>1 DEF StepFinished
    <3>2. CASE ~LeavesLoop(stepResult)
      <4>1. NextIndex(stepResult) \in Nat /\ current < NextIndex(stepResult)
        BY <2>1, <3>2, <1>a, DefinitionOfRun DEF NextIndex, LeavesLoop, Settled
      <4> QED
        BY <1>8, <3>2, <4>1 DEF StepFinished, LeavesLoop
    <3> QED
      BY <3>1, <3>2
  <2> QED
    BY <1>6, <1>8, <2>1, <2>2 DEF StepFinished, Settled, Visiting, input
<1>9. CASE StepFinishedHookFails
  <2> DEFINE r == FailedByHook(stepResult)
  <2>1. HookError(pc) \in Errors
    BY <1>a, HookErrorTyped DEF TypeOK
  <2>2. stepResult \in StepResults /\ stepResult.step = current
    BY <1>9, <1>a DEF StepFinishedHookFails, Control, Settled
  <2>3. /\ r \in StepResults
        /\ r.step = current
        /\ r.status = "failed"
        /\ r.error = HookError(pc)
    BY <2>1, <2>2 DEF FailedByHook, StepResults
  <2>4. executed' = Put(executed, r) /\ pc' = "buildResult" /\ workflowError' = HookError(pc)
    BY <1>9 DEF StepFinishedHookFails, FailByHook
  <2> HIDE DEF r
  <2> QED
    BY <1>6, <1>9, <2>1, <2>3, <2>4, NoneAssumption DEF StepFinishedHookFails, Visiting, input
<1>10. CASE BuildResult
  <2> DEFINE reason == IF workflowError = None THEN "workflow_ended" ELSE "workflow_failed"
             steps == FinalizeStepResults(wf, executed, reason)
  <2>1. FailedIsLast(steps)
    BY <1>a, <1>b, FinalizeKeepsFailure
  <2>2. result' = [status |-> IF workflowError = None THEN "succeeded" ELSE "failed",
                   steps  |-> steps, error |-> workflowError, trace |-> trace]
    BY <1>10 DEF BuildResult
  <2>3. /\ UNCHANGED <<wf, executed>>
        /\ boundary' = None
        /\ pc' = "workflowFinished"
        /\ workflowError = IF executed = <<>> THEN None ELSE Last(executed).error
    BY <1>10, <1>b, <1>c DEF BuildResult, Accounted, input
  <2> HIDE DEF steps
  <2>4. FailedIsLast(result.steps)'
    BY <2>1, <2>2, <2>3 DEF FailedIsLast, HasFailed
  <2>5. ASSUME NEW k \in DOMAIN steps, HasFailed(steps, k)
        PROVE  workflowError = steps[k].error
    BY <2>1, <2>3, <2>5 DEF FailedIsLast
  <2>6. ASSUME \A k \in DOMAIN steps : ~HasFailed(steps, k)
        PROVE  workflowError = None
    <3>1. executed # <<>> => Last(executed).status # "failed"
      BY <2>1, <2>6 DEF FailedIsLast
    <3>2. executed # <<>> => Len(executed) \in DOMAIN executed /\ Last(executed) = executed[Len(executed)]
      BY <1>a DEF TypeOK, Last
    <3> QED
      BY <2>3, <3>1, <3>2, <1>b DEF Recorded
  <2>7. Reported'
    BY <2>2, <2>4, <2>5, <2>6 DEF Reported, HasFailed, HookError, Error
  <2>8. Recorded' /\ Accounted' /\ Ended'
    BY <2>3, <1>b DEF Recorded, Accounted, Ended, BoundaryTellsTheOutcome, Before, Visiting
  <2> QED
    BY <2>7, <2>8 DEF RInv
<1>11. CASE WorkflowFinished
  <2>1. Accounted'
    BY <1>11 DEF WorkflowFinished, Accounted, Before, Visiting
  <2> QED
    BY <1>11, <1>c, <2>1, NothingRecorded DEF WorkflowFinished, input
<1>12. CASE WorkflowFinishedHookFails
  <2>1. result \in WorkflowResults /\ result # None
    BY <1>12, <1>a DEF WorkflowFinishedHookFails, Control, TypeOK
  <2>2. /\ result'.status = "failed"
        /\ result'.error = HookError("workflowFinished")
        /\ result'.steps = result.steps
    BY <1>12, <2>1 DEF WorkflowFinishedHookFails, FailedByHook, WorkflowResults
  <2>3. HookError("workflowFinished") # None
    BY HookErrorTyped, NoneAssumption DEF Places
  <2>4. UNCHANGED <<wf, executed>> /\ boundary' = None /\ pc' = "return"
    BY <1>12, <1>c DEF WorkflowFinishedHookFails, input
  <2>5. Reported'
    BY <2>1, <2>2, <2>3, <2>4, <1>b DEF Reported, FailedIsLast, HasFailed, HookError, Error
  <2>6. Recorded' /\ Accounted' /\ Ended'
    BY <2>4, <1>b DEF Recorded, Accounted, Ended, BoundaryTellsTheOutcome, Before, Visiting
  <2> QED
    BY <2>5, <2>6 DEF RInv
<1>13. CASE Return
  <2>1. result \in WorkflowResults /\ result.error = workflowError /\ result # None
    BY <1>13, <1>a DEF Return, Control, TypeOK
  <2>2. result.status = "failed" <=> workflowError # None
    BY <2>1, <1>b DEF Reported
  <2>3. FailingStep(result.steps) = IF executed # <<>> /\ Last(executed).status = "failed"
                                    THEN Last(executed).step ELSE 0
    <3>1. result.steps \in Seq(StepResults) /\ FailedIsLast(result.steps)
      BY <2>1, <1>b DEF Reported, WorkflowResults
    <3> QED
      BY <3>1, FailingStepIsLast
  <2>4. UNCHANGED <<wf, arguments, executed, result>> /\ pc' = "done"
    BY <1>13 DEF Return, input
  <2>5. Ended'
    <3>1. CASE workflowError # None /\ arguments.raiseOnFailure
      <4>1. boundary' = [how |-> "raised", step |-> FailingStep(result.steps), cause |-> workflowError]
        BY <1>13, <3>1 DEF Return
      <4> QED
        BY <3>1, <4>1, <2>1, <2>2, <2>3, <2>4 DEF Ended, BoundaryTellsTheOutcome
    <3>2. CASE ~(workflowError # None /\ arguments.raiseOnFailure)
      <4>1. boundary' = [how |-> "returned", step |-> 0, cause |-> None]
        BY <1>13, <3>2 DEF Return
      <4> QED
        BY <3>2, <4>1, <2>2, <2>4 DEF Ended, BoundaryTellsTheOutcome
    <3> QED
      BY <3>1, <3>2
  <2>6. Recorded' /\ Accounted'
    BY <2>4, <1>b DEF Recorded, Accounted, Before, Visiting
  <2>7. Reported'
    BY <2>4, <1>b DEF Reported, FailedIsLast, HasFailed, HookError, Error
  <2> QED
    BY <2>5, <2>6, <2>7 DEF RInv
<1>14. ASSUME NEW class \in Raised, Interrupt(class) PROVE RInv'
  BY <1>14, EscapeKeeps DEF Interrupt
<1>15. CASE UNCHANGED vars
  BY <1>15, <1>b
     DEF vars, visit, input, RInv, Recorded, Accounted, Reported, Ended, FailedIsLast, HasFailed,
         BoundaryTellsTheOutcome, Escaped, HookError, Error
<1> QED
  BY <1>1, <1>2, <1>3, <1>4, <1>5, <1>7, <1>8, <1>9, <1>10, <1>11, <1>12, <1>13, <1>14, <1>15
     DEF Next, Done

-------------------------------------------------------------------------------
(* Theorems.                                                                *)

\* RInv holds throughout a run.
THEOREM ReportInvariance == Spec => []RInv
<1>1. IInv /\ RInv /\ [Next]_vars => RInv'
  BY NextRInv
<1> QED
  BY <1>1, InitRInv, Invariance, PTL DEF Spec

\* A failure is reported once, by the step that failed last, and nothing is reported as
\* failed without an error. (OutcomeConsistent)
THEOREM OutcomeIsConsistent == Spec => []OutcomeConsistent
<1>1. RInv => OutcomeConsistent
  <2> SUFFICES ASSUME RInv, result # None PROVE OutcomeConsistent
    BY DEF OutcomeConsistent
  <2> DEFINE failed == {k \in DOMAIN result.steps : result.steps[k].status = "failed"}
  <2>1. Reported
    BY DEF RInv
  <2>2. Cardinality(failed) <= 1
    <3>1. CASE failed = {}
      BY <3>1, FS_EmptySet
    <3>2. CASE failed # {}
      <4>1. PICK k \in failed : TRUE
        BY <3>2
      <4>2. failed = {k}
        BY <2>1, <4>1 DEF Reported, FailedIsLast, HasFailed
      <4>3. Cardinality({k}) = 1
        BY FS_Singleton
      <4> QED
        BY <4>2, <4>3
    <3> QED
      BY <3>1, <3>2
  <2> QED
    BY <2>1, <2>2 DEF OutcomeConsistent, Reported, FailedIsLast, HasFailed
<1> QED
  BY <1>1, ReportInvariance, PTL

\* What leaves run tells the outcome, for every workflow: a failure is raised exactly
\* when that was asked for, for the step that failed. (BoundaryTellsTheOutcome)
THEOREM BoundaryIsTruthful == Spec => []BoundaryTellsTheOutcome
<1>1. RInv => BoundaryTellsTheOutcome
  BY DEF RInv, Ended
<1> QED
  BY <1>1, ReportInvariance, PTL
===============================================================================
