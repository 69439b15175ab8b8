-------------------------------- MODULE Executor --------------------------------
(***************************************************************************)
(* One call of WorkflowExecutor.run (runtime/executor.py).  The call is     *)
(* sequential; what it does not control is the user code it calls: the     *)
(* hooks, the approval handler and the step methods, which may return      *)
(* anything and raise anything.  A child workflow that a step runs is part *)
(* of the step's attempt here; Composition looks into it.                  *)
(*                                                                         *)
(* pc names the piece of the body that runs next:                          *)
(*                                                                         *)
(*   validate -> workflowStarted -> loop -> stepStarted -> approve ->      *)
(*   invoke -> stepFinished -> loop ... -> buildResult ->                  *)
(*   workflowFinished -> return -> done                                    *)
(*                                                                         *)
(* log is a history variable: every call of user code, in order.           *)
(***************************************************************************)
EXTENDS Definitions

CONSTANTS
  Workflows,  \* the definitions the run may be given
  HookCounts, \* the lengths the list of hooks may have; no list counts as 0
  Outputs,    \* the values a step method may return
  Raised      \* the exception classes user code may raise

ASSUME ExecutorAssumption ==
  /\ HookCounts \subseteq Nat
  /\ Raised \subseteq ErrorClasses
  /\ \A wf \in Workflows : IsWorkflowDefinition(wf)

VARIABLES
  wf,             \* the definition found on the class
  arguments,      \* what run() got: a state, a handler, a number of hooks, ...
  pc,
  current,        \* current_step_index
  attempts,       \* attempts of the visit of the current step
  decision,       \* approval_decision of the visit: None or "approved"
  stepResult,     \* the StepResult handed to record_step_result, or None
  executed,       \* executed_results
  trace,          \* route_trace
  workflowError,  \* workflow_error: None or [class, at]
  result,         \* the WorkflowResult, or None
  boundary,       \* how run() ended: None until it did
  log

vars == <<wf, arguments, pc, current, attempts, decision, stepResult, executed,
          trace, workflowError, result, boundary, log>>

visit == <<attempts, decision, stepResult>>
input == <<wf, arguments>>

Arguments ==
  [state : BOOLEAN, handler : BOOLEAN, raiseOnFailure : BOOLEAN, hooks : HookCounts]

NumHooks == arguments.hooks

Step == wf.steps[current]

Error(class, at) == [class |-> class, at |-> at]
HookError(at) == Error("HookExecutionError", at)

-------------------------------------------------------------------------------
(* The history.  count is the number of hooks an event reached, or the      *)
(* number of an attempt.                                                    *)

Log(kind, step, count, outcome) ==
  log' = Append(log, [kind |-> kind, step |-> step, count |-> count, outcome |-> outcome])

-------------------------------------------------------------------------------

Init ==
  /\ wf \in Workflows
  /\ arguments \in Arguments
  /\ pc = "validate"
  /\ current = 1
  /\ attempts = 0
  /\ decision = None
  /\ stepResult = None
  /\ executed = <<>>
  /\ trace = <<>>
  /\ workflowError = None
  /\ result = None
  /\ boundary = None
  /\ log = <<>>

\* An exception nothing in the body catches leaves run().
Escape(class) ==
  /\ pc' = "done"
  /\ boundary' = [how |-> "escaped", step |-> 0, cause |-> Error(class, pc)]
  /\ UNCHANGED <<current, visit, executed, trace, workflowError, result>>

\* A class without metadata is rejected like an invalid definition. Neither error is
\* turned into a result: there is no run yet.
RejectInput ==
  /\ pc = "validate"
  /\ \/ ~ValidWorkflowDefinition(wf) /\ Escape("WorkflowDefinitionError")
     \/ ValidWorkflowDefinition(wf) /\ ~arguments.state /\ Escape("StateValidationError")
  /\ UNCHANGED <<input, log>>

AcceptInput ==
  /\ pc = "validate"
  /\ ValidWorkflowDefinition(wf)
  /\ arguments.state
  /\ pc' = "workflowStarted"
  /\ UNCHANGED <<input, current, visit, executed, trace, workflowError, result, boundary, log>>

WorkflowStarted ==
  /\ pc = "workflowStarted"
  /\ Log("WorkflowStarted", 0, NumHooks, "running")
  /\ pc' = "loop"
  /\ UNCHANGED <<input, current, visit, executed, trace, workflowError, result, boundary>>

\* The early return: a result without steps, and no WorkflowFinishedEvent.
WorkflowStartedHookFails ==
  /\ pc = "workflowStarted"
  /\ \E h \in 1..NumHooks : Log("WorkflowStarted", 0, h, "running")
  /\ workflowError' = HookError(pc)
  /\ result' = [status |-> "failed", steps |-> <<>>, error |-> HookError(pc), trace |-> <<>>]
  /\ pc' = "return"
  /\ UNCHANGED <<input, current, visit, executed, trace, boundary>>

-------------------------------------------------------------------------------
(* The visit of a step.                                                     *)

LeaveLoop ==
  /\ pc = "loop"
  /\ current > Len(wf.steps)
  /\ pc' = "buildResult"
  /\ UNCHANGED <<input, current, visit, executed, trace, workflowError, result, boundary, log>>

Usable(m) == m # None /\ ValidMethodSignature(m)

\* (a mutant) An unusable method is passed over, and the loop is at the same step.
PassOverMethod ==
  /\ pc = "loop"
  /\ current <= Len(wf.steps)
  /\ ~Usable(Step.method)
  /\ UNCHANGED vars

\* The lookup and the check of the method come first in the loop, outside of every
\* try: what they raise leaves the run.
RejectMethod ==
  /\ pc = "loop"
  /\ current <= Len(wf.steps)
  /\ ~Usable(Step.method)
  /\ Escape(IF Step.method = None THEN "AttributeError" ELSE "WorkflowDefinitionError")
  /\ UNCHANGED <<input, log>>

EnterStep ==
  /\ pc = "loop"
  /\ current <= Len(wf.steps)
  /\ Usable(Step.method)
  /\ pc' = "stepStarted"
  /\ attempts' = 0
  /\ decision' = None
  /\ stepResult' = None
  /\ UNCHANGED <<input, current, executed, trace, workflowError, result, boundary, log>>

Result(status, tries, output, error, route) ==
  [step |-> current, status |-> status, attempts |-> tries, output |-> output,
   error |-> error, route |-> route, decision |-> decision, reason |-> None]

StepStarted ==
  /\ pc = "stepStarted"
  /\ Log("StepStarted", current, NumHooks, "running")
  /\ pc' = IF Step.requiresApproval THEN "approve" ELSE "invoke"
  /\ UNCHANGED <<input, current, visit, executed, trace, workflowError, result, boundary>>

\* executed_results[index] = result: a dict keeps the place of a key it holds.
Put(dict, r) ==
  IF \E k \in DOMAIN dict : dict[k].step = r.step
  THEN [k \in DOMAIN dict |-> IF dict[k].step = r.step THEN r ELSE dict[k]]
  ELSE Append(dict, r)

\* (a mutant) The loop is continued, not left.
GoOnAfterHook ==
  /\ workflowError' = HookError(pc)
  /\ pc' = "loop"

FailByHook ==
  /\ workflowError' = HookError(pc)
  /\ pc' = "buildResult"

\* Recorded without record_step_result: no StepFinishedEvent.
StepStartedHookFails ==
  /\ pc = "stepStarted"
  /\ \E h \in 1..NumHooks : Log("StepStarted", current, h, "running")
  /\ executed' = Put(executed, Result("failed", 0, None, HookError(pc), None))
  /\ FailByHook
  /\ UNCHANGED <<input, current, visit, trace, result, boundary>>

Approve ==
  /\ pc = "approve"
  /\ arguments.handler
  /\ Log("approve", current, 0, "approved")
  /\ decision' = "approved"
  /\ pc' = "invoke"
  /\ UNCHANGED <<input, current, attempts, stepResult, executed, trace, workflowError, result,
                 boundary>>

\* The step fails before its first attempt. A decision that denies is kept on the
\* result; a missing handler, an exception, or an answer that is no decision (for
\* which normalize_approval_decision raises ApprovalRequiredError) leaves none.
ApprovalFails ==
  /\ pc = "approve"
  /\ \/ /\ ~arguments.handler
        /\ stepResult' = Result("failed", 0, None, Error("ApprovalRequiredError", pc), None)
        /\ UNCHANGED <<decision, log>>
     \/ /\ arguments.handler
        /\ Log("approve", current, 0, "denied")
        /\ decision' = "denied"
        /\ stepResult' = [Result("failed", 0, None, Error("ApprovalRequiredError", pc), None)
                            EXCEPT !.decision = "denied"]
     \/ /\ arguments.handler
        /\ \E c \in {x \in Raised : IsException(x)} \cup {"ApprovalRequiredError"} :
             /\ Log("approve", current, 0, c)
             /\ stepResult' = Result("failed", 0, None, Error(c, pc), None)
        /\ UNCHANGED decision
  /\ pc' = "stepFinished"
  /\ UNCHANGED <<input, current, attempts, executed, trace, workflowError, result, boundary>>

\* The attempt returns; a routed step resolves its output before it is recorded.
InvokeReturns(output) ==
  /\ pc = "invoke"
  /\ IsInvocable(Step.method)
  /\ attempts' = attempts + 1
  /\ Log("invoke", current, attempts', "returned")
  /\ IF ~RouteResolves(Step, output)
     THEN /\ stepResult' = Result("failed", attempts', output,
                                  Error("RouteResolutionError", "route"), None)
          /\ UNCHANGED trace
     ELSE IF Step.routes = None
     THEN /\ stepResult' = Result("succeeded", attempts', output, None, None)
          /\ UNCHANGED trace
     ELSE LET route == RouteDecision(wf, current, output)
          IN  /\ stepResult' = Result("succeeded", attempts', output, None, route)
              /\ trace' = Append(trace, route)
  /\ pc' = "stepFinished"
  /\ UNCHANGED <<input, current, decision, executed, workflowError, result, boundary>>

\* (a mutant) A retry starts again at the approval.
RetryFromApproval == IF Step.requiresApproval THEN "approve" ELSE "invoke"

RetryFrom == "invoke"

\* (a mutant) The method is called outside of the try.
InvokeEscapes(class) ==
  /\ pc = "invoke"
  /\ IsException(class)
  /\ IsInvocable(Step.method) \/ class = "RuntimeError"
  /\ Log("invoke", current, attempts + 1, class)
  /\ Escape(class)
  /\ UNCHANGED input

\* The attempt raises, and is retried or is the last one.
InvokeRaises(class) ==
  /\ pc = "invoke"
  /\ IsException(class)
  /\ IsInvocable(Step.method) \/ class = "RuntimeError"  \* _invoke_step's own
  /\ attempts' = attempts + 1
  /\ Log("invoke", current, attempts', class)
  /\ IF ShouldRetry(RetryPolicy(wf, Step), class, attempts')
     THEN pc' = RetryFrom /\ UNCHANGED stepResult
     ELSE /\ stepResult' = Result("failed", attempts', None, Error(class, pc), None)
          /\ pc' = "stepFinished"
  /\ UNCHANGED <<input, current, decision, executed, trace, workflowError, result, boundary>>

\* (a mutant) The error of the step is not looked at.
LeavesLoopAtEnd(r) == r.route # None /\ r.route.ended

LeavesLoop(r) == r.error # None \/ (r.route # None /\ r.route.ended)

\* (a mutant) Declaration order, whatever the route.
NextByOrder(r) == current + 1

NextIndex(r) == IF r.route = None THEN current + 1 ELSE r.route.next

\* record_step_result and the way on: out of the loop, along the route, or to the
\* next step.
StepFinished ==
  /\ pc = "stepFinished"
  /\ Log("StepFinished", current, NumHooks, stepResult.status)
  /\ executed' = Put(executed, stepResult)
  /\ workflowError' = stepResult.error
  /\ IF LeavesLoop(stepResult)
     THEN pc' = "buildResult" /\ UNCHANGED current
     ELSE pc' = "loop" /\ current' = NextIndex(stepResult)
  /\ UNCHANGED <<input, visit, trace, result, boundary>>

\* (a mutant) The recorded result is left as it is.
KeptByHook(r) == r

FailedByHook(r) == [r EXCEPT !.status = "failed", !.error = HookError(pc)]

\* The result the hooks saw is replaced by a failed one; a route decision stays in
\* the trace although it is not followed.
StepFinishedHookFails ==
  /\ pc = "stepFinished"
  /\ \E h \in 1..NumHooks : Log("StepFinished", current, h, stepResult.status)
  /\ executed' = Put(executed, FailedByHook(stepResult))
  /\ FailByHook
  /\ UNCHANGED <<input, current, visit, trace, result, boundary>>

-------------------------------------------------------------------------------
(* The end of the run.                                                      *)

BuildResult ==
  /\ pc = "buildResult"
  /\ result' =
       [status |-> IF workflowError = None THEN "succeeded" ELSE "failed",
        steps  |-> FinalizeStepResults(wf, executed,
                     IF workflowError = None THEN "workflow_ended" ELSE "workflow_failed"),
        error  |-> workflowError,
        trace  |-> trace]
  /\ pc' = "workflowFinished"
  /\ UNCHANGED <<input, current, visit, executed, trace, workflowError, boundary, log>>

WorkflowFinished ==
  /\ pc = "workflowFinished"
  /\ Log("WorkflowFinished", 0, NumHooks, result.status)
  /\ pc' = "return"
  /\ UNCHANGED <<input, current, visit, executed, trace, workflowError, result, boundary>>

\* The result object the hooks hold is changed in place.
WorkflowFinishedHookFails ==
  /\ pc = "workflowFinished"
  /\ \E h \in 1..NumHooks : Log("WorkflowFinished", 0, h, result.status)
  /\ workflowError' = HookError(pc)
  /\ result' = FailedByHook(result)
  /\ pc' = "return"
  /\ UNCHANGED <<input, current, visit, executed, trace, boundary>>

\* (a mutant) The last step of the result is taken for the one that failed.
LastStep(results) ==
  IF results # <<>> /\ workflowError.at # "workflowFinished"
  THEN results[Len(results)].step ELSE 0

\* _raise_workflow_execution_error names the first failed step, 0 when there is none.
FailingStep(results) ==
  LET failed == {k \in DOMAIN results : results[k].status = "failed"}
  IN  IF failed = {} THEN 0 ELSE results[Min(failed)].step

Return ==
  /\ pc = "return"
  /\ boundary' =
       IF workflowError # None /\ arguments.raiseOnFailure
       THEN [how |-> "raised", step |-> FailingStep(result.steps), cause |-> workflowError]
       ELSE [how |-> "returned", step |-> 0, cause |-> None]
  /\ pc' = "done"
  /\ UNCHANGED <<input, current, visit, executed, trace, workflowError, result, log>>

\* User code raises what `except Exception` lets through (KeyboardInterrupt, ...).
Interrupt(class) ==
  /\ ~IsException(class)
  /\ \/ /\ pc \in {"workflowStarted", "stepStarted", "stepFinished", "workflowFinished"}
        /\ NumHooks > 0
     \/ pc = "approve" /\ arguments.handler
     \/ pc = "invoke" /\ IsInvocable(Step.method)
  /\ Escape(class)
  /\ Log("interrupt", 0, 0, class)
  /\ UNCHANGED input

Done == pc = "done" /\ UNCHANGED vars

Next ==
  \/ RejectInput
  \/ AcceptInput
  \/ WorkflowStarted
  \/ WorkflowStartedHookFails
  \/ LeaveLoop
  \/ RejectMethod
  \/ EnterStep
  \/ StepStarted
  \/ StepStartedHookFails
  \/ Approve
  \/ ApprovalFails
  \/ \E output \in Outputs : InvokeReturns(output)
  \/ \E class \in Raised \cup {"RuntimeError"} : InvokeRaises(class)
  \/ StepFinished
  \/ StepFinishedHookFails
  \/ BuildResult
  \/ WorkflowFinished
  \/ WorkflowFinishedHookFails
  \/ Return
  \/ \E class \in Raised : Interrupt(class)
  \/ Done

Spec == Init /\ [][Next]_vars

\* The body runs on one thread and never waits: it goes on as long as the user
\* code it calls returns or raises.
FairSpec == Spec /\ WF_vars(Next)
===============================================================================
