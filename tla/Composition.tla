------------------------------ MODULE Composition ------------------------------
(***************************************************************************)
(* Workflows that run workflows: RunContext.run_child (models.py) and the   *)
(* runner it calls (_build_child_workflow_runner, runtime/executor.py).     *)
(*                                                                         *)
(* A child run is a call of WorkflowExecutor.run from inside of a step      *)
(* method, so the runs in progress form a stack.  Executor's variables are  *)
(* the registers of the run on its top; `stack` holds those of the runs     *)
(* that wait for it, each inside of its call of the user's step method      *)
(* (pc = "invoke").  The actions of Executor are the steps of the top run;  *)
(* this module adds what the calls change.                                  *)
(***************************************************************************)
EXTENDS Executor, SequencesExt

CONSTANTS
  Instances,  \* the workflow objects
  ClassOf,    \* the definition on the class of each of them
  Handlers,   \* the approval handlers
  HookLists,  \* the lists of hooks, and how many hooks each of them has
  Calls,      \* the arguments of the calls of run and of run_child
  MaxRuns     \* bounds the number of runs

\* What a call of run_child can raise on top of what user code in the child raises.
ChildErrors ==
  {"ChildWorkflowExecutionError", "WorkflowDefinitionError", "StateValidationError",
   "AttributeError"}

NumberOf(hooks) == IF hooks = None THEN 0 ELSE HookLists[hooks]

ASSUME CompositionAssumption ==
  /\ ClassOf \in [Instances -> Workflows]
  /\ HookLists \in [DOMAIN HookLists -> HookCounts]
  /\ 0 \in HookCounts
  /\ Calls \subseteq [instance : Instances, state : BOOLEAN, failParent : BOOLEAN,
                      handler : Handlers \cup {None}, hooks : DOMAIN HookLists \cup {None}]
  /\ None \notin ErrorClasses \cup Handlers \cup DOMAIN HookLists
  /\ None \notin Nat
  /\ ChildErrors \subseteq Raised

VARIABLES
  stack,   \* the suspended runs, the oldest first
  run,     \* the number of the run on top
  runs,    \* every run: what it was called with and by, what it ended with
  visits,  \* every visit of a step, with the child_workflows its context appends to
  state,   \* state[i]: the run whose state is instance i's `state`, or None
  raised,  \* the exception class a child call has raised into the step method, or None
  ended    \* history: the runs that ended, in that order

registers == vars
calls == <<stack, run, runs, visits, state, raised, ended>>
cvars == <<registers, calls>>

-------------------------------------------------------------------------------
(* A run as a value.                                                        *)

Frame ==
  [run |-> run, wf |-> wf, arguments |-> arguments, pc |-> pc, current |-> current,
   attempts |-> attempts, decision |-> decision, stepResult |-> stepResult,
   executed |-> executed, trace |-> trace, workflowError |-> workflowError,
   result |-> result, boundary |-> boundary, log |-> log]

Load(frame) ==
  /\ run' = frame.run
  /\ wf' = frame.wf
  /\ arguments' = frame.arguments
  /\ pc' = frame.pc
  /\ current' = frame.current
  /\ attempts' = frame.attempts
  /\ decision' = frame.decision
  /\ stepResult' = frame.stepResult
  /\ executed' = frame.executed
  /\ trace' = frame.trace
  /\ workflowError' = frame.workflowError
  /\ result' = frame.result
  /\ boundary' = frame.boundary
  /\ log' = frame.log

ArgumentsOf(call, handler, hooks, raiseOnFailure) ==
  [state |-> call.state, handler |-> handler # None, raiseOnFailure |-> raiseOnFailure,
   hooks |-> NumberOf(hooks)]

\* The frame of a call that has just been made.
Fresh(id, call, handler, hooks) ==
  [run |-> id, wf |-> ClassOf[call.instance],
   arguments |-> ArgumentsOf(call, handler, hooks, FALSE), pc |-> "validate", current |-> 1,
   attempts |-> 0, decision |-> None, stepResult |-> None, executed |-> <<>>, trace |-> <<>>,
   workflowError |-> None, result |-> None, boundary |-> None, log |-> <<>>]

\* handler and hooks are the ones in effect. context is the visit whose context was
\* asked for the run, caller the visit that did, in its attempt-th attempt; 0 for the
\* run nobody called from a step.
NewRun(call, handler, hooks, context, caller, attempt) ==
  [call |-> call, handler |-> handler, hooks |-> hooks, context |-> context,
   caller |-> caller, attempt |-> attempt, outcome |-> None, state |-> None, caught |-> FALSE]

CInit ==
  /\ Init
  /\ \E call \in Calls :
       /\ runs = <<NewRun(call, call.handler, call.hooks, 0, 0, 0)>>
       /\ wf = ClassOf[call.instance]
       /\ \E b \in BOOLEAN : arguments = ArgumentsOf(call, call.handler, call.hooks, b)
  /\ run = 1
  /\ stack = <<>>
  /\ visits = <<>>
  /\ state = [i \in Instances |-> None]
  /\ raised = None
  /\ ended = <<>>

-------------------------------------------------------------------------------
(* The steps of the top run.                                                *)

Instance == runs[run].call.instance

\* (a mutant) The visit that was begun last.
LastVisit == Len(visits)

\* The visit the top run is in.
Here == Max({v \in DOMAIN visits : visits[v].run = run})

\* (a mutant) The state is assigned before anything is validated.
AssignEarly ==
  state' = IF pc = "validate" THEN [state EXCEPT ![Instance] = run] ELSE state

AssignState ==
  state' = IF pc = "validate" /\ pc' # "done" THEN [state EXCEPT ![Instance] = run] ELSE state

Begins ==
  /\ AcceptInput \/ RejectInput
  /\ AssignState
  /\ UNCHANGED <<stack, run, runs, visits, raised, ended>>

\* The runner of the visit captures the handler and the hooks of the run.
Enters ==
  /\ EnterStep
  /\ visits' = Append(visits, [run |-> run, children |-> <<>>, handed |-> FALSE,
                               handler |-> runs[run].handler, hooks |-> runs[run].hooks])
  /\ UNCHANGED <<stack, run, runs, state, raised, ended>>

\* A step method with a parameter gets the context, at its first attempt and at
\* every other; nothing takes it back.
Prepares ==
  /\ StepStarted \/ Approve
  /\ visits' = IF pc' = "invoke" /\ BoundParameters(Step.method) = 1
               THEN [visits EXCEPT ![Here].handed = TRUE] ELSE visits
  /\ UNCHANGED <<stack, run, runs, state, raised, ended>>

\* What a child call raised is what the method raises, unless it caught it. What
\* interrupts other user code is no child's.
Owed(class) == raised \in {None, class}

MethodReturns ==
  /\ raised = None
  /\ \E output \in Outputs : InvokeReturns(output)
  /\ UNCHANGED calls

CodeRaises ==
  /\ \/ \E class \in Raised \cup {"RuntimeError"} : Owed(class) /\ InvokeRaises(class)
     \/ \E class \in Raised : Owed(class) /\ Interrupt(class)
  /\ raised' = None
  /\ UNCHANGED <<stack, run, runs, visits, state, ended>>

\* The state of the result is what the instance's `state` is then.
BuildsResult ==
  /\ BuildResult \/ WorkflowStartedHookFails
  /\ runs' = [runs EXCEPT ![run].state = state[Instance]]
  /\ UNCHANGED <<stack, run, visits, state, raised, ended>>

GoesOn ==
  /\ \/ WorkflowStarted
     \/ LeaveLoop
     \/ RejectMethod
     \/ StepStartedHookFails
     \/ ApprovalFails
     \/ StepFinished
     \/ StepFinishedHookFails
     \/ WorkflowFinished
     \/ WorkflowFinishedHookFails
     \/ Return
  /\ UNCHANGED calls

-------------------------------------------------------------------------------
(* The calls.                                                               *)

\* (a mutant) `own or inherited`: an empty list of hooks is no list.
GivenIfTrue(own, inherited) ==
  IF own = None \/ (own \in DOMAIN HookLists /\ HookLists[own] = 0) THEN inherited ELSE own

Given(own, inherited) == IF own # None THEN own ELSE inherited

\* Any context that was handed out can be asked, also one kept from another step.
RunChild(call, c) ==
  /\ pc = "invoke"
  /\ IsInvocable(Step.method)
  /\ raised = None
  /\ visits[c].handed
  /\ Len(runs) < MaxRuns
  /\ LET handler == Given(call.handler, visits[c].handler)
         hooks   == Given(call.hooks, visits[c].hooks)
     IN  /\ runs' = Append(runs, NewRun(call, handler, hooks, c, Here, attempts + 1))
         /\ Load(Fresh(Len(runs) + 1, call, handler, hooks))
  /\ stack' = Append(stack, Frame)
  /\ UNCHANGED <<visits, state, raised, ended>>

\* (a mutant) The saved run has forgotten its attempts.
ResumeAnew == Load([Last(stack) EXCEPT !.attempts = 0])

Resume == Load(Last(stack))

\* (a mutant) Failure is looked for on the steps.
AStepFailed ==
  /\ runs[run].call.failParent
  /\ \E k \in DOMAIN result.steps : result.steps[k].status = "failed"

FailsParent == runs[run].call.failParent /\ result.status = "failed"

\* (a mutant) The list is made anew for every attempt.
RecordOfAttempt(c) ==
  visits' = [visits EXCEPT ![c].children =
               Append(SelectSeq(@, LAMBDA r : runs[r].attempt = runs[run].attempt), run)]

Record(c) == visits' = [visits EXCEPT ![c].children = Append(@, run)]

ChildReturns ==
  /\ stack # <<>>
  /\ pc = "done"
  /\ boundary.how = "returned"
  /\ Record(runs[run].context)
  /\ runs' = [runs EXCEPT ![run].outcome = result.status]
  /\ raised' = IF FailsParent THEN "ChildWorkflowExecutionError" ELSE None
  /\ Resume
  /\ stack' = Front(stack)
  /\ ended' = Append(ended, run)
  /\ UNCHANGED state

\* What leaves the child's run passes the runner by: nothing is recorded.
ChildRaises ==
  /\ stack # <<>>
  /\ pc = "done"
  /\ boundary.how = "escaped"
  /\ runs' = [runs EXCEPT ![run].outcome =
                IF boundary.cause.at = "validate" THEN "rejected" ELSE boundary.cause.class]
  /\ raised' = boundary.cause.class
  /\ Resume
  /\ stack' = Front(stack)
  /\ ended' = Append(ended, run)
  /\ UNCHANGED <<visits, state>>

\* The step method catches the exception and goes on.
Catch ==
  /\ raised # None
  /\ raised' = None
  /\ runs' = [runs EXCEPT ![Last(ended)].caught = TRUE]
  /\ UNCHANGED <<registers, stack, run, visits, state, ended>>

AllDone == stack = <<>> /\ pc = "done" /\ UNCHANGED cvars

CNext ==
  \/ Begins
  \/ Enters
  \/ Prepares
  \/ MethodReturns
  \/ CodeRaises
  \/ BuildsResult
  \/ GoesOn
  \/ \E call \in Calls, c \in DOMAIN visits : RunChild(call, c)
  \/ ChildReturns
  \/ ChildRaises
  \/ Catch
  \/ AllDone

CSpec == CInit /\ [][CNext]_cvars
===============================================================================
