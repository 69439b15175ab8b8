--------------------------- MODULE CompositionProofs ---------------------------
(* The first run of a composition is a run of Executor, whatever it runs inside, *)
(* and what holds of the runs inside of runs.                                    *)
EXTENDS CompositionProperties, ExecutorProofs

-------------------------------------------------------------------------------
(* The operators of Executor do not depend on its variables: the copies that     *)
(* the instance makes of them are the same.                                      *)

\* A method is usable and takes its parameters in the first run as in any.
LEMMA SameMethods ==
  /\ \A m : Root!Usable(m) <=> Usable(m)
  /\ \A m : Root!IsInvocable(m) <=> IsInvocable(m)
  /\ \A c : Root!IsException(c) <=> IsException(c)
<1>1. \A m : Root!Usable(m) <=> Usable(m)
  BY DEF Usable, Root!Usable, ValidMethodSignature, Root!ValidMethodSignature
<1>2. \A m : Root!BoundParameters(m) = BoundParameters(m)
  BY DEF BoundParameters, Root!BoundParameters
<1>3. \A m : Root!IsInvocable(m) <=> IsInvocable(m)
  BY <1>2 DEF IsInvocable, Root!IsInvocable
<1>4. \A c : Root!IsException(c) <=> IsException(c)
  BY DEF IsException, Root!IsException
<1>5. QED
  BY <1>1, <1>3, <1>4

\* The validation of a definition is the same.
LEMMA SameValidation ==
  \A d : Root!ValidWorkflowDefinition(d) <=> ValidWorkflowDefinition(d)
<1>1. Root!ReservedNames = ReservedNames
  BY DEF ReservedNames, Root!ReservedNames
<1>2. \A s : Root!ValidRetrySettings(s) <=> ValidRetrySettings(s)
  BY DEF ValidRetrySettings, Root!ValidRetrySettings
<1>3. \A s : Root!ValidStepDefinition(s) <=> ValidStepDefinition(s)
  BY <1>1, <1>2 DEF ValidStepDefinition, Root!ValidStepDefinition
<1>4. \A d : Root!StepIndexes(d) = StepIndexes(d)
  BY Zenon DEF StepIndexes, Root!StepIndexes, Max, Root!Max
<1>5. \A d : Root!ValidRouteTargets(d) <=> ValidRouteTargets(d)
  BY <1>4, Zenon DEF ValidRouteTargets, Root!ValidRouteTargets
<1>6. \A d : Root!NamesDiffer(d) <=> NamesDiffer(d)
  BY DEF NamesDiffer, Root!NamesDiffer
<1>7. QED
  BY <1>3, <1>5, <1>6, Zenon DEF ValidWorkflowDefinition, Root!ValidWorkflowDefinition

\* Retries and routes are resolved the same way.
LEMMA SameRules ==
  /\ \A d, s : Root!RetryPolicy(d, s) = RetryPolicy(d, s)
  /\ \A p, c, n : Root!ShouldRetry(p, c, n) <=> ShouldRetry(p, c, n)
  /\ \A s, output : Root!RouteResolves(s, output) <=> RouteResolves(s, output)
  /\ \A d, i, output : Root!RouteDecision(d, i, output) = RouteDecision(d, i, output)
  /\ \A r : Root!LeavesLoop(r) <=> LeavesLoop(r)
<1>1. \A d, s : Root!RetryPolicy(d, s) = RetryPolicy(d, s)
  BY DEF RetryPolicy, Root!RetryPolicy
<1>2. \A p, c, n : Root!ShouldRetry(p, c, n) <=> ShouldRetry(p, c, n)
  BY DEF ShouldRetry, Root!ShouldRetry
<1>3. \A s, output : Root!RouteResolves(s, output) <=> RouteResolves(s, output)
  BY DEF RouteResolves, Root!RouteResolves
<1>4. \A d : Root!StepIndexes(d) = StepIndexes(d)
  BY Zenon DEF StepIndexes, Root!StepIndexes, Max, Root!Max
<1>5. \A d, i, output : Root!RouteDecision(d, i, output) = RouteDecision(d, i, output)
  BY <1>4, Zenon DEF RouteDecision, Root!RouteDecision
<1>6. \A r : Root!LeavesLoop(r) <=> LeavesLoop(r)
  BY DEF LeavesLoop, Root!LeavesLoop
<1>7. QED
  BY <1>1, <1>2, <1>3, <1>5, <1>6

\* Results are put together the same way.
LEMMA SameResults ==
  /\ \A dict, r : Root!Put(dict, r) = Put(dict, r)
  /\ \A d, results, reason :
       Root!FinalizeStepResults(d, results, reason) = FinalizeStepResults(d, results, reason)
  /\ \A results : Root!FailingStep(results) = FailingStep(results)
<1>1. \A dict, r : Root!Put(dict, r) = Put(dict, r)
  BY Zenon DEF Put, Root!Put
<1>2. \A d, results, reason :
        Root!FinalizeStepResults(d, results, reason) = FinalizeStepResults(d, results, reason)
  BY Zenon DEF FinalizeStepResults, Root!FinalizeStepResults, UsesRoutes, Root!UsesRoutes,
               ResultOf, Root!ResultOf, SkippedResult, Root!SkippedResult
<1>3. \A results : Root!FailingStep(results) = FailingStep(results)
  BY Zenon DEF FailingStep, Root!FailingStep, Min, Root!Min
<1>4. QED
  BY <1>1, <1>2, <1>3

-------------------------------------------------------------------------------
(* The first run on its own: nothing is suspended before or after the step.      *)

\* What such a step does as a step of Executor, it does as one of the first run.
LEMMA BeginAlone ==
  ASSUME stack = <<>>, stack' = <<>>
  PROVE  /\ RejectInput => Root!RejectInput
         /\ AcceptInput => Root!AcceptInput
         /\ WorkflowStarted => Root!WorkflowStarted
         /\ WorkflowStartedHookFails => Root!WorkflowStartedHookFails
<1>1. RejectInput => Root!RejectInput
  BY SameValidation
  DEF RejectInput, Root!RejectInput, Escape, Root!Escape, Bottom, input, Root!input, visit,
      Root!visit, Error, Root!Error
<1>2. AcceptInput => Root!AcceptInput
  BY SameValidation
  DEF AcceptInput, Root!AcceptInput, Bottom, input, Root!input, visit, Root!visit
<1>3. WorkflowStarted => Root!WorkflowStarted
  BY DEF WorkflowStarted, Root!WorkflowStarted, Bottom, Log, Root!Log, input, Root!input, visit,
         Root!visit, NumHooks, Root!NumHooks
<1>4. WorkflowStartedHookFails => Root!WorkflowStartedHookFails
  BY DEF WorkflowStartedHookFails, Root!WorkflowStartedHookFails, Bottom, Log, Root!Log, input,
         Root!input, visit, Root!visit, NumHooks, Root!NumHooks, HookError, Root!HookError, Error,
         Root!Error
<1>5. QED
  BY <1>1, <1>2, <1>3, <1>4

\* The same of the steps up to the first attempt.
LEMMA EnterAlone ==
  ASSUME stack = <<>>, stack' = <<>>
  PROVE  /\ LeaveLoop => Root!LeaveLoop
         /\ RejectMethod => Root!RejectMethod
         /\ EnterStep => Root!EnterStep
         /\ StepStarted => Root!StepStarted
         /\ StepStartedHookFails => Root!StepStartedHookFails
         /\ Approve => Root!Approve
         /\ ApprovalFails => Root!ApprovalFails
<1>1. LeaveLoop => Root!LeaveLoop
  BY DEF LeaveLoop, Root!LeaveLoop, Bottom, input, Root!input, visit, Root!visit
<1>2. RejectMethod => Root!RejectMethod
  BY SameMethods
  DEF RejectMethod, Root!RejectMethod, Escape, Root!Escape, Bottom, input, Root!input, visit,
      Root!visit, Error, Root!Error, Step, Root!Step
<1>3. EnterStep => Root!EnterStep
  BY SameMethods
  DEF EnterStep, Root!EnterStep, Bottom, input, Root!input, Step, Root!Step
<1>4. StepStarted => Root!StepStarted
  BY DEF StepStarted, Root!StepStarted, Bottom, Log, Root!Log, input, Root!input, visit,
         Root!visit, NumHooks, Root!NumHooks, Step, Root!Step
<1>5. StepStartedHookFails => Root!StepStartedHookFails
  BY SameResults
  DEF StepStartedHookFails, Root!StepStartedHookFails, Bottom, Log, Root!Log, input, Root!input,
      visit, Root!visit, NumHooks, Root!NumHooks, FailByHook, Root!FailByHook, HookError,
      Root!HookError, Error, Root!Error, Result, Root!Result
<1>6. Approve => Root!Approve
  BY DEF Approve, Root!Approve, Bottom, Log, Root!Log, input, Root!input
<1>7. ApprovalFails => Root!ApprovalFails
  BY SameMethods
  DEF ApprovalFails, Root!ApprovalFails, Bottom, Log, Root!Log, input, Root!input, Error,
      Root!Error, Result, Root!Result
<1>8. QED
  BY <1>1, <1>2, <1>3, <1>4, <1>5, <1>6, <1>7

\* The same of the attempts.
LEMMA InvokeAlone ==
  ASSUME stack = <<>>, stack' = <<>>
  PROVE  /\ \A output : InvokeReturns(output) => Root!InvokeReturns(output)
         /\ \A class : InvokeRaises(class) => Root!InvokeRaises(class)
         /\ \A class : Interrupt(class) => Root!Interrupt(class)
<1>1. ASSUME NEW output, InvokeReturns(output)
      PROVE  Root!InvokeReturns(output)
  BY <1>1, SameMethods, SameRules
  DEF InvokeReturns, Root!InvokeReturns, Bottom, Log, Root!Log, input, Root!input, Result,
      Root!Result, Step, Root!Step, Error, Root!Error
<1>2. ASSUME NEW class, InvokeRaises(class)
      PROVE  Root!InvokeRaises(class)
  BY <1>2, SameMethods, SameRules
  DEF InvokeRaises, Root!InvokeRaises, RetryFrom, Root!RetryFrom, Bottom, Log, Root!Log, input,
      Root!input, Result, Root!Result, Step, Root!Step, Error, Root!Error
<1>3. ASSUME NEW class, Interrupt(class)
      PROVE  Root!Interrupt(class)
  BY <1>3, SameMethods
  DEF Interrupt, Root!Interrupt, Escape, Root!Escape, Bottom, Log, Root!Log, input, Root!input,
      visit, Root!visit, Step, Root!Step, Error, Root!Error, NumHooks, Root!NumHooks
<1>4. QED
  BY <1>1, <1>2, <1>3

\* The same of what follows them.
LEMMA EndAlone ==
  ASSUME stack = <<>>, stack' = <<>>
  PROVE  /\ StepFinished => Root!StepFinished
         /\ StepFinishedHookFails => Root!StepFinishedHookFails
         /\ BuildResult => Root!BuildResult
         /\ WorkflowFinished => Root!WorkflowFinished
         /\ WorkflowFinishedHookFails => Root!WorkflowFinishedHookFails
         /\ Return => Root!Return
<1>1. \A r : Root!NextIndex(r) = NextIndex(r)
  BY DEF NextIndex, Root!NextIndex, Bottom
<1>2. \A r : Root!FailedByHook(r) = FailedByHook(r)
  BY DEF FailedByHook, Root!FailedByHook, HookError, Root!HookError, Error, Root!Error, Bottom
<1>3. StepFinished => Root!StepFinished
  BY <1>1, SameResults, SameRules
  DEF StepFinished, Root!StepFinished, Bottom, Log, Root!Log, input, Root!input, visit,
      Root!visit, NumHooks, Root!NumHooks
<1>4. StepFinishedHookFails => Root!StepFinishedHookFails
  BY <1>2, SameResults
  DEF StepFinishedHookFails, Root!StepFinishedHookFails, Bottom, Log, Root!Log, input,
      Root!input, visit, Root!visit, NumHooks, Root!NumHooks, FailByHook, Root!FailByHook,
      HookError, Root!HookError, Error, Root!Error
<1>5. BuildResult => Root!BuildResult
  BY SameResults
  DEF BuildResult, Root!BuildResult, Bottom, input, Root!input, visit, Root!visit
<1>6. WorkflowFinished => Root!WorkflowFinished
  BY DEF WorkflowFinished, Root!WorkflowFinished, Bottom, Log, Root!Log, input, Root!input,
         visit, Root!visit, NumHooks, Root!NumHooks
<1>7. WorkflowFinishedHookFails => Root!WorkflowFinishedHookFails
  BY <1>2
  DEF WorkflowFinishedHookFails, Root!WorkflowFinishedHookFails, Bottom, Log, Root!Log, input,
      Root!input, visit, Root!visit, NumHooks, Root!NumHooks, HookError, Root!HookError, Error,
      Root!Error
<1>8. Return => Root!Return
  BY SameResults
  DEF Return, Root!Return, Bottom, input, Root!input, visit, Root!visit
<1>9. QED
  BY <1>3, <1>4, <1>5, <1>6, <1>7, <1>8

-------------------------------------------------------------------------------
(* The first run under others.                                                   *)

\* The suspended runs are a sequence.
StackIsSeq == \E S : stack \in Seq(S)

\* What the first run does on its own is a step of it; while it is suspended nothing is.
LEMMA StepAlone ==
  ASSUME CNext, UNCHANGED stack
  PROVE  [Root!Next]_(Root!vars)
<1>1. CASE stack # <<>>
  BY <1>1 DEF Root!vars, Bottom
<1>2. CASE stack = <<>>
  <2>1. stack' = <<>>
    BY <1>2
  <2>2. CASE Begins
    BY <1>2, <2>1, <2>2, BeginAlone DEF Begins, Root!Next
  <2>3. CASE Enters
    BY <1>2, <2>1, <2>3, EnterAlone DEF Enters, Root!Next
  <2>4. CASE Prepares
    BY <1>2, <2>1, <2>4, EnterAlone DEF Prepares, Root!Next
  <2>5. CASE MethodReturns
    BY <1>2, <2>1, <2>5, InvokeAlone DEF MethodReturns, Root!Next
  <2>6. CASE CodeRaises
    BY <1>2, <2>1, <2>6, InvokeAlone DEF CodeRaises, Root!Next
  <2>7. CASE BuildsResult
    BY <1>2, <2>1, <2>7, BeginAlone, EndAlone DEF BuildsResult, Root!Next
  <2>8. CASE GoesOn
    BY <1>2, <2>1, <2>8, BeginAlone, EnterAlone, EndAlone DEF GoesOn, Root!Next
  <2>9. CASE Catch
    BY <1>2, <2>1, <2>9 DEF Catch, registers, vars, Root!vars, Bottom
  <2>10. CASE AllDone
    BY <1>2, <2>1, <2>10 DEF AllDone, cvars, registers, vars, Root!vars, Bottom
  <2>11. ASSUME NEW call \in Calls, NEW c \in DOMAIN visits, RunChild(call, c)
         PROVE  FALSE
    BY <1>2, <2>1, <2>11, AppendProperties DEF RunChild
  <2>12. ~ChildReturns /\ ~ChildRaises
    BY <1>2 DEF ChildReturns, ChildRaises
  <2>13. QED
    BY <2>2, <2>3, <2>4, <2>5, <2>6, <2>7, <2>8, <2>9, <2>10, <2>11, <2>12 DEF CNext
<1>3. QED
  BY <1>1, <1>2

\* A run that calls a child is saved as it is.
LEMMA CallSaves ==
  ASSUME StackIsSeq, NEW call \in Calls, NEW c \in DOMAIN visits, RunChild(call, c)
  PROVE  StackIsSeq' /\ UNCHANGED Root!vars
<1>1. PICK S : stack \in Seq(S)
  BY DEF StackIsSeq
<1>2. stack' = Append(stack, Frame)
  BY DEF RunChild
<1>3. stack \in Seq(S \cup {Frame})
  BY <1>1
<1>4. stack' \in Seq(S \cup {Frame})
  BY <1>2, <1>3
<1>5. stack' # <<>> /\ stack'[1] = IF stack = <<>> THEN Frame ELSE stack[1]
  BY <1>2, <1>3
<1>6. UNCHANGED Root!vars
  BY <1>5 DEF Root!vars, Bottom, Frame
<1>7. QED
  BY <1>4, <1>6 DEF StackIsSeq

\* A run that gets an answer goes on where it was.
LEMMA AnswerRestores ==
  ASSUME StackIsSeq, stack # <<>>, Resume, stack' = Front(stack)
  PROVE  StackIsSeq' /\ UNCHANGED Root!vars
<1>1. PICK S : stack \in Seq(S)
  BY DEF StackIsSeq
<1>2. /\ Len(stack) \in Nat
      /\ Len(stack) = 1 \/ Len(stack) > 1
  <2>1. Len(stack) \in Nat /\ Len(stack) # 0
    BY <1>1
  <2>2. \A n \in Nat : n # 0 => n = 1 \/ n > 1
    OBVIOUS
  <2>3. QED
    BY <2>1, <2>2, Zenon
<1>3. stack' \in Seq(S)
  <2>1. \A i \in 1..Len(stack) - 1 : stack[i] \in S
    BY <1>1
  <2>2. Len(stack) - 1 \in Int
    BY <1>2
  <2>3. QED
    BY <2>1, <2>2, SubSeqProperties DEF Front
<1>4. CASE Len(stack) = 1
  <2>1. stack' = <<>>
    BY <1>1, <1>4 DEF Front
  <2>2. Last(stack) = stack[1]
    BY <1>4 DEF Last
  <2>3. QED
    BY <1>3, <2>1, <2>2 DEF Resume, Load, Root!vars, Bottom, StackIsSeq
<1>5. CASE Len(stack) > 1
  <2>1. stack' # <<>> /\ stack'[1] = stack[1]
    <3>1. stack' = SubSeq(stack, 1, Len(stack) - 1)
      BY DEF Front
    <3>2. Len(stack') = Len(stack) - 1 /\ stack'[1] = stack[1]
      BY <1>1, <1>2, <1>5, <3>1, SubSeqProperties
    <3>3. QED
      BY <1>2, <1>5, <3>2
  <2>2. QED
    BY <1>3, <2>1 DEF Root!vars, Bottom, StackIsSeq
<1>6. QED
  BY <1>2, <1>4, <1>5

\* Every step of the composition is a step of the first run or leaves it alone.
LEMMA StepOfRoot ==
  ASSUME StackIsSeq, [CNext]_cvars
  PROVE  StackIsSeq' /\ [Root!Next]_(Root!vars)
<1>1. CASE UNCHANGED stack /\ CNext
  BY <1>1, StepAlone DEF StackIsSeq
<1>2. CASE UNCHANGED cvars
  BY <1>2 DEF cvars, calls, registers, vars, Root!vars, Bottom, StackIsSeq
<1>3. ASSUME NEW call \in Calls, NEW c \in DOMAIN visits, RunChild(call, c)
      PROVE  StackIsSeq' /\ [Root!Next]_(Root!vars)
  BY <1>3, CallSaves
<1>4. CASE ChildReturns
  BY <1>4, AnswerRestores DEF ChildReturns
<1>5. CASE ChildRaises
  BY <1>5, AnswerRestores DEF ChildRaises
<1>6. CNext => \/ UNCHANGED stack
               \/ \E call \in Calls, c \in DOMAIN visits : RunChild(call, c)
               \/ ChildReturns
               \/ ChildRaises
  BY DEF CNext, Begins, Enters, Prepares, MethodReturns, CodeRaises, BuildsResult, GoesOn,
         Catch, AllDone, cvars, calls
<1>7. QED
  BY <1>1, <1>2, <1>3, <1>4, <1>5, <1>6

\* For all definitions, instances and calls: the first run of a composition is a run of
\* WorkflowExecutor.run as Executor specifies it. (run_child_workflow makes a call of
\* its own, which shares no local variable with its caller's)
THEOREM RootRefinesExecutor == CSpec => RootIsARun
<1>1. CInit => StackIsSeq /\ Root!Init
  <2>1. CInit => StackIsSeq
    BY DEF CInit, StackIsSeq
  <2>2. CInit => Root!Init
    BY DEF CInit, Init, Root!Init, Bottom, Arguments, Root!Arguments
  <2>3. QED
    BY <2>1, <2>2
<1>2. StackIsSeq /\ [CNext]_cvars => StackIsSeq' /\ [Root!Next]_(Root!vars)
  BY StepOfRoot
<1>3. QED
  BY <1>1, <1>2, PTL DEF CSpec, RootIsARun, Root!Spec

-------------------------------------------------------------------------------
(* Runs within runs: the invariant.                                         *)

\* How the run on top ended.
Exited ==
  pc = "done" =>
    /\ boundary \in Boundaries
    /\ boundary.how = "escaped" => boundary.cause \in Errors
    /\ boundary.how # "escaped" => result # None

\* A run that waits for a child does so in the call of a step method.
Suspended ==
  [run : Nat, wf : Workflows, arguments : Arguments, pc : {"invoke"}, current : Nat \ {0},
   attempts : Nat, decision : Decisions, stepResult : StepResults \cup {None},
   executed : Seq(StepResults), trace : Seq(RouteDecisions), workflowError : {None},
   result : {None}, boundary : Boundaries \cup {None}, log : Seq(Entry)]

Stacked ==
  /\ stack \in Seq(Suspended)
  /\ \A k \in DOMAIN stack : /\ ValidWorkflowDefinition(stack[k].wf)
                             /\ stack[k].current \in DOMAIN stack[k].wf.steps

CallsTyped ==
  /\ runs \in Seq(RunRecords)
  /\ visits \in Seq(VisitRecords)
  /\ state \in [Instances -> 1..Len(runs) \cup {None}]
  /\ raised \in ErrorClasses \cup {None}
  /\ ended \in Seq(2..Len(runs))

VisitsOf(q) == {v \in DOMAIN visits : visits[v].run = q}

\* The run that the k-th suspended one waits for.
Above(k) == IF k = Len(stack) THEN run ELSE stack[k + 1].run

\* The later a run was called, the higher it is; each was called from a visit of the
\* one below it.
Nested ==
  /\ run \in DOMAIN runs
  /\ pc = "validate" => run = Len(runs)
  /\ pc \in Visiting => VisitsOf(run) # {}
  /\ raised # None => pc = "invoke" /\ ended # <<>>
  /\ \A k \in DOMAIN stack :
       /\ stack[k].run \in DOMAIN runs
       /\ stack[k].run < run
       /\ runs[Above(k)].caller \in VisitsOf(stack[k].run)
  /\ \A j, k \in DOMAIN stack : j < k => stack[j].run < stack[k].run

\* What visits and runs were given comes from earlier runs.
Inherited ==
  /\ \A v \in DOMAIN visits :
       /\ visits[v].run \in DOMAIN runs
       /\ visits[v].handler = runs[visits[v].run].handler
       /\ visits[v].hooks = runs[visits[v].run].hooks
  /\ \A r \in DOMAIN runs :
       /\ runs[r].caller \in 0..Len(visits)
       /\ r # 1 => runs[r].context \in DOMAIN visits /\ visits[runs[r].context].run < r
       /\ runs[r].handler = IF r = 1 \/ runs[r].call.handler # None THEN runs[r].call.handler
                            ELSE visits[runs[r].context].handler
       /\ runs[r].hooks = IF r = 1 \/ runs[r].call.hooks # None THEN runs[r].call.hooks
                          ELSE visits[runs[r].context].hooks

Calling == TypeOK /\ Control /\ Exited /\ Stacked /\ CallsTyped /\ Nested /\ Inherited

\* The input of the run on top is not accepted yet, or never was.
Unaccepted ==
  \/ pc = "validate"
  \/ pc = "done" /\ boundary.how = "escaped" /\ boundary.cause.at = "validate"

\* The runs in progress.
Pending == {run} \cup {stack[k].run : k \in DOMAIN stack}

\* An instance has the state of one of its accepted runs, of the last one at least that
\* is in progress.
States ==
  /\ Unaccepted => /\ \A i \in Instances : state[i] # run
                   /\ \A r \in DOMAIN runs : runs[r].state # run
  /\ \A i \in Instances : state[i] # None =>
       runs[state[i]].call.instance = i /\ runs[state[i]].outcome # "rejected"
  /\ \A r \in Pending : runs[r].outcome # "rejected"
  /\ pc \notin {"validate", "done"} => state[Instance] # None /\ run <= state[Instance]
  /\ \A k \in DOMAIN stack :
       LET q == stack[k].run
           i == runs[q].call.instance
       IN  state[i] # None /\ q <= state[i]
  /\ \A r \in DOMAIN runs : runs[r].state \in DOMAIN runs \cup {None}
  /\ StateIsOfAnAcceptedRun

\* A run ends once, when it is not in progress any more.
Endings ==
  /\ \A j, k \in DOMAIN ended : j < k => ended[j] # ended[k]
  /\ \A k \in DOMAIN ended : ended[k] \notin Pending
  /\ ChildrenRecordedOnce

Fine(r) ==
  \/ runs[r].caught
  \/ runs[r].outcome = "succeeded"
  \/ runs[r].outcome = "failed" /\ ~runs[r].call.failParent

\* The children that the visit v called in its n-th attempt, its last, are dealt with, all
\* but x.
DealtWith(v, n, x) ==
  \A r \in DOMAIN runs : runs[r].caller = v =>
    /\ runs[r].attempt <= n
    /\ runs[r].attempt = n /\ r # x => Fine(r)

Dealt ==
  /\ pc \in {"stepStarted", "approve"} => \A r \in DOMAIN runs : runs[r].caller # Here
  /\ pc = "invoke" => DealtWith(Here, attempts + 1, IF raised = None THEN 0 ELSE Last(ended))
  /\ \A k \in DOMAIN stack :
       DealtWith(Max(VisitsOf(stack[k].run)), stack[k].attempts + 1, Above(k))
  /\ FailedChildHandled

-------------------------------------------------------------------------------
(* What the steps of a composition do to the calls.                             *)

\* The run on top goes on, and nothing is known of its calls that was not before.
Going ==
  /\ UNCHANGED <<stack, run, runs, visits, state, ended>>
  /\ raised' = None
  /\ pc' \notin {"validate", "stepStarted", "approve"}
  /\ pc' # "done" => pc \notin {"validate", "done"}
  /\ pc' \in Visiting => pc \in Visiting
  /\ pc' = "invoke" => pc = "invoke" /\ attempts' = attempts + 1
  /\ pc' = "stepFinished" /\ stepResult'.status = "succeeded" =>
       pc = "invoke" /\ raised = None /\ attempts' = attempts + 1
  /\ Unaccepted' => Unaccepted

Accepting ==
  /\ pc = "validate"
  /\ pc' = "workflowStarted"
  /\ state' = [state EXCEPT ![Instance] = run]
  /\ UNCHANGED <<stack, run, runs, visits, raised, ended>>

Entering ==
  /\ pc = "loop"
  /\ pc' = "stepStarted"
  /\ visits' = Append(visits, [run |-> run, children |-> <<>>, handed |-> FALSE,
                               handler |-> runs[run].handler, hooks |-> runs[run].hooks])
  /\ UNCHANGED <<stack, run, runs, state, raised, ended>>

Preparing ==
  /\ pc \in {"stepStarted", "approve"}
  /\ pc' \in {"approve", "invoke"}
  /\ attempts' = attempts
  /\ visits' = visits \/ visits' = [visits EXCEPT ![Here].handed = TRUE]
  /\ UNCHANGED <<stack, run, runs, state, raised, ended>>

Building ==
  /\ pc \in {"workflowStarted", "buildResult"}
  /\ pc' \in {"return", "workflowFinished"}
  /\ runs' = [runs EXCEPT ![run].state = state[Instance]]
  /\ UNCHANGED <<stack, run, visits, state, raised, ended>>

\* The run on top ended with o, and its caller goes on with the exception x or none.
Answering(o, x) ==
  /\ stack # <<>>
  /\ pc = "done"
  /\ Resume
  /\ stack' = Front(stack)
  /\ ended' = Append(ended, run)
  /\ runs' = [runs EXCEPT ![run].outcome = o]
  /\ raised' = x
  /\ \/ /\ o \in {"succeeded", "failed"}
        /\ x \in {None, "ChildWorkflowExecutionError"}
        /\ x = None => o = "succeeded" \/ ~runs[run].call.failParent
        /\ Record(runs[run].context)
     \/ /\ o \in {"rejected"} \cup ErrorClasses
        /\ x \in ErrorClasses
        /\ visits' = visits
  /\ o = "rejected" => Unaccepted
  /\ UNCHANGED state

\* Validation is over once it was.
LEMMA AcceptedStays ==
  ASSUME ~Unaccepted, [Next]_vars
  PROVE  ~Unaccepted'
<1>1. pc # "validate"
  BY DEF Unaccepted
<1>2. ASSUME NEW class, Escape(class) PROVE ~Unaccepted'
  BY <1>1, <1>2 DEF Escape, Error, Unaccepted
<1>3. CASE RejectMethod \/ (\E class \in Raised : Interrupt(class))
  BY <1>2, <1>3 DEF RejectMethod, Interrupt
<1>4. CASE Return
  BY <1>4 DEF Return, Unaccepted
<1>5. CASE UNCHANGED vars
  BY <1>5 DEF vars, Unaccepted
<1>6. CASE pc' \notin {"validate", "done"}
  BY <1>6 DEF Unaccepted
<1>7. ~RejectInput /\ ~AcceptInput
  BY <1>1 DEF RejectInput, AcceptInput
<1> QED
  BY <1>3, <1>4, <1>5, <1>6, <1>7
     DEF Next, WorkflowStarted, WorkflowStartedHookFails, LeaveLoop, EnterStep, StepStarted,
         StepStartedHookFails, Approve, ApprovalFails, InvokeReturns, InvokeRaises, RetryFrom,
         StepFinished, StepFinishedHookFails, FailByHook, BuildResult, WorkflowFinished,
         WorkflowFinishedHookFails, Done

\* How the run on top ended is known.
LEMMA ExitKnown ==
  ASSUME IInv, Exited, [Next]_vars
  PROVE  Exited'
<1>1. pc \in Places /\ TypeOK /\ Control
  BY DEF IInv, TypeOK
<1>2. ASSUME NEW class \in ErrorClasses, Escape(class) PROVE Exited'
  BY <1>1, <1>2, ErrorTyped DEF Exited, Escape, Boundaries
<1>3. CASE RejectInput
  BY <1>3, <1>2, ErrorAssumption DEF RejectInput, FrameworkErrors
<1>4. CASE RejectMethod
  BY <1>4, <1>2, ErrorAssumption DEF RejectMethod, FrameworkErrors
<1>5. ASSUME NEW class \in Raised, Interrupt(class) PROVE Exited'
  BY <1>5, <1>2, ExecutorAssumption DEF Interrupt
<1>6. CASE Return
  <2>1. result' = result /\ result # None /\ workflowError \in Errors \cup {None}
    BY <1>6, <1>1 DEF Return, Control, TypeOK
  <2>2. FailingStep(result.steps) \in Nat
    BY <2>1, <1>1, FailingStepTyped DEF TypeOK, WorkflowResults
  <2> QED
    BY <1>6, <2>1, <2>2 DEF Return, Exited, Boundaries
<1>7. CASE UNCHANGED vars
  BY <1>7 DEF vars, Exited
<1>8. CASE pc' # "done"
  BY <1>8 DEF Exited
<1> QED
  BY <1>3, <1>4, <1>5, <1>6, <1>7, <1>8
     DEF Next, AcceptInput, WorkflowStarted, WorkflowStartedHookFails, LeaveLoop, EnterStep,
         StepStarted, StepStartedHookFails, Approve, ApprovalFails, InvokeReturns, InvokeRaises,
         RetryFrom, StepFinished, StepFinishedHookFails, FailByHook, BuildResult,
         WorkflowFinished, WorkflowFinishedHookFails, Done

\* Every step is one of these, a call, a Catch, or none; what is not a call and no answer
\* is a step of the run on top, or leaves it alone.
LEMMA Steps ==
  ASSUME Calling, CNext
  PROVE  \/ /\ [Next]_vars
            /\ \/ Going
               \/ Accepting
               \/ Entering
               \/ Preparing
               \/ Building
               \/ Catch
               \/ UNCHANGED calls /\ UNCHANGED vars
         \/ \E call \in Calls, c \in DOMAIN visits : RunChild(call, c)
         \/ \E o, x : Answering(o, x)
<1>a. /\ pc \in Places
      /\ raised # None => pc = "invoke"
      /\ Control
      /\ Exited
      /\ TypeOK
  BY DEF Calling, Nested, TypeOK
<1>1. CASE Begins
  <2>1. CASE AcceptInput
    BY <1>1, <2>1 DEF Begins, AssignState, AcceptInput, Accepting, Next
  <2>2. CASE RejectInput
    <3>1. pc = "validate" /\ pc' = "done" /\ Unaccepted
      BY <2>2 DEF RejectInput, Escape, Unaccepted
    <3>2. Going
      BY <1>1, <1>a, <3>1 DEF Begins, AssignState, Going, Visiting
    <3> QED
      BY <2>2, <3>2 DEF Next
  <2> QED
    BY <1>1, <2>1, <2>2 DEF Begins
<1>2. CASE Enters
  BY <1>2 DEF Enters, EnterStep, Entering, Next
<1>3. CASE Prepares
  <2>1. CASE StepStarted
    BY <1>3, <2>1 DEF Prepares, StepStarted, Preparing, Next, visit
  <2>2. CASE Approve
    BY <1>3, <2>2 DEF Prepares, Approve, Preparing, Next
  <2> QED
    BY <1>3, <2>1, <2>2 DEF Prepares
<1>4. ASSUME MethodReturns, NEW output \in Outputs, InvokeReturns(output)
      PROVE  [Next]_vars /\ Going
  <2>1. [Next]_vars
    BY <1>4 DEF Next
  <2>2. pc = "invoke" /\ pc' = "stepFinished" /\ attempts' = attempts + 1
    BY <1>4 DEF InvokeReturns
  <2> QED
    BY <1>4, <2>1, <2>2 DEF MethodReturns, calls, Going, Visiting, Unaccepted
<1>5. ASSUME CodeRaises, NEW class \in Raised \cup {"RuntimeError"}, InvokeRaises(class)
      PROVE  [Next]_vars /\ Going
  <2>1. [Next]_vars
    BY <1>5 DEF Next
  <2>2. /\ pc = "invoke"
        /\ pc' \in {"invoke", "stepFinished"}
        /\ attempts' = attempts + 1
        /\ pc' = "stepFinished" => stepResult'.status = "failed"
    BY <1>5 DEF InvokeRaises, RetryFrom, Result
  <2> QED
    BY <1>5, <2>1, <2>2 DEF CodeRaises, Going, Visiting, Unaccepted
<1>6. ASSUME CodeRaises, NEW class \in Raised, Interrupt(class)
      PROVE  [Next]_vars /\ Going
  <2>1. [Next]_vars
    BY <1>6 DEF Next
  <2>2. pc # "validate" /\ pc' = "done" /\ boundary'.cause.at = pc
    BY <1>6 DEF Interrupt, Escape, Error
  <2> QED
    BY <1>6, <2>1, <2>2 DEF CodeRaises, Going, Visiting, Unaccepted
<1>7. CASE BuildsResult
  <2>1. CASE BuildResult
    BY <1>7, <2>1 DEF BuildsResult, BuildResult, Building, Next
  <2>2. CASE WorkflowStartedHookFails
    BY <1>7, <2>2 DEF BuildsResult, WorkflowStartedHookFails, Building, Next
  <2> QED
    BY <1>7, <2>1, <2>2 DEF BuildsResult
<1>8. CASE GoesOn
  <2>1. [Next]_vars
    BY <1>8 DEF GoesOn, Next
  <2>2. /\ pc \notin {"validate", "invoke", "done"}
        /\ pc' \notin {"validate", "stepStarted", "approve", "invoke"}
        /\ pc' \in Visiting => pc \in Visiting
        /\ pc' = "stepFinished" => stepResult'.status = "failed"
    <3>1. CASE ApprovalFails
      BY <3>1 DEF ApprovalFails, Visiting, Result
    <3>2. CASE ~ApprovalFails
      BY <1>8, <3>2
         DEF GoesOn, WorkflowStarted, LeaveLoop, RejectMethod, Escape, StepStartedHookFails,
             StepFinished, StepFinishedHookFails, FailByHook, WorkflowFinished,
             WorkflowFinishedHookFails, Return, Visiting
    <3> QED
      BY <3>1, <3>2
  <2>3. ~Unaccepted
    BY <2>2 DEF Unaccepted
  <2>4. ~Unaccepted'
    BY <2>1, <2>3, AcceptedStays
  <2> QED
    BY <1>8, <1>a, <2>1, <2>2, <2>4 DEF GoesOn, calls, Going
<1>9. CASE ChildReturns
  <2>1. result # None /\ result.status \in {"succeeded", "failed"}
    <3>1. result # None
      BY <1>9, <1>a DEF ChildReturns, Exited
    <3> QED
      BY <3>1, <1>a DEF TypeOK, WorkflowResults
  <2>2. PICK o, x : o = result.status /\ x = raised'
    OBVIOUS
  <2>3. /\ x \in {None, "ChildWorkflowExecutionError"}
        /\ x = None => o = "succeeded" \/ ~runs[run].call.failParent
    BY <1>9, <2>1, <2>2, CompositionAssumption, ExecutorAssumption
       DEF ChildReturns, FailsParent, ChildErrors
  <2>4. Answering(o, x)
    BY <1>9, <2>1, <2>2, <2>3 DEF ChildReturns, Answering
  <2> QED
    BY <2>4
<1>10. CASE ChildRaises
  <2>1. boundary.cause \in Errors
    BY <1>10, <1>a DEF ChildRaises, Exited
  <2>2. boundary.cause.class \in ErrorClasses
    BY <2>1 DEF Errors
  <2>3. PICK o, x : /\ o = IF boundary.cause.at = "validate" THEN "rejected" ELSE boundary.cause.class
                    /\ x = boundary.cause.class
    OBVIOUS
  <2>4. o = "rejected" => Unaccepted
    BY <1>10, <2>2, <2>3, EndingAssumption DEF ChildRaises, Unaccepted
  <2>5. Answering(o, x)
    BY <1>10, <2>2, <2>3, <2>4 DEF ChildRaises, Answering
  <2> QED
    BY <2>5
<1>11. CASE Catch
  BY <1>11 DEF Catch, registers
<1>12. CASE AllDone
  BY <1>12 DEF AllDone, cvars, registers
<1> QED
  BY <1>1, <1>2, <1>3, <1>4, <1>5, <1>6, <1>7, <1>8, <1>9, <1>10, <1>11, <1>12
     DEF CNext, MethodReturns, CodeRaises

-------------------------------------------------------------------------------
(* The records of runs and visits keep what they were made with.                *)

SameOrigin(x, r) ==
  /\ x.call = r.call
  /\ x.handler = r.handler
  /\ x.hooks = r.hooks
  /\ x.context = r.context
  /\ x.caller = r.caller
  /\ x.attempt = r.attempt

SameVisit(x, v) ==
  /\ x.run = v.run
  /\ x.handler = v.handler
  /\ x.hooks = v.hooks

RecordsStay ==
  /\ DOMAIN runs = 1..Len(runs)
  /\ DOMAIN runs' = 1..Len(runs')
  /\ Len(runs) <= Len(runs')
  /\ DOMAIN visits = 1..Len(visits)
  /\ DOMAIN visits' = 1..Len(visits')
  /\ Len(visits) <= Len(visits')
  /\ \A r \in DOMAIN runs : SameOrigin(runs'[r], runs[r])
  /\ \A v \in DOMAIN visits : SameVisit(visits'[v], visits[v])

RunOutcomes == {None, "succeeded", "failed", "rejected"} \cup ErrorClasses

\* One record of a sequence is replaced.
LEMMA RecordReplaced ==
  ASSUME NEW S, NEW s \in Seq(S), NEW q \in DOMAIN s, NEW x \in S, NEW t, t = [s EXCEPT ![q] = x]
  PROVE  /\ t \in Seq(S)
         /\ Len(t) = Len(s)
         /\ DOMAIN t = DOMAIN s
         /\ \A r \in DOMAIN s : t[r] = IF r = q THEN x ELSE s[r]
OBVIOUS

\* A run gets its outcome.
LEMMA OutcomeSet ==
  ASSUME runs \in Seq(RunRecords), NEW q \in DOMAIN runs, NEW o \in RunOutcomes,
         runs' = [runs EXCEPT ![q].outcome = o]
  PROVE  /\ runs' \in Seq(RunRecords)
         /\ Len(runs') = Len(runs)
         /\ DOMAIN runs' = DOMAIN runs
         /\ \A r \in DOMAIN runs :
              /\ SameOrigin(runs'[r], runs[r])
              /\ runs'[r].outcome = IF r = q THEN o ELSE runs[r].outcome
              /\ runs'[r].state = runs[r].state
              /\ runs'[r].caught = runs[r].caught
<1>1. PICK x : x = [runs[q] EXCEPT !.outcome = o]
  OBVIOUS
<1>2. runs[q] \in RunRecords
  OBVIOUS
<1>3. /\ x \in RunRecords
      /\ SameOrigin(x, runs[q])
      /\ x.outcome = o
      /\ x.state = runs[q].state
      /\ x.caught = runs[q].caught
  BY <1>1, <1>2 DEF RunRecords, SameOrigin, RunOutcomes
<1>4. runs' = [runs EXCEPT ![q] = x]
  BY <1>1
<1>5. /\ runs' \in Seq(RunRecords)
      /\ Len(runs') = Len(runs)
      /\ DOMAIN runs' = DOMAIN runs
      /\ \A r \in DOMAIN runs : runs'[r] = IF r = q THEN x ELSE runs[r]
  BY <1>3, <1>4, RecordReplaced
<1> QED
  BY <1>3, <1>5 DEF SameOrigin

\* A run gets the state of its result.
LEMMA StateSet ==
  ASSUME runs \in Seq(RunRecords), NEW q \in DOMAIN runs, NEW s \in Nat \cup {None},
         runs' = [runs EXCEPT ![q].state = s]
  PROVE  /\ runs' \in Seq(RunRecords)
         /\ Len(runs') = Len(runs)
         /\ DOMAIN runs' = DOMAIN runs
         /\ \A r \in DOMAIN runs :
              /\ SameOrigin(runs'[r], runs[r])
              /\ runs'[r].outcome = runs[r].outcome
              /\ runs'[r].state = IF r = q THEN s ELSE runs[r].state
              /\ runs'[r].caught = runs[r].caught
<1>1. PICK x : x = [runs[q] EXCEPT !.state = s]
  OBVIOUS
<1>2. runs[q] \in RunRecords
  OBVIOUS
<1>3. /\ x \in RunRecords
      /\ SameOrigin(x, runs[q])
      /\ x.outcome = runs[q].outcome
      /\ x.state = s
      /\ x.caught = runs[q].caught
  BY <1>1, <1>2 DEF RunRecords, SameOrigin
<1>4. runs' = [runs EXCEPT ![q] = x]
  BY <1>1
<1>5. /\ runs' \in Seq(RunRecords)
      /\ Len(runs') = Len(runs)
      /\ DOMAIN runs' = DOMAIN runs
      /\ \A r \in DOMAIN runs : runs'[r] = IF r = q THEN x ELSE runs[r]
  BY <1>3, <1>4, RecordReplaced
<1> QED
  BY <1>3, <1>5 DEF SameOrigin

\* What a run raised is caught.
LEMMA CaughtSet ==
  ASSUME runs \in Seq(RunRecords), NEW q \in DOMAIN runs, runs' = [runs EXCEPT ![q].caught = TRUE]
  PROVE  /\ runs' \in Seq(RunRecords)
         /\ Len(runs') = Len(runs)
         /\ DOMAIN runs' = DOMAIN runs
         /\ \A r \in DOMAIN runs :
              /\ SameOrigin(runs'[r], runs[r])
              /\ runs'[r].outcome = runs[r].outcome
              /\ runs'[r].state = runs[r].state
              /\ r = q => runs'[r].caught
              /\ r # q => runs'[r] = runs[r]
<1>1. PICK x : x = [runs[q] EXCEPT !.caught = TRUE]
  OBVIOUS
<1>2. runs[q] \in RunRecords
  OBVIOUS
<1>3. x \in RunRecords
  BY <1>1, <1>2 DEF RunRecords
<1>4. runs' = [runs EXCEPT ![q] = x]
  BY <1>1
<1>5. /\ runs' \in Seq(RunRecords)
      /\ Len(runs') = Len(runs)
      /\ DOMAIN runs' = DOMAIN runs
      /\ \A r \in DOMAIN runs : runs'[r] = IF r = q THEN x ELSE runs[r]
  BY <1>3, <1>4, RecordReplaced
<1>6. /\ SameOrigin(x, runs[q])
      /\ x.outcome = runs[q].outcome
      /\ x.state = runs[q].state
      /\ x.caught
  BY <1>1, <1>2 DEF RunRecords, SameOrigin
<1> QED
  BY <1>5, <1>6 DEF SameOrigin

\* A visit hands out its context.
LEMMA HandedSet ==
  ASSUME visits \in Seq(VisitRecords), NEW q \in DOMAIN visits,
         visits' = [visits EXCEPT ![q].handed = TRUE]
  PROVE  /\ visits' \in Seq(VisitRecords)
         /\ Len(visits') = Len(visits)
         /\ DOMAIN visits' = DOMAIN visits
         /\ \A v \in DOMAIN visits : /\ SameVisit(visits'[v], visits[v])
                                     /\ visits'[v].children = visits[v].children
<1>1. PICK x : x = [visits[q] EXCEPT !.handed = TRUE]
  OBVIOUS
<1>2. visits[q] \in VisitRecords
  OBVIOUS
<1>3. /\ x \in VisitRecords
      /\ SameVisit(x, visits[q])
      /\ x.children = visits[q].children
  BY <1>1, <1>2 DEF VisitRecords, SameVisit
<1>4. visits' = [visits EXCEPT ![q] = x]
  BY <1>1
<1>5. /\ visits' \in Seq(VisitRecords)
      /\ Len(visits') = Len(visits)
      /\ DOMAIN visits' = DOMAIN visits
      /\ \A v \in DOMAIN visits : visits'[v] = IF v = q THEN x ELSE visits[v]
  BY <1>3, <1>4, RecordReplaced
<1> QED
  BY <1>3, <1>5 DEF SameVisit

\* A child is recorded on a visit.
LEMMA ChildSet ==
  ASSUME visits \in Seq(VisitRecords), NEW q \in DOMAIN visits, run \in Nat, Record(q)
  PROVE  /\ visits' \in Seq(VisitRecords)
         /\ Len(visits') = Len(visits)
         /\ DOMAIN visits' = DOMAIN visits
         /\ \A v \in DOMAIN visits :
              /\ SameVisit(visits'[v], visits[v])
              /\ visits'[v].children = IF v = q THEN Append(visits[v].children, run)
                                       ELSE visits[v].children
<1>1. PICK l, x : l = Append(visits[q].children, run) /\ x = [visits[q] EXCEPT !.children = l]
  OBVIOUS
<1>2. visits[q] \in VisitRecords
  OBVIOUS
<1>3. visits[q].children \in Seq(Nat)
  BY <1>2 DEF VisitRecords
<1>4. l \in Seq(Nat)
  BY <1>1, <1>3
<1>5. /\ x \in VisitRecords
      /\ SameVisit(x, visits[q])
      /\ x.children = l
  BY <1>1, <1>2, <1>4 DEF VisitRecords, SameVisit
<1>6. visits' = [visits EXCEPT ![q] = x]
  BY <1>1 DEF Record
<1>7. /\ visits' \in Seq(VisitRecords)
      /\ Len(visits') = Len(visits)
      /\ DOMAIN visits' = DOMAIN visits
      /\ \A v \in DOMAIN visits : visits'[v] = IF v = q THEN x ELSE visits[v]
  BY <1>5, <1>6, RecordReplaced
<1> QED
  BY <1>1, <1>5, <1>7 DEF SameVisit

\* A record is added.
LEMMA RecordAdded ==
  ASSUME NEW S, NEW s \in Seq(S), NEW x \in S, NEW t, t = Append(s, x)
  PROVE  /\ t \in Seq(S)
         /\ Len(s) \in Nat
         /\ Len(t) = Len(s) + 1
         /\ DOMAIN s = 1..Len(s)
         /\ DOMAIN t = 1..Len(s) + 1
         /\ t[Len(s) + 1] = x
         /\ \A r \in DOMAIN s : t[r] = s[r]
OBVIOUS

\* What is given is a handler, or none, and a list of hooks, or none.
LEMMA GivenTyped ==
  ASSUME CallsTyped, NEW call \in Calls, NEW c \in DOMAIN visits
  PROVE  /\ Given(call.handler, visits[c].handler) \in Handlers \cup {None}
         /\ Given(call.hooks, visits[c].hooks) \in DOMAIN HookLists \cup {None}
<1>1. visits[c] \in VisitRecords
  BY DEF CallsTyped
<1>2. /\ call.handler \in Handlers \cup {None}
      /\ call.hooks \in DOMAIN HookLists \cup {None}
  BY CompositionAssumption
<1> QED
  BY <1>1, <1>2 DEF Given, VisitRecords

\* The visit a run is in is one of its visits.
LEMMA HereIsVisit ==
  ASSUME CallsTyped, NEW q, VisitsOf(q) # {}
  PROVE  Max(VisitsOf(q)) \in VisitsOf(q)
<1>1. VisitsOf(q) \in SUBSET (1..Len(visits)) /\ Len(visits) \in Nat
  BY DEF VisitsOf, CallsTyped
<1> QED
  BY <1>1, MaxIsMember

-------------------------------------------------------------------------------
(* Calls and answers.                                                           *)

\* The stack loses its top.
LEMMA StackPopped ==
  ASSUME NEW S, NEW s \in Seq(S), s # <<>>, NEW t, t = Front(s), NEW n, n = Len(s)
  PROVE  /\ n \in Nat \ {0}
         /\ DOMAIN s = 1..n
         /\ t \in Seq(S)
         /\ Len(t) = n - 1
         /\ DOMAIN t = 1..n - 1
         /\ \A k \in 1..n - 1 : t[k] = s[k]
         /\ Last(s) = s[n]
<1>1. n \in Nat \ {0} /\ DOMAIN s = 1..n
  OBVIOUS
<1>2. n - 1 \in Nat
  BY <1>1
<1>3. t = SubSeq(s, 1, n - 1)
  BY DEF Front
<1>4. \A k \in 1..n - 1 : s[k] \in S
  BY <1>1
<1>5. t \in Seq(S) /\ Len(t) = n - 1 /\ \A k \in 1..n - 1 : t[k] = s[k]
  BY <1>1, <1>2, <1>3, <1>4, SubSeqProperties
<1>6. DOMAIN t = 1..n - 1
  BY <1>5
<1> QED
  BY <1>1, <1>5, <1>6 DEF Last

\* A run inside of a step method can be suspended.
LEMMA FrameSuspended ==
  ASSUME Calling, pc = "invoke"
  PROVE  /\ Frame \in Suspended
         /\ Frame.run = run
         /\ Frame.attempts = attempts
         /\ ValidWorkflowDefinition(Frame.wf)
         /\ Frame.current \in DOMAIN Frame.wf.steps
<1>1. /\ TypeOK
      /\ run \in Nat
      /\ workflowError = None
      /\ result = None
      /\ ValidWorkflowDefinition(wf)
      /\ current \in DOMAIN wf.steps
  BY DEF Calling, Control, Before, Visiting, Nested, CallsTyped
<1> QED
  BY <1>1 DEF Frame, Suspended, TypeOK

\* A run that goes on where it was suspended is a run of Executor's.
LEMMA ResumedIsRun ==
  ASSUME NEW f \in Suspended, ValidWorkflowDefinition(f.wf), f.current \in DOMAIN f.wf.steps,
         Load(f)
  PROVE  TypeOK' /\ Control' /\ Exited' /\ pc' = "invoke" /\ run' = f.run /\ attempts' = f.attempts
<1>1. /\ wf' \in Workflows
      /\ arguments' \in Arguments
      /\ pc' = "invoke"
      /\ current' \in Nat \ {0}
      /\ attempts' \in Nat
      /\ decision' \in Decisions
      /\ stepResult' \in StepResults \cup {None}
      /\ executed' \in Seq(StepResults)
      /\ trace' \in Seq(RouteDecisions)
      /\ workflowError' = None
      /\ result' = None
      /\ boundary' \in Boundaries \cup {None}
      /\ log' \in Seq(Entry)
  BY DEF Load, Suspended
<1>2. ValidWorkflowDefinition(wf)' /\ current' \in DOMAIN wf'.steps
  BY DEF Load
<1>3. TypeOK'
  BY <1>1 DEF TypeOK, Places
<1>4. Control'
  BY <1>1, <1>2 DEF Control, Before, Visiting
<1>5. Exited'
  BY <1>1 DEF Exited
<1> QED
  BY <1>1, <1>3, <1>4, <1>5 DEF Load

\* So is a run that has just been called.
LEMMA CalledIsRun ==
  ASSUME NEW id \in Nat, NEW call \in Calls, NEW handler \in Handlers \cup {None},
         NEW hooks \in DOMAIN HookLists \cup {None}, Load(Fresh(id, call, handler, hooks))
  PROVE  TypeOK' /\ Control' /\ Exited' /\ pc' = "validate" /\ run' = id
<1>1. /\ wf' = ClassOf[call.instance]
      /\ arguments' = ArgumentsOf(call, handler, hooks, FALSE)
      /\ run' = id
      /\ pc' = "validate"
      /\ current' = 1
      /\ attempts' = 0
      /\ decision' = None
      /\ stepResult' = None
      /\ executed' = <<>>
      /\ trace' = <<>>
      /\ workflowError' = None
      /\ result' = None
      /\ boundary' = None
      /\ log' = <<>>
  BY DEF Load, Fresh
<1>2. NumberOf(hooks) \in HookCounts
  BY CompositionAssumption DEF NumberOf
<1>3. arguments' \in Arguments
  BY <1>1, <1>2, CompositionAssumption DEF ArgumentsOf, Arguments
<1>4. wf' \in Workflows
  BY <1>1, CompositionAssumption
<1>5. TypeOK'
  <2>1. /\ pc' \in Places
        /\ current' \in Nat \ {0}
        /\ attempts' \in Nat
        /\ decision' \in Decisions
        /\ stepResult' \in StepResults \cup {None}
        /\ workflowError' \in Errors \cup {None}
        /\ result' \in WorkflowResults \cup {None}
        /\ boundary' \in Boundaries \cup {None}
    BY <1>1 DEF Places, Decisions
  <2>2. executed' \in Seq(StepResults) /\ trace' \in Seq(RouteDecisions) /\ log' \in Seq(Entry)
    BY <1>1
  <2> QED
    BY <1>1, <1>3, <1>4, <2>1, <2>2 DEF TypeOK
<1>6. Control'
  BY <1>1 DEF Control, Before, Visiting
<1>7. Exited'
  BY <1>1 DEF Exited
<1> QED
  BY <1>1, <1>5, <1>6, <1>7

\* What a call of run_child does.
LEMMA CallMade ==
  ASSUME Calling, NEW call \in Calls, NEW c \in DOMAIN visits, RunChild(call, c),
         NEW n, n = Len(runs), NEW m, m = Len(stack)
  PROVE  /\ pc = "invoke"
         /\ raised = None
         /\ TypeOK' /\ Control' /\ Exited'
         /\ pc' = "validate"
         /\ run' = n + 1
         /\ stack \in Seq(Suspended)
         /\ stack' \in Seq(Suspended)
         /\ m \in Nat
         /\ Len(stack') = m + 1
         /\ DOMAIN stack = 1..m
         /\ DOMAIN stack' = 1..m + 1
         /\ stack'[m + 1] = Frame
         /\ \A k \in DOMAIN stack : stack'[k] = stack[k]
         /\ runs' \in Seq(RunRecords)
         /\ n \in Nat
         /\ Len(runs') = n + 1
         /\ DOMAIN runs = 1..n
         /\ DOMAIN runs' = 1..n + 1
         /\ \A r \in DOMAIN runs : runs'[r] = runs[r]
         /\ runs'[n + 1].call = call
         /\ runs'[n + 1].handler = Given(call.handler, visits[c].handler)
         /\ runs'[n + 1].hooks = Given(call.hooks, visits[c].hooks)
         /\ runs'[n + 1].context = c
         /\ runs'[n + 1].caller = Here
         /\ runs'[n + 1].attempt = attempts + 1
         /\ runs'[n + 1].outcome = None
         /\ runs'[n + 1].state = None
         /\ UNCHANGED <<visits, state, raised, ended>>
<1>1. PICK handler, hooks, h, t, x :
        /\ handler = Given(call.handler, visits[c].handler)
        /\ hooks = Given(call.hooks, visits[c].hooks)
        /\ h = Here
        /\ t = attempts + 1
        /\ x = NewRun(call, handler, hooks, c, h, t)
  OBVIOUS
<1>2. handler \in Handlers \cup {None} /\ hooks \in DOMAIN HookLists \cup {None}
  BY <1>1, GivenTyped DEF Calling
<1>3. /\ runs' = Append(runs, x)
      /\ Load(Fresh(n + 1, call, handler, hooks))
      /\ stack' = Append(stack, Frame)
      /\ pc = "invoke"
      /\ raised = None
      /\ UNCHANGED <<visits, state, raised, ended>>
  BY <1>1 DEF RunChild
<1>4. /\ runs \in Seq(RunRecords)
      /\ visits \in Seq(VisitRecords)
      /\ stack \in Seq(Suspended)
      /\ attempts \in Nat
  BY DEF Calling, CallsTyped, Stacked, TypeOK
<1>5. h \in Nat
  <2>1. Here \in VisitsOf(run)
    BY <1>3, HereIsVisit DEF Calling, Nested, Visiting, Here, VisitsOf
  <2> QED
    BY <2>1, <1>1, <1>4 DEF VisitsOf
<1>6. c \in Nat /\ t \in Nat
  BY <1>1, <1>4
<1>7. /\ x \in RunRecords
      /\ x.call = call
      /\ x.handler = handler
      /\ x.hooks = hooks
      /\ x.context = c
      /\ x.caller = h
      /\ x.attempt = t
      /\ x.outcome = None
      /\ x.state = None
  BY <1>1, <1>2, <1>5, <1>6 DEF NewRun, RunRecords
<1>8. /\ runs' \in Seq(RunRecords)
      /\ n \in Nat
      /\ Len(runs') = n + 1
      /\ DOMAIN runs = 1..n
      /\ DOMAIN runs' = 1..n + 1
      /\ runs'[n + 1] = x
      /\ \A r \in DOMAIN runs : runs'[r] = runs[r]
  BY <1>3, <1>4, <1>7, RecordAdded
<1>9. Frame \in Suspended
  BY <1>3, FrameSuspended
<1>10. PICK f : f = Frame
  OBVIOUS
<1>11. /\ stack' \in Seq(Suspended)
       /\ m \in Nat
       /\ Len(stack') = m + 1
       /\ DOMAIN stack = 1..m
       /\ DOMAIN stack' = 1..m + 1
       /\ stack'[m + 1] = f
       /\ \A k \in DOMAIN stack : stack'[k] = stack[k]
  BY <1>3, <1>4, <1>9, <1>10, RecordAdded
<1>12. n + 1 \in Nat
  BY <1>8
<1>13. TypeOK' /\ Control' /\ Exited' /\ pc' = "validate" /\ run' = n + 1
  BY <1>2, <1>3, <1>12, CalledIsRun
<1> QED
  BY <1>1, <1>3, <1>4, <1>7, <1>8, <1>10, <1>11, <1>13

\* What its end does.
LEMMA AnswerMade ==
  ASSUME Calling, NEW o, NEW x, Answering(o, x), NEW m, m = Len(stack)
  PROVE  /\ m \in Nat \ {0}
         /\ DOMAIN stack = 1..m
         /\ stack' \in Seq(Suspended)
         /\ Len(stack') = m - 1
         /\ DOMAIN stack' = 1..m - 1
         /\ \A k \in 1..m - 1 : stack'[k] = stack[k]
         /\ TypeOK' /\ Control' /\ Exited'
         /\ pc' = "invoke"
         /\ run' = stack[m].run
         /\ attempts' = stack[m].attempts
         /\ run \in 2..Len(runs)
         /\ runs[run].context \in DOMAIN visits
         /\ o \in RunOutcomes
         /\ x \in ErrorClasses \cup {None}
<1>1. stack \in Seq(Suspended) /\ stack # <<>> /\ stack' = Front(stack)
  BY DEF Calling, Stacked, Answering
<1>2. /\ m \in Nat \ {0}
      /\ DOMAIN stack = 1..m
      /\ stack' \in Seq(Suspended)
      /\ Len(stack') = m - 1
      /\ DOMAIN stack' = 1..m - 1
      /\ \A k \in 1..m - 1 : stack'[k] = stack[k]
      /\ Last(stack) = stack[m]
  BY <1>1, StackPopped
<1>3. m \in DOMAIN stack
  BY <1>2
<1>4. PICK f : f = stack[m]
  OBVIOUS
<1>5. /\ f \in Suspended
      /\ ValidWorkflowDefinition(f.wf)
      /\ f.current \in DOMAIN f.wf.steps
      /\ Load(f)
  BY <1>1, <1>2, <1>3, <1>4 DEF Calling, Stacked, Answering, Resume
<1>6. TypeOK' /\ Control' /\ Exited' /\ pc' = "invoke" /\ run' = f.run /\ attempts' = f.attempts
  BY <1>5, ResumedIsRun
<1>7. run \in 2..Len(runs)
  <2>1. /\ Len(runs) \in Nat
        /\ DOMAIN runs = 1..Len(runs)
        /\ run \in DOMAIN runs
        /\ f.run \in DOMAIN runs
        /\ f.run < run
    BY <1>3, <1>4 DEF Calling, CallsTyped, Nested
  <2> QED
    BY <2>1
<1>8. runs[run].context \in DOMAIN visits
  <2>1. run # 1 /\ run \in DOMAIN runs
    BY <1>7 DEF Calling, Nested
  <2> QED
    BY <2>1 DEF Calling, Inherited
<1>9. o \in RunOutcomes /\ x \in ErrorClasses \cup {None}
  BY CompositionAssumption, ExecutorAssumption DEF Answering, RunOutcomes, ChildErrors
<1> QED
  BY <1>2, <1>4, <1>6, <1>7, <1>8, <1>9

-------------------------------------------------------------------------------
(* The calls stay what they were.                                               *)

\* The records of runs and visits stay typed and keep their origin.
LEMMA RecordsKept ==
  ASSUME Calling, CNext
  PROVE  /\ runs' \in Seq(RunRecords)
         /\ visits' \in Seq(VisitRecords)
         /\ RecordsStay
<1>1. /\ runs \in Seq(RunRecords)
      /\ visits \in Seq(VisitRecords)
      /\ Len(runs) \in Nat
      /\ Len(visits) \in Nat
      /\ DOMAIN runs = 1..Len(runs)
      /\ DOMAIN visits = 1..Len(visits)
      /\ run \in DOMAIN runs
  BY DEF Calling, CallsTyped, Nested
<1>2. ASSUME runs' \in Seq(RunRecords), Len(runs) <= Len(runs'),
             \A r \in DOMAIN runs : SameOrigin(runs'[r], runs[r]),
             visits' \in Seq(VisitRecords), Len(visits) <= Len(visits'),
             \A v \in DOMAIN visits : SameVisit(visits'[v], visits[v])
      PROVE  RecordsStay
  BY <1>1, <1>2 DEF RecordsStay
<1>3. ASSUME runs' = runs, visits' = visits
      PROVE  runs' \in Seq(RunRecords) /\ visits' \in Seq(VisitRecords) /\ RecordsStay
  BY <1>1, <1>2, <1>3 DEF SameOrigin, SameVisit
<1>4. CASE Going \/ Accepting \/ UNCHANGED calls
  BY <1>3, <1>4 DEF Going, Accepting, calls
<1>5. CASE Entering
  <2>1. PICK x : x = [run |-> run, children |-> <<>>, handed |-> FALSE,
                      handler |-> runs[run].handler, hooks |-> runs[run].hooks]
    OBVIOUS
  <2>2. runs[run] \in RunRecords
    BY <1>1
  <2>3. x \in VisitRecords
    <3>1. <<>> \in Seq(Nat) /\ run \in Nat
      BY <1>1
    <3> QED
      BY <2>1, <2>2, <3>1 DEF VisitRecords, RunRecords
  <2>4. /\ visits' \in Seq(VisitRecords)
        /\ Len(visits') = Len(visits) + 1
        /\ \A v \in DOMAIN visits : visits'[v] = visits[v]
    BY <1>1, <1>5, <2>1, <2>3, RecordAdded DEF Entering
  <2> QED
    BY <1>1, <1>2, <1>5, <2>4 DEF Entering, SameOrigin, SameVisit
<1>6. CASE Preparing
  <2>1. CASE visits' = visits
    BY <1>3, <1>6, <2>1 DEF Preparing
  <2>2. CASE visits' = [visits EXCEPT ![Here].handed = TRUE]
    <3>1. Here \in DOMAIN visits
      <4>1. Here \in VisitsOf(run)
        BY <1>6, HereIsVisit DEF Preparing, Calling, Nested, Visiting, Here, VisitsOf
      <4> QED
        BY <4>1 DEF VisitsOf
    <3>2. PICK h : h = Here
      OBVIOUS
    <3>3. /\ visits' \in Seq(VisitRecords)
          /\ Len(visits') = Len(visits)
          /\ \A v \in DOMAIN visits : SameVisit(visits'[v], visits[v])
      BY <1>1, <2>2, <3>1, <3>2, HandedSet
    <3> QED
      BY <1>1, <1>2, <1>6, <3>3 DEF Preparing, SameOrigin
  <2> QED
    BY <1>6, <2>1, <2>2 DEF Preparing
<1>7. CASE Building
  <2>1. Instance \in Instances /\ state[Instance] \in Nat \cup {None}
    <3>1. Instance \in Instances
      <4>1. runs[run] \in RunRecords
        BY <1>1
      <4> QED
        BY <4>1, CompositionAssumption DEF Instance, RunRecords
    <3> QED
      BY <1>1, <3>1 DEF Calling, CallsTyped
  <2>2. PICK s : s = state[Instance]
    OBVIOUS
  <2>3. /\ runs' \in Seq(RunRecords)
        /\ Len(runs') = Len(runs)
        /\ \A r \in DOMAIN runs : SameOrigin(runs'[r], runs[r])
    BY <1>1, <1>7, <2>1, <2>2, StateSet DEF Building
  <2> QED
    BY <1>1, <1>2, <1>7, <2>3 DEF Building, SameVisit
<1>8. CASE Catch
  <2>1. Last(ended) \in DOMAIN runs
    <3>1. ended \in Seq(2..Len(runs)) /\ ended # <<>>
      BY <1>8 DEF Catch, Calling, CallsTyped, Nested
    <3>2. Last(ended) \in 2..Len(runs)
      BY <3>1 DEF Last
    <3> QED
      BY <1>1, <3>2
  <2>2. PICK q : q = Last(ended)
    OBVIOUS
  <2>3. /\ runs' \in Seq(RunRecords)
        /\ Len(runs') = Len(runs)
        /\ \A r \in DOMAIN runs : SameOrigin(runs'[r], runs[r])
    BY <1>1, <1>8, <2>1, <2>2, CaughtSet DEF Catch
  <2>4. visits' = visits
    BY <1>8 DEF Catch
  <2> QED
    BY <1>1, <1>2, <2>3, <2>4 DEF SameVisit
<1>9. ASSUME NEW call \in Calls, NEW c \in DOMAIN visits, RunChild(call, c)
      PROVE  runs' \in Seq(RunRecords) /\ visits' \in Seq(VisitRecords) /\ RecordsStay
  <2>1. /\ runs' \in Seq(RunRecords)
        /\ Len(runs') = Len(runs) + 1
        /\ \A r \in DOMAIN runs : runs'[r] = runs[r]
        /\ visits' = visits
    BY <1>9, CallMade
  <2> QED
    BY <1>1, <1>2, <2>1 DEF SameOrigin, SameVisit
<1>10. ASSUME NEW o, NEW x, Answering(o, x)
       PROVE  runs' \in Seq(RunRecords) /\ visits' \in Seq(VisitRecords) /\ RecordsStay
  <2>1. o \in RunOutcomes /\ runs[run].context \in DOMAIN visits
    BY <1>10, AnswerMade
  <2>2. /\ runs' \in Seq(RunRecords)
        /\ Len(runs') = Len(runs)
        /\ \A r \in DOMAIN runs : SameOrigin(runs'[r], runs[r])
    BY <1>1, <1>10, <2>1, OutcomeSet DEF Answering
  <2>3. /\ visits' \in Seq(VisitRecords)
        /\ Len(visits') = Len(visits)
        /\ \A v \in DOMAIN visits : SameVisit(visits'[v], visits[v])
    <3>1. CASE visits' = visits
      BY <1>1, <3>1 DEF SameVisit
    <3>2. CASE Record(runs[run].context)
      <4>1. PICK q : q = runs[run].context
        OBVIOUS
      <4> QED
        BY <1>1, <2>1, <3>2, <4>1, ChildSet
    <3> QED
      BY <1>10, <3>1, <3>2 DEF Answering
  <2> QED
    BY <1>1, <1>2, <2>2, <2>3
<1> QED
  BY Steps, <1>4, <1>5, <1>6, <1>7, <1>8, <1>9, <1>10

\* The visits of a run stay its visits, and are all unless it enters a step.
LEMMA VisitsGrow ==
  ASSUME RecordsStay, NEW q
  PROVE  /\ \A v \in VisitsOf(q) : v \in VisitsOf(q)'
         /\ Len(visits') = Len(visits) => VisitsOf(q)' = VisitsOf(q)
<1>1. \A v \in 1..Len(visits) : visits'[v].run = visits[v].run
  BY DEF RecordsStay, SameVisit
<1>2. 1..Len(visits) \subseteq 1..Len(visits')
  BY DEF RecordsStay
<1>3. \A v \in VisitsOf(q) : v \in VisitsOf(q)'
  BY <1>1, <1>2 DEF RecordsStay, VisitsOf
<1>4. ASSUME Len(visits') = Len(visits)
      PROVE  \A v : v \in VisitsOf(q)' <=> v \in VisitsOf(q)
  BY <1>1, <1>4 DEF RecordsStay, VisitsOf
<1> QED
  BY <1>3, <1>4

\* Only a run that enters a step adds a visit.
LEMMA VisitsAdded ==
  ASSUME Calling, CNext, ~Entering
  PROVE  Len(visits') = Len(visits) /\ DOMAIN visits' = DOMAIN visits
<1>1. visits \in Seq(VisitRecords)
  BY DEF Calling, CallsTyped
<1>2. CASE visits' = visits
  BY <1>2
<1>3. ASSUME NEW q, visits' = [visits EXCEPT ![q].handed = TRUE]
      PROVE  Len(visits') = Len(visits) /\ DOMAIN visits' = DOMAIN visits
  BY <1>1, <1>3
<1>4. ASSUME NEW q, Record(q)
      PROVE  Len(visits') = Len(visits) /\ DOMAIN visits' = DOMAIN visits
  BY <1>1, <1>4 DEF Record
<1>5. CASE Preparing
  BY <1>2, <1>3, <1>5 DEF Preparing
<1>6. ASSUME NEW o, NEW x, Answering(o, x)
      PROVE  Len(visits') = Len(visits) /\ DOMAIN visits' = DOMAIN visits
  BY <1>2, <1>4, <1>6 DEF Answering
<1>7. ASSUME NEW call \in Calls, NEW c \in DOMAIN visits, RunChild(call, c)
      PROVE  visits' = visits
  BY <1>7, CallMade
<1> QED
  BY <1>2, <1>5, <1>6, <1>7, Steps DEF Going, Accepting, Building, Catch, calls

LEMMA TopKept ==
  ASSUME Calling, CNext
  PROVE  TypeOK' /\ Control' /\ Exited'
<1>1. CASE [Next]_vars
  BY <1>1, NextIInv, ExitKnown DEF Calling, IInv
<1>2. ASSUME NEW call \in Calls, NEW c \in DOMAIN visits, RunChild(call, c)
      PROVE  TypeOK' /\ Control' /\ Exited'
  BY <1>2, CallMade
<1>3. ASSUME NEW o, NEW x, Answering(o, x)
      PROVE  TypeOK' /\ Control' /\ Exited'
  BY <1>3, AnswerMade
<1> QED
  BY <1>1, <1>2, <1>3, Steps

LEMMA StackedKept ==
  ASSUME Calling, CNext
  PROVE  Stacked'
<1>1. CASE stack' = stack
  BY <1>1 DEF Calling, Stacked
<1>2. ASSUME NEW call \in Calls, NEW c \in DOMAIN visits, RunChild(call, c)
      PROVE  Stacked'
  <2>1. PICK m, f : m = Len(stack) /\ f = Frame
    OBVIOUS
  <2>2. /\ pc = "invoke"
        /\ m \in Nat
        /\ stack' \in Seq(Suspended)
        /\ DOMAIN stack = 1..m
        /\ DOMAIN stack' = 1..m + 1
        /\ stack'[m + 1] = f
        /\ \A k \in DOMAIN stack : stack'[k] = stack[k]
    BY <1>2, <2>1, CallMade
  <2>3. ValidWorkflowDefinition(f.wf) /\ f.current \in DOMAIN f.wf.steps
    BY <2>1, <2>2, FrameSuspended
  <2>4. \A k \in 1..m + 1 : k \in 1..m \/ k = m + 1
    BY <2>2
  <2> QED
    BY <2>2, <2>3, <2>4 DEF Calling, Stacked
<1>3. ASSUME NEW o, NEW x, Answering(o, x)
      PROVE  Stacked'
  <2>1. PICK m : m = Len(stack)
    OBVIOUS
  <2>2. /\ m \in Nat
        /\ DOMAIN stack = 1..m
        /\ stack' \in Seq(Suspended)
        /\ DOMAIN stack' = 1..m - 1
        /\ \A k \in 1..m - 1 : stack'[k] = stack[k]
    BY <1>3, <2>1, AnswerMade
  <2>3. \A k \in 1..m - 1 : k \in 1..m
    BY <2>2
  <2> QED
    BY <2>2, <2>3 DEF Calling, Stacked
<1> QED
  BY <1>1, <1>2, <1>3, Steps DEF Going, Accepting, Entering, Preparing, Building, Catch, calls

LEMMA CallsTypedKept ==
  ASSUME Calling, CNext
  PROVE  CallsTyped'
<1>1. /\ runs' \in Seq(RunRecords)
      /\ visits' \in Seq(VisitRecords)
      /\ Len(runs) \in Nat
      /\ Len(runs') \in Nat
      /\ Len(runs) <= Len(runs')
  BY RecordsKept DEF RecordsStay, Calling, CallsTyped
<1>2. /\ state \in [Instances -> 1..Len(runs) \cup {None}]
      /\ ended \in Seq(2..Len(runs))
      /\ raised \in ErrorClasses \cup {None}
      /\ run \in 1..Len(runs)
  BY DEF Calling, CallsTyped, Nested
<1>3. 1..Len(runs) \subseteq 1..Len(runs') /\ 2..Len(runs) \subseteq 2..Len(runs')
  BY <1>1
<1>4. state' \in [Instances -> 1..Len(runs') \cup {None}]
  <2>1. CASE state' = state
    BY <2>1, <1>2, <1>3
  <2>2. CASE Accepting
    BY <2>2, <1>2, <1>3 DEF Accepting
  <2>3. ASSUME NEW call \in Calls, NEW c \in DOMAIN visits, RunChild(call, c)
        PROVE  state' = state
    BY <2>3, CallMade
  <2> QED
    BY <2>1, <2>2, <2>3, Steps DEF Going, Entering, Preparing, Building, Catch, calls, Answering
<1>5. ended' \in Seq(2..Len(runs')) /\ raised' \in ErrorClasses \cup {None}
  <2>1. ended \in Seq(2..Len(runs'))
    BY <1>2, <1>3
  <2>2. CASE ended' = ended /\ raised' \in {raised, None}
    BY <2>1, <2>2, <1>2
  <2>3. ASSUME NEW o, NEW x, Answering(o, x)
        PROVE  ended' \in Seq(2..Len(runs')) /\ raised' \in ErrorClasses \cup {None}
    <3>1. run \in 2..Len(runs) /\ x \in ErrorClasses \cup {None}
      BY <2>3, AnswerMade
    <3> QED
      BY <2>1, <2>3, <3>1, <1>3 DEF Answering
  <2>4. ASSUME NEW call \in Calls, NEW c \in DOMAIN visits, RunChild(call, c)
        PROVE  ended' = ended /\ raised' = raised
    BY <2>4, CallMade
  <2> QED
    BY <2>2, <2>3, <2>4, Steps
       DEF Going, Accepting, Entering, Preparing, Building, Catch, calls
<1> QED
  BY <1>1, <1>4, <1>5 DEF CallsTyped

LEMMA NestedKept ==
  ASSUME Calling, CNext
  PROVE  Nested'
<1>a. /\ Len(runs) \in Nat
      /\ Len(visits) \in Nat
      /\ DOMAIN runs = 1..Len(runs)
      /\ DOMAIN runs' = 1..Len(runs')
      /\ Len(runs) <= Len(runs')
      /\ Len(runs') \in Nat
      /\ \A r \in DOMAIN runs : runs'[r].caller = runs[r].caller
      /\ \A q : \A v \in VisitsOf(q) : v \in VisitsOf(q)'
  BY RecordsKept, VisitsGrow DEF RecordsStay, SameOrigin, Calling, CallsTyped
<1>b. \A r \in DOMAIN runs : r \in DOMAIN runs'
  BY <1>a
<1>c. stack \in Seq(Suspended) /\ Nested
  BY DEF Calling, Stacked
<1>1. ASSUME UNCHANGED <<stack, run>>, pc' = "validate" => pc = "validate" /\ runs' = runs,
             pc' \in Visiting => VisitsOf(run)' # {}, raised' # None => pc' = "invoke" /\ ended' # <<>>
      PROVE  Nested'
  <2>1. ASSUME NEW k \in DOMAIN stack PROVE Above(k) \in DOMAIN runs
    <3>1. k # Len(stack) => k + 1 \in DOMAIN stack
      BY <1>c
    <3> QED
      BY <3>1, <1>c DEF Above, Nested
  <2>2. ASSUME NEW k \in DOMAIN stack
        PROVE  /\ stack[k].run \in DOMAIN runs'
               /\ stack[k].run < run
               /\ (runs[Above(k)].caller \in VisitsOf(stack[k].run))'
    <3>1. PICK a, q : a = Above(k) /\ q = stack[k].run
      OBVIOUS
    <3>2. runs'[a].caller \in VisitsOf(q)'
      BY <2>1, <3>1, <1>a, <1>c DEF Nested
    <3>3. Above(k)' = a
      BY <1>1, <3>1 DEF Above
    <3>4. (stack[k].run)' = q
      BY <1>1, <3>1
    <3>5. (runs[Above(k)].caller \in VisitsOf(stack[k].run))'
      BY <3>2, <3>3, <3>4 DEF VisitsOf
    <3> QED
      BY <3>5, <1>b, <1>c DEF Nested
  <2>3. run' \in DOMAIN runs' /\ (pc' = "validate" => run' = Len(runs'))
    BY <1>1, <1>b, <1>c DEF Nested
  <2> QED
    BY <1>1, <1>c, <2>2, <2>3 DEF Nested, VisitsOf
<1>2. ASSUME UNCHANGED <<stack, run>>, pc' # "validate", pc' \in Visiting => pc \in Visiting,
             raised' = None
      PROVE  Nested'
  <2>1. pc' \in Visiting => VisitsOf(run)' # {}
    <3>1. PICK q : q = run
      OBVIOUS
    <3>2. pc' \in Visiting => VisitsOf(q)' # {}
      BY <1>2, <3>1, <1>a, <1>c DEF Nested
    <3> QED
      BY <1>2, <3>1, <3>2 DEF VisitsOf
  <2> QED
    BY <1>1, <1>2, <2>1
<1>3. raised # None => pc = "invoke"
  BY <1>c DEF Nested
<1>4. CASE Going
  BY <1>4, <1>2 DEF Going
<1>5. CASE Accepting \/ Building
  BY <1>5, <1>2, <1>3 DEF Accepting, Building, Visiting
<1>6. CASE Preparing
  BY <1>6, <1>2, <1>3 DEF Preparing, Visiting
<1>7. CASE Entering
  <2>1. VisitsOf(run)' # {}
    <3>1. PICK n, x : /\ n = Len(visits)
                      /\ x = [run |-> run, children |-> <<>>, handed |-> FALSE,
                              handler |-> runs[run].handler, hooks |-> runs[run].hooks]
      OBVIOUS
    <3>2. visits' = Append(visits, x) /\ x.run = run /\ run' = run
      BY <1>7, <3>1 DEF Entering
    <3>3. n + 1 \in DOMAIN visits' /\ visits'[n + 1] = x
      BY <3>1, <3>2 DEF Calling, CallsTyped
    <3> QED
      BY <3>2, <3>3 DEF VisitsOf
  <2> QED
    BY <1>7, <1>1, <1>3, <2>1 DEF Entering
<1>8. CASE Catch
  BY <1>8, <1>2, <1>3 DEF Catch, registers, vars
<1>9. CASE UNCHANGED calls /\ UNCHANGED vars
  BY <1>9, <1>c DEF calls, vars, Nested, Above, VisitsOf
<1>10. ASSUME NEW call \in Calls, NEW c \in DOMAIN visits, RunChild(call, c)
       PROVE  Nested'
  <2>1. PICK n, m, f, h, q : n = Len(runs) /\ m = Len(stack) /\ f = Frame /\ h = Here /\ q = run
    OBVIOUS
  <2>2. /\ pc = "invoke"
        /\ pc' = "validate"
        /\ run' = n + 1
        /\ m \in Nat
        /\ Len(stack') = m + 1
        /\ DOMAIN stack = 1..m
        /\ DOMAIN stack' = 1..m + 1
        /\ stack'[m + 1] = f
        /\ \A k \in DOMAIN stack : stack'[k] = stack[k]
        /\ n \in Nat
        /\ Len(runs') = n + 1
        /\ DOMAIN runs = 1..n
        /\ DOMAIN runs' = 1..n + 1
        /\ runs'[n + 1].caller = h
        /\ raised' = None
    BY <1>10, <2>1, CallMade
  <2>3. f.run = q
    BY <2>1, <2>2, FrameSuspended
  <2>4. h \in VisitsOf(q)'
    <3>1. h \in VisitsOf(q)
      <4>1. VisitsOf(q) # {}
        BY <2>1, <2>2, <1>c DEF Nested, Visiting
      <4>2. Max(VisitsOf(q)) \in VisitsOf(q)
        BY <4>1, HereIsVisit DEF Calling
      <4>3. h = Max(VisitsOf(q))
        BY <2>1 DEF Here, VisitsOf
      <4> QED
        BY <4>2, <4>3
    <3> QED
      BY <3>1, <1>a
  <2>5. q \in 1..n /\ (\A k \in 1..m : stack[k].run \in 1..n /\ stack[k].run < q)
    BY <2>1, <2>2, <1>c DEF Nested
  <2>6. ASSUME NEW k \in 1..m + 1
        PROVE  /\ stack'[k].run \in DOMAIN runs'
               /\ stack'[k].run < run'
               /\ (runs[Above(k)].caller \in VisitsOf(stack[k].run))'
    <3>1. CASE k = m + 1
      <4>1. (Above(k))' = n + 1
        BY <2>2, <3>1 DEF Above
      <4>2. (stack[k].run)' = q
        BY <2>2, <2>3, <3>1
      <4>3. (runs[Above(k)].caller)' = h
        BY <4>1, <2>2
      <4>4. (VisitsOf(stack[k].run))' = VisitsOf(q)'
        BY <4>2 DEF VisitsOf
      <4> QED
        BY <2>2, <2>4, <2>5, <4>2, <4>3, <4>4
    <3>2. CASE k \in 1..m
      <4>1. PICK a, p : a = Above(k) /\ p = stack[k].run
        OBVIOUS
      <4>2. (stack[k].run)' = p
        BY <2>2, <3>2, <4>1
      <4>3. (Above(k))' = a
        <5>1. k # m => k + 1 \in 1..m
          BY <2>2, <3>2
        <5>2. k # m + 1
          BY <2>2, <3>2
        <5> QED
          BY <2>1, <2>2, <2>3, <3>2, <4>1, <5>1, <5>2 DEF Above
      <4>4. a \in DOMAIN runs
        <5>1. k # m => k + 1 \in 1..m
          BY <2>2, <3>2
        <5> QED
          BY <2>1, <2>2, <2>5, <4>1, <5>1 DEF Above
      <4>5. runs'[a].caller \in VisitsOf(p)'
        BY <2>2, <3>2, <4>1, <4>4, <1>a, <1>c DEF Nested
      <4>6. (VisitsOf(stack[k].run))' = VisitsOf(p)'
        BY <4>2 DEF VisitsOf
      <4>7. p \in DOMAIN runs' /\ p < run'
        <5>1. p \in 1..n /\ p < q /\ q \in 1..n
          BY <2>5, <3>2, <4>1
        <5>2. n \in Nat /\ DOMAIN runs' = 1..n + 1 /\ run' = n + 1
          BY <2>2
        <5>3. p \in 1..n + 1 /\ p < n + 1
          BY <5>1, <5>2
        <5> QED
          BY <5>2, <5>3
      <4> QED
        BY <4>2, <4>3, <4>5, <4>6, <4>7
    <3> QED
      BY <2>2, <3>1, <3>2
  <2>7. ASSUME NEW j \in 1..m + 1, NEW k \in 1..m + 1, j < k
        PROVE  stack'[j].run < stack'[k].run
    <3>1. j \in 1..m
      BY <2>2, <2>7
    <3>2. CASE k = m + 1
      BY <2>2, <2>3, <2>5, <3>1, <3>2
    <3>3. CASE k \in 1..m
      BY <2>2, <2>7, <3>1, <3>3, <1>c DEF Nested
    <3> QED
      BY <2>2, <3>2, <3>3
  <2>8. run' \in DOMAIN runs' /\ (pc' = "validate" => run' = Len(runs'))
    BY <2>2
  <2>9. pc' \notin Visiting
    BY <2>2 DEF Visiting
  <2> QED
    BY <2>2, <2>6, <2>7, <2>8, <2>9 DEF Nested
<1>11. ASSUME NEW o, NEW x, Answering(o, x)
       PROVE  Nested'
  <2>1. PICK m, q : m = Len(stack) /\ q = stack[m].run
    OBVIOUS
  <2>2. /\ m \in Nat \ {0}
        /\ DOMAIN stack = 1..m
        /\ Len(stack') = m - 1
        /\ DOMAIN stack' = 1..m - 1
        /\ \A k \in 1..m - 1 : stack'[k] = stack[k]
        /\ pc' = "invoke"
        /\ run' = q
    BY <1>11, <2>1, AnswerMade
  <2>3. m \in 1..m
    BY <2>2
  <2>4. VisitsOf(q)' # {}
    <3>1. runs[Above(m)].caller \in VisitsOf(q)
      BY <2>1, <2>2, <2>3, <1>c DEF Nested
    <3> QED
      BY <3>1, <1>a
  <2>5. ASSUME NEW k \in 1..m - 1
        PROVE  /\ stack'[k].run \in DOMAIN runs'
               /\ stack'[k].run < run'
               /\ (runs[Above(k)].caller \in VisitsOf(stack[k].run))'
    <3>1. PICK a, p : a = Above(k) /\ p = stack[k].run
      OBVIOUS
    <3>2. k \in 1..m /\ k + 1 \in 1..m /\ k < m /\ k # m
      BY <2>2
    <3>3. a = stack[k + 1].run
      BY <2>1, <3>1, <3>2 DEF Above
    <3>4. (stack[k].run)' = p
      BY <2>2, <3>1
    <3>5. (Above(k))' = a
      <4>1. CASE k = m - 1
        <5>1. k + 1 = m
          BY <2>2, <4>1
        <5> QED
          BY <2>1, <2>2, <3>3, <4>1, <5>1 DEF Above
      <4>2. CASE k # m - 1
        <5>1. k + 1 \in 1..m - 1
          BY <2>2, <4>2
        <5> QED
          BY <2>2, <3>3, <4>2, <5>1 DEF Above
      <4> QED
        BY <4>1, <4>2
    <3>6. a \in DOMAIN runs
      BY <2>2, <3>2, <3>3, <1>c DEF Nested
    <3>7. runs'[a].caller \in VisitsOf(p)'
      BY <2>2, <3>1, <3>2, <3>6, <1>a, <1>c DEF Nested
    <3>8. (VisitsOf(stack[k].run))' = VisitsOf(p)'
      BY <3>4 DEF VisitsOf
    <3>9. p \in DOMAIN runs' /\ p < q
      BY <2>1, <2>2, <2>3, <3>1, <3>2, <1>b, <1>c DEF Nested
    <3> QED
      BY <2>2, <3>4, <3>5, <3>7, <3>8, <3>9
  <2>6. ASSUME NEW j \in 1..m - 1, NEW k \in 1..m - 1, j < k
        PROVE  stack'[j].run < stack'[k].run
    <3>1. j \in 1..m /\ k \in 1..m
      BY <2>2
    <3> QED
      BY <2>2, <2>6, <3>1, <1>c DEF Nested
  <2>7. q \in DOMAIN runs'
    BY <2>1, <2>2, <2>3, <1>b, <1>c DEF Nested
  <2>8. ended' # <<>>
    <3>1. ended \in Seq(2..Len(runs)) /\ ended' = Append(ended, run)
      BY <1>11 DEF Answering, Calling, CallsTyped
    <3> QED
      BY <3>1, AppendProperties
  <2>9. (pc \in Visiting => VisitsOf(run) # {})'
    BY <2>2, <2>4 DEF VisitsOf
  <2> QED
    BY <2>2, <2>5, <2>6, <2>7, <2>8, <2>9 DEF Nested
<1> QED
  BY <1>4, <1>5, <1>6, <1>7, <1>8, <1>9, <1>10, <1>11, Steps

\* Runs and visits that were there get nothing new from anywhere.
LEMMA OriginsKept ==
  ASSUME Calling, CNext
  PROVE  /\ \A v \in DOMAIN visits :
              /\ visits'[v].run \in DOMAIN runs'
              /\ visits'[v].handler = runs'[visits'[v].run].handler
              /\ visits'[v].hooks = runs'[visits'[v].run].hooks
         /\ \A r \in DOMAIN runs :
              /\ runs'[r].caller \in 0..Len(visits')
              /\ r # 1 => runs'[r].context \in DOMAIN visits' /\ visits'[runs'[r].context].run < r
              /\ runs'[r].handler = IF r = 1 \/ runs'[r].call.handler # None THEN runs'[r].call.handler
                                    ELSE visits'[runs'[r].context].handler
              /\ runs'[r].hooks = IF r = 1 \/ runs'[r].call.hooks # None THEN runs'[r].call.hooks
                                  ELSE visits'[runs'[r].context].hooks
<1>1. /\ RecordsStay
      /\ Inherited
      /\ Len(runs) \in Nat /\ Len(runs') \in Nat /\ Len(visits) \in Nat /\ Len(visits') \in Nat
  BY RecordsKept DEF Calling, CallsTyped
<1>2. 1..Len(runs) \subseteq 1..Len(runs') /\ 1..Len(visits) \subseteq 1..Len(visits')
  BY <1>1 DEF RecordsStay
<1>3. ASSUME NEW v \in DOMAIN visits
      PROVE  /\ visits'[v].run \in DOMAIN runs'
             /\ visits'[v].handler = runs'[visits'[v].run].handler
             /\ visits'[v].hooks = runs'[visits'[v].run].hooks
  <2>1. SameVisit(visits'[v], visits[v]) /\ SameOrigin(runs'[visits[v].run], runs[visits[v].run])
    BY <1>1 DEF RecordsStay, Inherited
  <2> QED
    BY <1>1, <1>2, <2>1 DEF RecordsStay, Inherited, SameVisit, SameOrigin
<1>4. ASSUME NEW r \in DOMAIN runs
      PROVE  /\ runs'[r].caller \in 0..Len(visits')
             /\ r # 1 => runs'[r].context \in DOMAIN visits' /\ visits'[runs'[r].context].run < r
             /\ runs'[r].handler = IF r = 1 \/ runs'[r].call.handler # None
                                   THEN runs'[r].call.handler
                                   ELSE visits'[runs'[r].context].handler
             /\ runs'[r].hooks = IF r = 1 \/ runs'[r].call.hooks # None THEN runs'[r].call.hooks
                                 ELSE visits'[runs'[r].context].hooks
  <2>1. SameOrigin(runs'[r], runs[r])
    BY <1>1 DEF RecordsStay
  <2>2. runs'[r].caller \in 0..Len(visits')
    BY <1>1, <2>1 DEF RecordsStay, Inherited, SameOrigin
  <2>3. CASE r = 1
    BY <1>1, <2>1, <2>2, <2>3 DEF Inherited, SameOrigin
  <2>4. CASE r # 1
    <3>1. SameVisit(visits'[runs[r].context], visits[runs[r].context])
      BY <1>1, <2>4 DEF RecordsStay, Inherited
    <3>2. runs'[r].context \in DOMAIN visits' /\ visits'[runs'[r].context].run < r
      BY <1>1, <1>2, <2>1, <2>4, <3>1 DEF RecordsStay, Inherited, SameOrigin, SameVisit
    <3> QED
      BY <1>1, <2>1, <2>2, <2>4, <3>1, <3>2 DEF Inherited, SameOrigin, SameVisit
  <2> QED
    BY <2>3, <2>4
<1> QED
  BY <1>3, <1>4

LEMMA InheritedKept ==
  ASSUME Calling, CNext
  PROVE  Inherited'
<1>1. /\ runs \in Seq(RunRecords)
      /\ visits \in Seq(VisitRecords)
      /\ run \in DOMAIN runs
      /\ Inherited
  BY DEF Calling, CallsTyped, Nested
<1>2. CASE DOMAIN runs' = DOMAIN runs /\ DOMAIN visits' = DOMAIN visits
  BY <1>2, OriginsKept DEF Inherited
<1>3. CASE Entering
  <2>1. PICK n, x : /\ n = Len(visits)
                    /\ x = [run |-> run, children |-> <<>>, handed |-> FALSE,
                            handler |-> runs[run].handler, hooks |-> runs[run].hooks]
    OBVIOUS
  <2>2. /\ visits' = Append(visits, x)
        /\ runs' = runs
        /\ x.run = run
        /\ x.handler = runs[run].handler
        /\ x.hooks = runs[run].hooks
    BY <1>3, <2>1 DEF Entering
  <2>3. visits'[n + 1] = x /\ \A v \in DOMAIN visits' : v \in DOMAIN visits \/ v = n + 1
    BY <1>1, <2>1, <2>2
  <2>4. ASSUME NEW v \in DOMAIN visits'
        PROVE  /\ visits'[v].run \in DOMAIN runs'
               /\ visits'[v].handler = runs'[visits'[v].run].handler
               /\ visits'[v].hooks = runs'[visits'[v].run].hooks
    <3>1. CASE v = n + 1
      BY <1>1, <2>2, <2>3, <3>1
    <3>2. CASE v \in DOMAIN visits
      BY <3>2, OriginsKept
    <3> QED
      BY <2>3, <3>1, <3>2
  <2> QED
    BY <2>2, <2>4, OriginsKept DEF Inherited
<1>4. ASSUME NEW call \in Calls, NEW c \in DOMAIN visits, RunChild(call, c)
      PROVE  Inherited'
  <2>1. PICK n, m, h : n = Len(runs) /\ m = Len(stack) /\ h = Here
    OBVIOUS
  <2>2. /\ pc = "invoke"
        /\ n \in Nat
        /\ DOMAIN runs = 1..n
        /\ DOMAIN runs' = 1..n + 1
        /\ runs'[n + 1].call = call
        /\ runs'[n + 1].context = c
        /\ runs'[n + 1].caller = h
        /\ visits' = visits
    BY <1>4, <2>1, CallMade
  <2>a. /\ runs'[n + 1].handler = Given(call.handler, visits[c].handler)
        /\ runs'[n + 1].hooks = Given(call.hooks, visits[c].hooks)
    <3>1. PICK handler, hooks, t, x :
            /\ handler = Given(call.handler, visits[c].handler)
            /\ hooks = Given(call.hooks, visits[c].hooks)
            /\ t = attempts + 1
            /\ x = NewRun(call, handler, hooks, c, h, t)
      OBVIOUS
    <3>2. runs' = Append(runs, x)
      BY <1>4, <2>1, <3>1 DEF RunChild
    <3>3. runs'[n + 1] = x
      BY <1>1, <2>1, <3>2
    <3>4. x.handler = handler /\ x.hooks = hooks
      BY <3>1 DEF NewRun
    <3> QED
      BY <3>1, <3>3, <3>4
  <2>3. h \in 0..Len(visits)
    <3>1. VisitsOf(run) # {}
      BY <1>1, <2>2 DEF Calling, Nested, Visiting
    <3>2. Max(VisitsOf(run)) \in VisitsOf(run)
      BY <3>1, HereIsVisit DEF Calling
    <3>3. h \in DOMAIN visits
      BY <2>1, <3>2 DEF Here, VisitsOf
    <3> QED
      BY <1>1, <3>3
  <2>4. n + 1 # 1 /\ visits[c].run < n + 1
    <3>1. visits[c].run \in 1..n /\ run \in 1..n
      BY <1>1, <2>2 DEF Inherited
    <3> QED
      BY <2>2, <3>1
  <2>5. ASSUME NEW r \in DOMAIN runs'
        PROVE  /\ runs'[r].caller \in 0..Len(visits')
               /\ r # 1 => runs'[r].context \in DOMAIN visits' /\ visits'[runs'[r].context].run < r
               /\ runs'[r].handler = IF r = 1 \/ runs'[r].call.handler # None
                                     THEN runs'[r].call.handler
                                     ELSE visits'[runs'[r].context].handler
               /\ runs'[r].hooks = IF r = 1 \/ runs'[r].call.hooks # None THEN runs'[r].call.hooks
                                   ELSE visits'[runs'[r].context].hooks
    <3>1. CASE r = n + 1
      BY <2>2, <2>a, <2>3, <2>4, <3>1 DEF Given
    <3>2. CASE r \in DOMAIN runs
      BY <3>2, OriginsKept
    <3> QED
      BY <2>2, <3>1, <3>2
  <2> QED
    BY <2>2, <2>5, OriginsKept DEF Inherited
<1>5. ASSUME NEW o, NEW x, Answering(o, x)
      PROVE  DOMAIN runs' = DOMAIN runs
  BY <1>1, <1>5 DEF Answering
<1>6. /\ Building => DOMAIN runs' = DOMAIN runs
      /\ Catch => DOMAIN runs' = DOMAIN runs
  BY <1>1 DEF Building, Catch
<1>7. ~Entering => DOMAIN visits' = DOMAIN visits
  BY VisitsAdded
<1> QED
  BY <1>2, <1>3, <1>4, <1>5, <1>6, <1>7, Steps DEF Going, Accepting, Preparing, calls

\* The invariant holds of every composition.
LEMMA InitCalling == CInit => Calling
<1> SUFFICES ASSUME CInit PROVE Calling
  OBVIOUS
<1>1. TypeOK /\ Control /\ pc = "validate"
  BY InitIInv DEF CInit, Init, IInv
<1>2. Exited
  BY <1>1 DEF Exited
<1>3. Stacked
  BY DEF CInit, Stacked
<1>4. PICK call \in Calls : runs = <<NewRun(call, call.handler, call.hooks, 0, 0, 0)>>
  BY DEF CInit
<1>5. PICK x : x = NewRun(call, call.handler, call.hooks, 0, 0, 0)
  OBVIOUS
<1>6. /\ x \in RunRecords
      /\ x.call = call
      /\ x.handler = call.handler
      /\ x.hooks = call.hooks
      /\ x.caller = 0
  <2>1. /\ call.handler \in Handlers \cup {None}
        /\ call.hooks \in DOMAIN HookLists \cup {None}
    BY CompositionAssumption
  <2> QED
    BY <1>5, <2>1 DEF NewRun, RunRecords
<1>7. runs = <<x>> /\ runs \in Seq(RunRecords) /\ Len(runs) = 1 /\ DOMAIN runs = {1} /\ runs[1] = x
  BY <1>4, <1>5, <1>6
<1>8. CallsTyped
  BY <1>7 DEF CInit, CallsTyped
<1>9. Nested
  BY <1>1, <1>7 DEF CInit, Nested, Visiting
<1>10. Inherited
  BY <1>6, <1>7 DEF CInit, Inherited
<1> QED
  BY <1>1, <1>2, <1>3, <1>8, <1>9, <1>10 DEF Calling

LEMMA NextCalling ==
  ASSUME Calling, [CNext]_cvars
  PROVE  Calling'
<1>1. CASE CNext
  BY <1>1, TopKept, StackedKept, CallsTypedKept, NestedKept, InheritedKept DEF Calling
<1>2. CASE UNCHANGED cvars
  <2>1. (TypeOK /\ Control /\ Exited)'
    BY <1>2, NextIInv, ExitKnown DEF cvars, registers, Calling, IInv
  <2>2. Stacked' /\ CallsTyped'
    BY <1>2 DEF cvars, calls, Calling, Stacked, CallsTyped
  <2>3. Nested' /\ Inherited'
    BY <1>2 DEF cvars, registers, vars, calls, Calling, Nested, Inherited, VisitsOf, Above
  <2> QED
    BY <2>1, <2>2, <2>3 DEF Calling
<1> QED
  BY <1>1, <1>2

-------------------------------------------------------------------------------
(* Runs within runs: what follows from the invariant.                           *)

\* For all instances, calls and hook lists: the stack is one of callers inside of their
\* step methods, each below the run it waits for. (run_child_workflow is reached from a
\* step method only)
THEOREM CallsTypeCorrect == CSpec => []CTypeOK
<1>1. Calling => CTypeOK
  <2> SUFFICES ASSUME Calling PROVE CTypeOK
    OBVIOUS
  <2>1. /\ CallsTyped /\ Nested
        /\ stack \in Seq(Suspended)
        /\ run \in 1..Len(runs)
    BY DEF Calling, Stacked, CallsTyped, Nested
  <2>2. ASSUME NEW k \in DOMAIN stack
        PROVE  /\ stack[k].pc = "invoke"
               /\ stack[k].run < Above(k)
               /\ visits[runs[Above(k)].caller].run = stack[k].run
    <3>1. stack[k].pc = "invoke"
      <4>1. stack[k] \in Suspended
        BY <2>1
      <4> QED
        BY <4>1 DEF Suspended
    <3>2. stack[k].run < Above(k)
      <4>1. k # Len(stack) => k + 1 \in DOMAIN stack /\ k < k + 1
        BY <2>1
      <4> QED
        BY <2>1, <4>1 DEF Nested, Above
    <3>3. visits[runs[Above(k)].caller].run = stack[k].run
      BY <2>1 DEF Nested, VisitsOf
    <3> QED
      BY <3>1, <3>2, <3>3
  <2> QED
    BY <2>1, <2>2 DEF CTypeOK, CallsTyped, Nested, Above
<1> QED
  BY <1>1, InitCalling, NextCalling, PTL DEF CSpec

Falls(below, n) == \A r \in 1..n : r # 1 => below[r] \in 1..n /\ below[r] < r

LooksUp(f, given, below, n) ==
  \A r \in 1..n : f[r] = IF r = 1 \/ given[r] # None THEN given[r] ELSE f[below[r]]

\* What is looked up further down, where it is not given, is looked up in one way.
LEMMA LookupIsUnique ==
  ASSUME NEW n \in Nat, NEW given, NEW below, NEW g, NEW h, Falls(below, n),
         LooksUp(g, given, below, n), LooksUp(h, given, below, n)
  PROVE  \A r \in 1..n : g[r] = h[r]
<1> DEFINE D == {r \in 1..n : g[r] # h[r]}
<1>1. D \in SUBSET Nat
  OBVIOUS
<1>2. ASSUME D # {} PROVE FALSE
  <2>1. PICK r \in D : \A q \in D : r <= q
    BY <1>1, <1>2, LeastMember
  <2>2. r # 1 /\ given[r] = None
    BY <2>1 DEF LooksUp
  <2>3. below[r] \in 1..n /\ below[r] < r
    BY <2>1, <2>2 DEF Falls
  <2>4. below[r] \notin D
    BY <2>1, <2>3
  <2> QED
    BY <2>1, <2>2, <2>3, <2>4 DEF LooksUp
<1> QED
  BY <1>2

\* Where runs have their handlers and hooks from.
LEMMA ControlsAreLookedUp ==
  ASSUME Calling
  PROVE  ControlsFollowTheContext
<1>1. PICK n : n = Len(runs)
  OBVIOUS
<1>2. /\ n \in Nat
      /\ DOMAIN runs = 1..n
      /\ Inherited
  BY <1>1 DEF Calling, CallsTyped
<1>3. PICK below : below = [r \in 1..n |-> visits[runs[r].context].run]
  OBVIOUS
<1>4. ASSUME NEW r \in 1..n, r # 1
      PROVE  /\ below[r] \in 1..n
             /\ below[r] < r
             /\ visits[runs[r].context].handler = runs[below[r]].handler
             /\ visits[runs[r].context].hooks = runs[below[r]].hooks
  BY <1>2, <1>3, <1>4 DEF Inherited
<1>5. ASSUME NEW r \in 1..n
      PROVE  runs[r].handler = NearestHandler[r]
  <2>1. PICK g, given : /\ g = [q \in 1..n |-> runs[q].handler]
                        /\ given = [q \in 1..n |-> runs[q].call.handler]
    OBVIOUS
  <2>2. ASSUME NEW q \in 1..n
        PROVE  g[q] = IF q = 1 \/ given[q] # None THEN given[q] ELSE g[below[q]]
    BY <1>2, <1>4, <2>1 DEF Inherited
  <2>3. g = [q \in DOMAIN runs |-> IF q = 1 \/ runs[q].call.handler # None
                                   THEN runs[q].call.handler
                                   ELSE g[visits[runs[q].context].run]]
    <3>1. \A q \in 1..n : g[q] = IF q = 1 \/ runs[q].call.handler # None
                                 THEN runs[q].call.handler
                                 ELSE g[visits[runs[q].context].run]
      BY <1>3, <2>1, <2>2
    <3> QED
      BY <1>2, <2>1, <3>1
  <2>4. NearestHandler = [q \in DOMAIN runs |-> IF q = 1 \/ runs[q].call.handler # None
                                                THEN runs[q].call.handler
                                                ELSE NearestHandler[visits[runs[q].context].run]]
    BY <2>3, Zenon DEF NearestHandler
  <2>5. PICK h : h = NearestHandler
    OBVIOUS
  <2>6. ASSUME NEW q \in 1..n
        PROVE  h[q] = IF q = 1 \/ given[q] # None THEN given[q] ELSE h[below[q]]
    BY <1>2, <1>3, <2>1, <2>4, <2>5
  <2>7. Falls(below, n) /\ LooksUp(g, given, below, n) /\ LooksUp(h, given, below, n)
    BY <1>4, <2>2, <2>6 DEF Falls, LooksUp
  <2>8. g[r] = h[r]
    BY <1>2, <2>7, LookupIsUnique
  <2> QED
    BY <2>1, <2>5, <2>8
<1>6. ASSUME NEW r \in 1..n
      PROVE  runs[r].hooks = NearestHooks[r]
  <2>1. PICK g, given : /\ g = [q \in 1..n |-> runs[q].hooks]
                        /\ given = [q \in 1..n |-> runs[q].call.hooks]
    OBVIOUS
  <2>2. ASSUME NEW q \in 1..n
        PROVE  g[q] = IF q = 1 \/ given[q] # None THEN given[q] ELSE g[below[q]]
    BY <1>2, <1>4, <2>1 DEF Inherited
  <2>3. g = [q \in DOMAIN runs |-> IF q = 1 \/ runs[q].call.hooks # None
                                   THEN runs[q].call.hooks
                                   ELSE g[visits[runs[q].context].run]]
    <3>1. \A q \in 1..n : g[q] = IF q = 1 \/ runs[q].call.hooks # None
                                 THEN runs[q].call.hooks
                                 ELSE g[visits[runs[q].context].run]
      BY <1>3, <2>1, <2>2
    <3> QED
      BY <1>2, <2>1, <3>1
  <2>4. NearestHooks = [q \in DOMAIN runs |-> IF q = 1 \/ runs[q].call.hooks # None
                                              THEN runs[q].call.hooks
                                              ELSE NearestHooks[visits[runs[q].context].run]]
    BY <2>3, Zenon DEF NearestHooks
  <2>5. PICK h : h = NearestHooks
    OBVIOUS
  <2>6. ASSUME NEW q \in 1..n
        PROVE  h[q] = IF q = 1 \/ given[q] # None THEN given[q] ELSE h[below[q]]
    BY <1>2, <1>3, <2>1, <2>4, <2>5
  <2>7. Falls(below, n) /\ LooksUp(g, given, below, n) /\ LooksUp(h, given, below, n)
    BY <1>4, <2>2, <2>6 DEF Falls, LooksUp
  <2>8. g[r] = h[r]
    BY <1>2, <2>7, LookupIsUnique
  <2> QED
    BY <2>1, <2>5, <2>8
<1> QED
  BY <1>2, <1>5, <1>6 DEF ControlsFollowTheContext

\* For all instances, calls and hook lists, however deep runs nest and whatever contexts
\* are kept: a run has the handler and the hooks of the nearest run up the chain of
\* contexts that was given its own. (`is not None` in run_child_workflow)
THEOREM ControlsFollow == CSpec => []ControlsFollowTheContext
BY InitCalling, NextCalling, ControlsAreLookedUp, PTL DEF CSpec

-------------------------------------------------------------------------------
(* States.                                                                      *)

\* Which runs are in progress changes only by calls and answers.
LEMMA PendingKept ==
  ASSUME UNCHANGED <<stack, run>>
  PROVE  Pending' = Pending
BY DEF Pending

\* A call adds a run to those in progress.
LEMMA PendingCalled ==
  ASSUME Calling, NEW call \in Calls, NEW c \in DOMAIN visits, RunChild(call, c),
         NEW n, n = Len(runs)
  PROVE  /\ n \in Nat
         /\ \A r \in Pending' : r \in Pending \/ r = n + 1
         /\ \A r \in Pending : r \in 1..n
<1>1. PICK m, f : m = Len(stack) /\ f = Frame
  OBVIOUS
<1>2. /\ pc = "invoke"
      /\ m \in Nat
      /\ DOMAIN stack = 1..m
      /\ DOMAIN stack' = 1..m + 1
      /\ stack'[m + 1] = f
      /\ \A k \in DOMAIN stack : stack'[k] = stack[k]
      /\ n \in Nat
      /\ DOMAIN runs = 1..n
      /\ run' = n + 1
  BY <1>1, CallMade
<1>3. f.run = run
  BY <1>1, <1>2, FrameSuspended
<1>4. ASSUME NEW r \in Pending' PROVE r \in Pending \/ r = n + 1
  <2>1. CASE r = run'
    BY <1>2, <2>1
  <2>2. ASSUME NEW k \in 1..m + 1, r = stack'[k].run
        PROVE  r \in Pending
    <3>1. k \in 1..m \/ k = m + 1
      BY <1>2
    <3> QED
      BY <1>2, <1>3, <2>2, <3>1 DEF Pending
  <2> QED
    BY <1>2, <2>1, <2>2 DEF Pending
<1>5. \A r \in Pending : r \in 1..n
  BY <1>2 DEF Pending, Calling, Nested
<1> QED
  BY <1>2, <1>4, <1>5

\* An answer takes the run on top from them.
LEMMA PendingAnswered ==
  ASSUME Calling, NEW o, NEW x, Answering(o, x)
  PROVE  /\ \A r \in Pending' : r \in Pending /\ r # run
         /\ run \in Pending
<1>1. PICK m : m = Len(stack)
  OBVIOUS
<1>2. /\ m \in Nat \ {0}
      /\ DOMAIN stack = 1..m
      /\ DOMAIN stack' = 1..m - 1
      /\ \A k \in 1..m - 1 : stack'[k] = stack[k]
      /\ run' = stack[m].run
  BY <1>1, AnswerMade
<1>3. /\ m \in 1..m
      /\ \A k \in 1..m - 1 : k \in 1..m
  BY <1>2
<1>4. /\ \A k \in DOMAIN stack : stack[k].run # run
      /\ run \in 1..Len(runs)
  <2>1. /\ \A k \in DOMAIN stack : stack[k].run \in DOMAIN runs /\ stack[k].run < run
        /\ run \in DOMAIN runs
        /\ runs \in Seq(RunRecords)
    BY DEF Calling, CallsTyped, Nested
  <2> QED
    BY <2>1
<1>5. ASSUME NEW r \in Pending' PROVE r \in Pending /\ r # run
  <2>1. CASE r = run'
    BY <1>2, <1>3, <1>4, <2>1 DEF Pending
  <2>2. ASSUME NEW k \in 1..m - 1, r = stack'[k].run
        PROVE  r \in Pending /\ r # run
    BY <1>2, <1>3, <1>4, <2>2 DEF Pending
  <2> QED
    BY <1>2, <2>1, <2>2 DEF Pending
<1> QED
  BY <1>5 DEF Pending

\* The outcome and the state of a run change as the kind of step says.
LEMMA OutcomesKept ==
  ASSUME Calling, Going \/ Accepting \/ Entering \/ Preparing \/ Catch
  PROVE  /\ DOMAIN runs' = DOMAIN runs
         /\ \A r \in DOMAIN runs : /\ runs'[r].call = runs[r].call
                                   /\ runs'[r].outcome = runs[r].outcome
                                   /\ runs'[r].state = runs[r].state
<1>1. CASE runs' = runs
  BY <1>1
<1>2. CASE Catch
  <2>1. PICK q : q = Last(ended)
    OBVIOUS
  <2>2. runs \in Seq(RunRecords) /\ runs' = [runs EXCEPT ![q].caught = TRUE]
    BY <1>2, <2>1 DEF Catch, Calling, CallsTyped
  <2>3. q \in DOMAIN runs
    <3>1. /\ ended \in Seq(2..Len(runs))
          /\ ended # <<>>
          /\ Len(runs) \in Nat
          /\ DOMAIN runs = 1..Len(runs)
      BY <1>2 DEF Catch, Calling, CallsTyped, Nested
    <3>2. q \in 2..Len(runs)
      BY <2>1, <3>1 DEF Last
    <3> QED
      BY <3>1, <3>2
  <2> QED
    BY <2>2, <2>3, CaughtSet DEF SameOrigin
<1> QED
  BY <1>1, <1>2 DEF Going, Accepting, Entering, Preparing

\* The instance of a run is one of the instances.
LEMMA InstancesKnown ==
  ASSUME CallsTyped, NEW r \in DOMAIN runs
  PROVE  runs[r].call.instance \in Instances
<1>1. runs[r] \in RunRecords
  BY DEF CallsTyped
<1> QED
  BY <1>1, CompositionAssumption DEF RunRecords

\* What is known of the calls goes on to hold when neither the runs nor the stack get
\* another entry and the outcomes stay.
LEMMA StatesStay ==
  ASSUME Calling, States, DOMAIN runs' = DOMAIN runs, UNCHANGED <<stack, run, state>>,
         \A r \in DOMAIN runs : /\ runs'[r].call = runs[r].call
                                /\ runs'[r].outcome = runs[r].outcome
                                /\ runs'[r].state = runs[r].state,
         Unaccepted' => Unaccepted,
         pc' \notin {"validate", "done"} => pc \notin {"validate", "done"}
  PROVE  States'
<1>1. /\ \A i \in Instances : state[i] # None => state[i] \in DOMAIN runs
      /\ \A r \in DOMAIN runs : runs[r].state # None => runs[r].state \in DOMAIN runs
      /\ run \in DOMAIN runs
      /\ \A k \in DOMAIN stack : stack[k].run \in DOMAIN runs
      /\ \A r \in Pending : r \in DOMAIN runs
  BY DEF Calling, CallsTyped, Nested, States, Pending
<1>2. /\ Unaccepted' => /\ \A i \in Instances : state'[i] # run'
                        /\ \A r \in DOMAIN runs' : runs'[r].state # run'
      /\ \A i \in Instances : state'[i] # None =>
           runs'[state'[i]].call.instance = i /\ runs'[state'[i]].outcome # "rejected"
  BY <1>1 DEF States
<1>3. \A r \in Pending' : runs'[r].outcome # "rejected"
  BY <1>1, PendingKept DEF States
<1>4. pc' \notin {"validate", "done"} => state'[Instance'] # None /\ run' <= state'[Instance']
  <2>1. Instance' = Instance
    BY <1>1 DEF Instance
  <2> QED
    BY <2>1 DEF States
<1>5. \A k \in DOMAIN stack' :
        LET q == stack'[k].run
            i == runs'[q].call.instance
        IN  state'[i] # None /\ q <= state'[i]
  BY <1>1 DEF States
<1>6. /\ \A r \in DOMAIN runs' : runs'[r].state \in DOMAIN runs' \cup {None}
      /\ StateIsOfAnAcceptedRun'
  BY <1>1 DEF States, StateIsOfAnAcceptedRun, Overlap
<1> QED
  BY <1>2, <1>3, <1>4, <1>5, <1>6 DEF States

\* A run that is accepted takes over its instance's state.
LEMMA StatesAccepted ==
  ASSUME Calling, States, Accepting
  PROVE  States'
<1>1. /\ run \in DOMAIN runs
      /\ DOMAIN runs \subseteq Nat
      /\ Instance \in Instances
      /\ state \in [Instances -> 1..Len(runs) \cup {None}]
      /\ DOMAIN runs = 1..Len(runs)
  BY InstancesKnown DEF Calling, CallsTyped, Nested, Instance
<1>2. PICK I : I = Instance
  OBVIOUS
<1>3. /\ state' = [state EXCEPT ![I] = run]
      /\ UNCHANGED <<stack, run, runs>>
      /\ pc' = "workflowStarted"
      /\ I = runs[run].call.instance
      /\ run # None
  BY <1>1, <1>2, CompositionAssumption DEF Accepting, Instance
<1>4. Instance' = I
  BY <1>3 DEF Instance
<1>5. ~Unaccepted'
  BY <1>3 DEF Unaccepted
<1>6. \A i \in Instances : state'[i] = IF i = I THEN run ELSE state[i]
  BY <1>1, <1>2, <1>3
<1>7. \A r \in Pending' : runs'[r].outcome # "rejected"
  BY <1>3, PendingKept DEF States
<1>8. \A i \in Instances : state'[i] # None =>
        runs'[state'[i]].call.instance = i /\ runs'[state'[i]].outcome # "rejected"
  BY <1>3, <1>6 DEF States, Pending
<1>9. ASSUME NEW k \in DOMAIN stack', NEW q, NEW i, q = stack'[k].run, i = runs'[q].call.instance
      PROVE  state'[i] # None /\ q <= state'[i]
  <2>1. k \in DOMAIN stack /\ q = stack[k].run /\ i = runs[q].call.instance
    BY <1>3, <1>9
  <2>2. q \in DOMAIN runs /\ q < run
    BY <2>1 DEF Calling, Nested
  <2>3. i \in Instances
    BY <2>1, <2>2, InstancesKnown DEF Calling
  <2>4. state[i] # None /\ q <= state[i]
    BY <2>1 DEF States
  <2> QED
    BY <1>1, <1>3, <1>6, <2>2, <2>3, <2>4
<1>10. state'[Instance'] # None /\ run' <= state'[Instance']
  BY <1>1, <1>2, <1>3, <1>4, <1>6
<1>11. (\A r \in DOMAIN runs : runs[r].state \in DOMAIN runs \cup {None})'
       /\ StateIsOfAnAcceptedRun'
  BY <1>3 DEF States, StateIsOfAnAcceptedRun, Overlap
<1> QED
  BY <1>5, <1>7, <1>8, <1>9, <1>10, <1>11 DEF States

\* A result takes what the instance has.
LEMMA StatesBuilt ==
  ASSUME Calling, States, Building
  PROVE  States'
<1>1. /\ run \in DOMAIN runs
      /\ DOMAIN runs \subseteq Nat
      /\ Instance \in Instances
      /\ runs \in Seq(RunRecords)
      /\ state \in [Instances -> 1..Len(runs) \cup {None}]
      /\ DOMAIN runs = 1..Len(runs)
  BY InstancesKnown DEF Calling, CallsTyped, Nested, Instance
<1>2. PICK I, s : I = Instance /\ s = state[I]
  OBVIOUS
<1>3. /\ runs' = [runs EXCEPT ![run].state = s]
      /\ UNCHANGED <<stack, run, state>>
      /\ pc \notin {"validate", "done"}
      /\ pc' \notin {"validate", "done"}
      /\ I = runs[run].call.instance
  BY <1>2 DEF Building, Instance
<1>4. s \in Nat \cup {None} /\ s \in DOMAIN runs \cup {None}
  BY <1>1, <1>2
<1>5. /\ DOMAIN runs' = DOMAIN runs
      /\ \A r \in DOMAIN runs : /\ runs'[r].call = runs[r].call
                                /\ runs'[r].outcome = runs[r].outcome
                                /\ runs'[r].state = IF r = run THEN s ELSE runs[r].state
  BY <1>1, <1>3, <1>4, StateSet DEF SameOrigin
<1>6. ~Unaccepted'
  BY <1>3 DEF Unaccepted
<1>7. /\ \A i \in Instances : state[i] # None => state[i] \in DOMAIN runs
      /\ \A k \in DOMAIN stack : stack[k].run \in DOMAIN runs
      /\ \A r \in Pending : r \in DOMAIN runs
  BY <1>1 DEF Calling, Nested, Pending
<1>8. Instance' = I
  BY <1>1, <1>3, <1>5 DEF Instance
<1>9. s # None /\ run <= s
  BY <1>2, <1>3 DEF States
<1>10. \A r \in Pending' : runs'[r].outcome # "rejected"
  BY <1>3, <1>5, <1>7, PendingKept DEF States
<1>11. \A i \in Instances : state'[i] # None =>
         runs'[state'[i]].call.instance = i /\ runs'[state'[i]].outcome # "rejected"
  BY <1>3, <1>5, <1>7 DEF States
<1>12. \A k \in DOMAIN stack' :
         LET q == stack'[k].run
             i == runs'[q].call.instance
         IN  state'[i] # None /\ q <= state'[i]
  BY <1>3, <1>5, <1>7 DEF States
<1>13. \A r \in DOMAIN runs' : runs'[r].state \in DOMAIN runs' \cup {None}
  BY <1>4, <1>5 DEF States
<1>14. ASSUME NEW r \in DOMAIN runs', runs'[r].state # None, NEW q, q = runs'[r].state
       PROVE  q = r \/ (Overlap(q, r)' /\ runs'[q].outcome # "rejected")
  <2>1. CASE r = run
    <3>1. q = s /\ q \in DOMAIN runs
      BY <1>4, <1>5, <1>9, <1>14, <2>1
    <3>2. runs[q].call.instance = I /\ runs[q].outcome # "rejected"
      BY <1>1, <1>2, <1>9, <3>1 DEF States
    <3>3. q = r \/ q > r
      BY <1>1, <1>9, <2>1, <3>1
    <3> QED
      BY <1>3, <1>5, <2>1, <3>1, <3>2, <3>3 DEF Overlap
  <2>2. CASE r # run
    <3>1. q = runs[r].state /\ r \in DOMAIN runs /\ q \in DOMAIN runs
      BY <1>5, <1>14, <2>2 DEF States
    <3>2. q = r \/ (Overlap(q, r) /\ runs[q].outcome # "rejected")
      BY <1>14, <3>1 DEF States, StateIsOfAnAcceptedRun
    <3> QED
      BY <1>5, <3>1, <3>2 DEF Overlap
  <2> QED
    BY <2>1, <2>2
<1>15. StateIsOfAnAcceptedRun'
  BY <1>14 DEF StateIsOfAnAcceptedRun
<1>16. state'[Instance'] # None /\ run' <= state'[Instance']
  BY <1>2, <1>3, <1>8, <1>9
<1> QED
  BY <1>6, <1>10, <1>11, <1>12, <1>13, <1>15, <1>16 DEF States

\* A run that is called has no state yet.
LEMMA StatesCalled ==
  ASSUME Calling, States, NEW call \in Calls, NEW c \in DOMAIN visits, RunChild(call, c)
  PROVE  States'
<1>1. PICK n, m, f : n = Len(runs) /\ m = Len(stack) /\ f = Frame
  OBVIOUS
<1>2. /\ pc = "invoke"
      /\ pc' = "validate"
      /\ run' = n + 1
      /\ m \in Nat
      /\ DOMAIN stack = 1..m
      /\ DOMAIN stack' = 1..m + 1
      /\ stack'[m + 1] = f
      /\ \A k \in DOMAIN stack : stack'[k] = stack[k]
      /\ n \in Nat
      /\ DOMAIN runs = 1..n
      /\ DOMAIN runs' = 1..n + 1
      /\ \A r \in DOMAIN runs : runs'[r] = runs[r]
      /\ runs'[n + 1].outcome = None
      /\ runs'[n + 1].state = None
      /\ state' = state
  BY <1>1, CallMade
<1>3. f.run = run
  BY <1>1, <1>2, FrameSuspended
<1>4. None \notin Nat /\ None # "rejected"
  BY CompositionAssumption, EndingAssumption
<1>5. /\ \A i \in Instances : state[i] \in 1..n \cup {None}
      /\ \A r \in 1..n : runs[r].state \in 1..n \cup {None}
      /\ run \in 1..n
      /\ \A k \in 1..m : stack[k].run \in 1..n
  BY <1>1, <1>2 DEF Calling, CallsTyped, Nested, States
<1>6. \A r \in 1..n + 1 : r \in 1..n \/ r = n + 1
  BY <1>2
<1>7. /\ \A i \in Instances : state'[i] # run'
      /\ \A r \in DOMAIN runs' : runs'[r].state # run'
  BY <1>2, <1>4, <1>5, <1>6
<1>8. \A i \in Instances : state'[i] # None =>
        runs'[state'[i]].call.instance = i /\ runs'[state'[i]].outcome # "rejected"
  BY <1>2, <1>5 DEF States
<1>9. \A r \in Pending' : runs'[r].outcome # "rejected"
  <2>1. /\ \A r \in Pending' : r \in Pending \/ r = n + 1
        /\ \A r \in Pending : r \in 1..n
    BY <1>1, PendingCalled
  <2> QED
    BY <1>2, <1>4, <2>1 DEF States
<1>10. ASSUME NEW k \in DOMAIN stack', NEW q, NEW i, q = stack'[k].run, i = runs'[q].call.instance
       PROVE  state'[i] # None /\ q <= state'[i]
  <2>1. CASE k \in 1..m
    <3>1. q = stack[k].run /\ i = runs[q].call.instance
      BY <1>2, <1>5, <1>10, <2>1
    <3> QED
      BY <1>2, <2>1, <3>1 DEF States
  <2>2. CASE k = m + 1
    <3>1. q = run /\ i = Instance
      BY <1>2, <1>3, <1>5, <1>10, <2>2 DEF Instance
    <3> QED
      BY <1>2, <3>1 DEF States
  <2> QED
    BY <1>2, <2>1, <2>2
<1>11. \A r \in DOMAIN runs' : runs'[r].state \in DOMAIN runs' \cup {None}
  BY <1>2, <1>5, <1>6
<1>12. ASSUME NEW r \in DOMAIN runs', runs'[r].state # None, NEW q, q = runs'[r].state
       PROVE  q = r \/ (Overlap(q, r)' /\ runs'[q].outcome # "rejected")
  <2>1. r \in 1..n /\ q \in 1..n /\ q = runs[r].state
    BY <1>2, <1>5, <1>6, <1>12
  <2>2. q = r \/ (Overlap(q, r) /\ runs[q].outcome # "rejected")
    BY <1>2, <1>12, <2>1 DEF States, StateIsOfAnAcceptedRun
  <2> QED
    BY <1>2, <2>1, <2>2 DEF Overlap
<1>13. StateIsOfAnAcceptedRun'
  BY <1>12 DEF StateIsOfAnAcceptedRun
<1> QED
  BY <1>2, <1>7, <1>8, <1>9, <1>10, <1>11, <1>13 DEF States

\* A run that ends keeps its state, and its caller has one.
LEMMA StatesAnswered ==
  ASSUME Calling, States, NEW o, NEW x, Answering(o, x)
  PROVE  States'
<1>1. PICK m : m = Len(stack)
  OBVIOUS
<1>2. /\ m \in Nat \ {0}
      /\ DOMAIN stack = 1..m
      /\ DOMAIN stack' = 1..m - 1
      /\ \A k \in 1..m - 1 : stack'[k] = stack[k]
      /\ pc' = "invoke"
      /\ run' = stack[m].run
      /\ o \in RunOutcomes
  BY <1>1, AnswerMade
<1>3. /\ runs \in Seq(RunRecords)
      /\ run \in DOMAIN runs
      /\ runs' = [runs EXCEPT ![run].outcome = o]
      /\ state' = state
      /\ o = "rejected" => Unaccepted
  BY DEF Answering, Calling, CallsTyped, Nested
<1>4. /\ DOMAIN runs' = DOMAIN runs
      /\ \A r \in DOMAIN runs : /\ runs'[r].call = runs[r].call
                                /\ runs'[r].outcome = IF r = run THEN o ELSE runs[r].outcome
                                /\ runs'[r].state = runs[r].state
  BY <1>2, <1>3, OutcomeSet DEF SameOrigin
<1>5. /\ m \in 1..m
      /\ \A k \in 1..m - 1 : k \in 1..m
  BY <1>2
<1>6. /\ \A i \in Instances : state[i] # None => state[i] \in DOMAIN runs
      /\ \A k \in 1..m : stack[k].run \in DOMAIN runs
      /\ \A r \in Pending : r \in DOMAIN runs
  <2>1. \A i \in Instances : state[i] # None => state[i] \in DOMAIN runs
    BY <1>3 DEF Calling, CallsTyped
  <2>2. \A k \in 1..m : stack[k].run \in DOMAIN runs
    BY <1>2 DEF Calling, Nested
  <2> QED
    BY <1>2, <1>3, <2>1, <2>2 DEF Pending
<1>7. ~Unaccepted'
  BY <1>2 DEF Unaccepted
<1>8. \A i \in Instances : state'[i] # None =>
        runs'[state'[i]].call.instance = i /\ runs'[state'[i]].outcome # "rejected"
  BY <1>3, <1>4, <1>6 DEF States
<1>9. \A r \in Pending' : runs'[r].outcome # "rejected"
  BY <1>4, <1>6, PendingAnswered DEF States
<1>10. state'[Instance'] # None /\ run' <= state'[Instance']
  <2>1. PICK q, i : q = stack[m].run /\ i = runs[q].call.instance
    OBVIOUS
  <2>2. state[i] # None /\ q <= state[i]
    BY <1>2, <1>5, <2>1 DEF States
  <2>3. run' = q /\ q \in DOMAIN runs
    BY <1>2, <1>5, <1>6, <2>1
  <2>4. Instance' = i
    BY <1>4, <2>1, <2>3 DEF Instance
  <2> QED
    BY <1>3, <2>2, <2>3, <2>4
<1>11. \A k \in DOMAIN stack' :
         LET q == stack'[k].run
             i == runs'[q].call.instance
         IN  state'[i] # None /\ q <= state'[i]
  BY <1>2, <1>3, <1>4, <1>5, <1>6 DEF States
<1>12. \A r \in DOMAIN runs' : runs'[r].state \in DOMAIN runs' \cup {None}
  BY <1>4 DEF States
<1>13. ASSUME NEW r \in DOMAIN runs', runs'[r].state # None, NEW q, q = runs'[r].state
       PROVE  q = r \/ (Overlap(q, r)' /\ runs'[q].outcome # "rejected")
  <2>1. r \in DOMAIN runs /\ q \in DOMAIN runs /\ q = runs[r].state
    BY <1>4, <1>13 DEF States
  <2>2. q = r \/ (Overlap(q, r) /\ runs[q].outcome # "rejected")
    BY <1>13, <2>1 DEF States, StateIsOfAnAcceptedRun
  <2>3. q = run => o # "rejected"
    BY <1>3, <2>1 DEF States
  <2> QED
    BY <1>4, <2>1, <2>2, <2>3 DEF Overlap
<1>14. StateIsOfAnAcceptedRun'
  BY <1>13 DEF StateIsOfAnAcceptedRun
<1> QED
  BY <1>7, <1>8, <1>9, <1>10, <1>11, <1>12, <1>14 DEF States

LEMMA NextStates ==
  ASSUME Calling, States, [CNext]_cvars
  PROVE  States'
<1>1. CASE Going \/ Preparing \/ Entering \/ Catch
  <2>1. /\ UNCHANGED <<stack, run, state>>
        /\ Unaccepted' => Unaccepted
        /\ pc' \notin {"validate", "done"} => pc \notin {"validate", "done"}
    <3>1. CASE Going
      BY <3>1 DEF Going
    <3>2. CASE Preparing
      BY <3>2 DEF Preparing, Unaccepted
    <3>3. CASE Entering
      BY <3>3 DEF Entering, Unaccepted
    <3>4. CASE Catch
      BY <3>4 DEF Catch, registers, vars, Unaccepted
    <3> QED
      BY <1>1, <3>1, <3>2, <3>3, <3>4
  <2>2. /\ DOMAIN runs' = DOMAIN runs
        /\ \A r \in DOMAIN runs : /\ runs'[r].call = runs[r].call
                                  /\ runs'[r].outcome = runs[r].outcome
                                  /\ runs'[r].state = runs[r].state
    BY <1>1, OutcomesKept
  <2> QED
    BY <2>1, <2>2, StatesStay
<1>2. CASE UNCHANGED calls /\ UNCHANGED vars
  BY <1>2, StatesStay DEF calls, vars, Unaccepted
<1>3. UNCHANGED cvars => UNCHANGED calls /\ UNCHANGED vars
  BY DEF cvars, registers
<1> QED
  BY <1>1, <1>2, <1>3, Steps, StatesAccepted, StatesBuilt, StatesCalled, StatesAnswered

LEMMA InitStates == CInit => States
<1> SUFFICES ASSUME CInit PROVE States
  OBVIOUS
<1>1. PICK call \in Calls : runs = <<NewRun(call, call.handler, call.hooks, 0, 0, 0)>>
  BY DEF CInit
<1>2. DOMAIN runs = {1} /\ runs[1].outcome = None /\ runs[1].state = None
  BY <1>1 DEF NewRun
<1>3. None \notin Nat /\ None # "rejected"
  BY CompositionAssumption, EndingAssumption
<1>4. Pending = {1}
  BY DEF Pending, CInit
<1>5. /\ \A i \in Instances : state[i] = None
      /\ run = 1
      /\ stack = <<>>
      /\ pc = "validate"
  BY DEF CInit, Init
<1> QED
  BY <1>2, <1>3, <1>4, <1>5 DEF States, StateIsOfAnAcceptedRun

\* For all instances, calls and hook lists, however runs on one instance overlap: the
\* state of a result is that of the run itself, or of a later one on the same instance
\* that was accepted. (run assigns `state` after both validations)
THEOREM StatesAreOfAcceptedRuns == CSpec => []StateIsOfAnAcceptedRun
<1>1. CInit => Calling /\ States
  BY InitCalling, InitStates
<1>2. Calling /\ States /\ [CNext]_cvars => (Calling /\ States)'
  BY NextCalling, NextStates
<1>3. Calling /\ States => StateIsOfAnAcceptedRun
  BY DEF States
<1> QED
  BY <1>1, <1>2, <1>3, PTL DEF CSpec

-------------------------------------------------------------------------------
(* Children.                                                                    *)

\* The members of l are members of e, in the order they have there, each once.
InOrder(l, e) ==
  \A i, j \in DOMAIN l : i < j =>
    \E m, n \in DOMAIN e : m < n /\ e[m] = l[i] /\ e[n] = l[j] /\ l[i] # l[j]

\* l is a list of the children of v that returned, in the order they ended.
ListsChildren(l, v) ==
  /\ \A r : r \in Range(l) <=> r \in Range(ended) /\ runs[r].context = v /\ Returned(r)
  /\ InOrder(l, ended)

LEMMA RangeAppended ==
  ASSUME NEW S, NEW s \in Seq(S), NEW x, NEW t, t = Append(s, x)
  PROVE  \A y : y \in Range(t) <=> y \in Range(s) \/ y = x
<1>1. PICK n : n = Len(s)
  OBVIOUS
<1>2. /\ n \in Nat
      /\ DOMAIN s = 1..n
      /\ DOMAIN t = 1..n + 1
      /\ t[n + 1] = x
      /\ \A k \in 1..n : t[k] = s[k]
  <2>1. s \in Seq(S \cup {x}) /\ x \in S \cup {x}
    OBVIOUS
  <2> QED
    BY <1>1, <2>1, AppendProperties
<1>3. /\ n + 1 \in 1..n + 1
      /\ \A k \in 1..n : k \in 1..n + 1
      /\ \A k \in 1..n + 1 : k \in 1..n \/ k = n + 1
  BY <1>2
<1>4. ASSUME NEW y \in Range(t) PROVE y \in Range(s) \/ y = x
  BY <1>2, <1>3, <1>4 DEF Range
<1>5. ASSUME NEW y \in Range(s) PROVE y \in Range(t)
  <2>1. PICK k \in 1..n : y = s[k]
    BY <1>2, <1>5 DEF Range
  <2>2. k \in DOMAIN t /\ t[k] = y
    BY <1>2, <1>3, <2>1
  <2> QED
    BY <2>2 DEF Range
<1>6. x \in Range(t)
  BY <1>2, <1>3 DEF Range
<1> QED
  BY <1>4, <1>5, <1>6

\* An order stays when more is added at the end, to the list too or not.
LEMMA OrderAppended ==
  ASSUME NEW S, NEW l \in Seq(S), NEW e \in Seq(S), NEW x \in S, InOrder(l, e),
         NEW f, f = Append(e, x)
  PROVE  /\ InOrder(l, f)
         /\ \A t : /\ t = Append(l, x)
                   /\ \A y : y \in Range(l) => y \in Range(e)
                   /\ x \notin Range(e)
                   => InOrder(t, f)
<1>1. PICK p, q : p = Len(l) /\ q = Len(e)
  OBVIOUS
<1>2. /\ p \in Nat /\ q \in Nat
      /\ DOMAIN l = 1..p
      /\ DOMAIN e = 1..q
      /\ DOMAIN f = 1..q + 1
      /\ f[q + 1] = x
      /\ \A k \in 1..q : f[k] = e[k]
  BY <1>1, AppendProperties
<1>3. \A k \in 1..q : k \in 1..q + 1 /\ k < q + 1
  BY <1>2
<1>4. InOrder(l, f)
  BY <1>2, <1>3 DEF InOrder
<1>5. ASSUME NEW t, t = Append(l, x), \A y : y \in Range(l) => y \in Range(e), x \notin Range(e)
      PROVE  InOrder(t, f)
  <2>1. /\ DOMAIN t = 1..p + 1
        /\ t[p + 1] = x
        /\ \A k \in 1..p : t[k] = l[k]
    BY <1>1, <1>5, AppendProperties
  <2>2. ASSUME NEW i \in 1..p + 1, NEW j \in 1..p + 1, i < j
        PROVE  \E m, n \in DOMAIN f : m < n /\ f[m] = t[i] /\ f[n] = t[j] /\ t[i] # t[j]
    <3>1. i \in 1..p
      BY <1>2, <2>2
    <3>2. CASE j \in 1..p
      <4>1. i \in DOMAIN l /\ j \in DOMAIN l
        BY <1>2, <3>1, <3>2
      <4>2. PICK m, n \in DOMAIN f : m < n /\ f[m] = l[i] /\ f[n] = l[j] /\ l[i] # l[j]
        BY <1>4, <2>2, <4>1 DEF InOrder
      <4>3. t[i] = l[i] /\ t[j] = l[j]
        BY <2>1, <3>1, <3>2
      <4> QED
        BY <4>2, <4>3
    <3>3. CASE j = p + 1
      <4>1. t[i] \in Range(e)
        BY <1>2, <1>5, <2>1, <3>1 DEF Range
      <4>2. PICK m \in 1..q : e[m] = t[i]
        BY <1>2, <4>1 DEF Range
      <4>3. f[m] = t[i] /\ m \in DOMAIN f /\ m < q + 1
        BY <1>2, <1>3, <4>2
      <4>4. f[q + 1] = t[j] /\ q + 1 \in DOMAIN f
        BY <1>2, <2>1, <3>3
      <4>5. t[i] # t[j]
        BY <1>5, <2>1, <3>3, <4>1
      <4> QED
        BY <4>3, <4>4, <4>5
    <3> QED
      BY <1>2, <3>2, <3>3
  <2> QED
    BY <2>1, <2>2 DEF InOrder
<1> QED
  BY <1>4, <1>5

\* What is said of the lists one by one is what is said of the children.
LEMMA ListsAreRecorded ==
  (\A v \in DOMAIN visits : \E l : l = visits[v].children /\ ListsChildren(l, v))
    /\ CallsTyped => ChildrenRecordedOnce
<1> SUFFICES ASSUME CallsTyped, NEW v \in DOMAIN visits, NEW l, l = visits[v].children,
                    ListsChildren(l, v)
             PROVE  /\ Range(l) = {r \in Range(ended) : r \in ChildrenOf(v) /\ Returned(r)}
                    /\ InOrder(l, ended)
  BY DEF ChildrenRecordedOnce, InOrder
<1>1. ASSUME NEW r PROVE r \in Range(ended) => r \in DOMAIN runs
  BY DEF CallsTyped, Range
<1>2. \A r : r \in Range(l) <=> r \in {q \in Range(ended) : q \in ChildrenOf(v) /\ Returned(q)}
  BY <1>1 DEF ListsChildren, ChildrenOf
<1> QED
  BY <1>2 DEF ListsChildren

LEMMA ChildrenAreListed ==
  ASSUME CallsTyped, ChildrenRecordedOnce, NEW v \in DOMAIN visits, NEW l, l = visits[v].children
  PROVE  ListsChildren(l, v)
<1>1. /\ Range(l) = {r \in Range(ended) : r \in ChildrenOf(v) /\ Returned(r)}
      /\ InOrder(l, ended)
  BY DEF ChildrenRecordedOnce, InOrder
<1>2. ASSUME NEW r PROVE r \in Range(ended) => r \in DOMAIN runs
  BY DEF CallsTyped, Range
<1> QED
  BY <1>1, <1>2 DEF ListsChildren, ChildrenOf

\* The runs that ended are runs that were called.
LEMMA EndedKnown ==
  ASSUME Calling
  PROVE  /\ \A k \in DOMAIN ended : ended[k] \in DOMAIN runs /\ ended[k] # 1
         /\ \A r \in Range(ended) : r \in DOMAIN runs /\ r # 1 /\ runs[r].context \in DOMAIN visits
<1>1. /\ ended \in Seq(2..Len(runs))
      /\ Len(runs) \in Nat
      /\ DOMAIN runs = 1..Len(runs)
      /\ Inherited
  BY DEF Calling, CallsTyped
<1>2. \A k \in DOMAIN ended : ended[k] \in 2..Len(runs)
  BY <1>1
<1>3. \A k \in DOMAIN ended : ended[k] \in DOMAIN runs /\ ended[k] # 1
  BY <1>1, <1>2
<1>4. \A r \in Range(ended) : r \in DOMAIN runs /\ r # 1
  BY <1>3 DEF Range
<1> QED
  BY <1>1, <1>3, <1>4 DEF Inherited

\* As long as no run ends, the endings stay, when runs keep context and outcome, visits
\* keep their children, and a new visit has none.
LEMMA EndingsStay ==
  ASSUME Calling, CallsTyped', Endings, ended' = ended,
         \A r \in Pending' : r \in Pending \/ r \notin DOMAIN runs,
         \A r \in DOMAIN runs : /\ runs'[r].context = runs[r].context
                                /\ runs'[r].outcome = runs[r].outcome,
         \A v \in DOMAIN visits' : \/ v \in DOMAIN visits /\ visits'[v].children = visits[v].children
                                   \/ v \notin DOMAIN visits /\ visits'[v].children = <<>>
  PROVE  Endings'
<1>1. /\ \A k \in DOMAIN ended : ended[k] \in DOMAIN runs
      /\ \A r \in Range(ended) : r \in DOMAIN runs /\ runs[r].context \in DOMAIN visits
  BY EndedKnown
<1>2. \A k \in DOMAIN ended' : ended'[k] \notin Pending'
  BY <1>1 DEF Endings
<1>3. ASSUME NEW v \in DOMAIN visits', NEW l, l = visits'[v].children
      PROVE  ListsChildren(l, v)'
  <2>1. ListsChildren(l, v)
    <3>1. CASE v \in DOMAIN visits
      BY <1>3, <3>1, ChildrenAreListed DEF Calling, Endings
    <3>2. CASE v \notin DOMAIN visits
      <4>1. l = <<>>
        BY <1>3, <3>2
      <4> QED
        BY <1>1, <3>2, <4>1 DEF ListsChildren, InOrder, Range
    <3> QED
      BY <3>1, <3>2
  <2>2. \A r \in Range(ended) : /\ runs'[r].context = runs[r].context
                                /\ Returned(r)' <=> Returned(r)
    BY <1>1 DEF Returned
  <2>3. Range(ended)' = Range(ended)
    OBVIOUS
  <2>4. \A r : r \in Range(l) <=> r \in Range(ended) /\ runs'[r].context = v /\ Returned(r)'
    BY <2>1, <2>2 DEF ListsChildren
  <2> QED
    BY <2>1, <2>3, <2>4 DEF ListsChildren
<1>4. \A v \in DOMAIN visits' : \E l : l = visits'[v].children /\ ListsChildren(l, v)'
  BY <1>3
<1>5. ChildrenRecordedOnce'
  <2>1. (\A v \in DOMAIN visits : \E l : l = visits[v].children /\ ListsChildren(l, v))'
    BY <1>4
  <2> QED
    BY <2>1, ListsAreRecorded, PTL
<1>6. \A j, k \in DOMAIN ended' : j < k => ended'[j] # ended'[k]
  BY DEF Endings
<1> QED
  BY <1>2, <1>5, <1>6 DEF Endings

\* A run that ends is recorded with the visit whose context was asked for it, if it
\* returned.
LEMMA EndingsAnswered ==
  ASSUME Calling, Endings, NEW o, NEW x, Answering(o, x), CallsTyped'
  PROVE  Endings'
<1>1. PICK q, c : q = run /\ c = runs[run].context
  OBVIOUS
<1>2. /\ runs \in Seq(RunRecords)
      /\ visits \in Seq(VisitRecords)
      /\ ended \in Seq(2..Len(runs))
      /\ ended' = Append(ended, q)
      /\ q \in 2..Len(runs)
      /\ q \in DOMAIN runs
      /\ runs' = [runs EXCEPT ![q].outcome = o]
      /\ o \in RunOutcomes
      /\ c \in DOMAIN visits
  BY <1>1, AnswerMade DEF Answering, Calling, CallsTyped, Nested
<1>3. /\ \A r \in Pending' : r \in Pending /\ r # q
      /\ q \in Pending
  BY <1>1, PendingAnswered
<1>4. /\ DOMAIN runs' = DOMAIN runs
      /\ \A r \in DOMAIN runs : /\ runs'[r].context = runs[r].context
                                /\ runs'[r].outcome = IF r = q THEN o ELSE runs[r].outcome
  BY <1>2, OutcomeSet DEF SameOrigin
<1>5. PICK p : p = Len(ended)
  OBVIOUS
<1>6. /\ p \in Nat
      /\ DOMAIN ended = 1..p
      /\ DOMAIN ended' = 1..p + 1
      /\ ended'[p + 1] = q
      /\ \A k \in 1..p : ended'[k] = ended[k]
      /\ \A k \in 1..p + 1 : k \in 1..p \/ k = p + 1
  BY <1>2, <1>5
<1>7. \A k \in 1..p : ended[k] \notin Pending /\ ended[k] # q
  BY <1>3, <1>6 DEF Endings
<1>8. \A k \in DOMAIN ended' : ended'[k] \notin Pending'
  BY <1>3, <1>6, <1>7
<1>9. \A j, k \in DOMAIN ended' : j < k => ended'[j] # ended'[k]
  <2>1. ASSUME NEW j \in 1..p + 1, NEW k \in 1..p + 1, j < k
        PROVE  ended'[j] # ended'[k]
    <3>1. j \in 1..p
      BY <1>6, <2>1
    <3>2. CASE k = p + 1
      BY <1>6, <1>7, <3>1, <3>2
    <3>3. CASE k \in 1..p
      BY <1>6, <2>1, <3>1, <3>3 DEF Endings
    <3> QED
      BY <1>6, <3>2, <3>3
  <2> QED
    BY <1>6, <2>1
<1>10. PICK f : f = ended'
  OBVIOUS
<1>11. \A r : r \in Range(f) <=> r \in Range(ended) \/ r = q
  <2>1. f = Append(ended, q)
    BY <1>2, <1>10
  <2>2. ended \in Seq(Nat)
    <3>1. Len(runs) \in Nat /\ 2..Len(runs) \subseteq Nat
      BY <1>2
    <3> QED
      BY <1>2, <3>1
  <2> QED
    BY <2>1, <2>2, RangeAppended
<1>12. /\ q \notin Range(ended)
       /\ \A r \in Range(ended) : r \in DOMAIN runs /\ r # q
  BY <1>6, <1>7, EndedKnown DEF Range
<1>13. ASSUME NEW v \in DOMAIN visits', NEW l, l = visits'[v].children
       PROVE  ListsChildren(l, v)'
  <2>1. v \in DOMAIN visits
    BY <1>2, <1>13 DEF Answering, Record
  <2>2. PICK old : old = visits[v].children
    OBVIOUS
  <2>3. ListsChildren(old, v)
    BY <2>1, <2>2, ChildrenAreListed DEF Calling, Endings
  <2>4. \A r \in Range(ended) : /\ runs'[r].context = runs[r].context
                                /\ Returned(r)' <=> Returned(r)
    BY <1>4, <1>12 DEF Returned
  <2>5. /\ old \in Seq(Nat)
        /\ ended \in Seq(Nat)
        /\ q \in Nat
    <3>1. visits[v] \in VisitRecords
      BY <1>2, <2>1
    <3>2. Len(runs) \in Nat /\ 2..Len(runs) \subseteq Nat
      BY <1>2
    <3> QED
      BY <1>2, <2>2, <3>1, <3>2 DEF VisitRecords
  <2>6. InOrder(old, ended) /\ \A r : r \in Range(old) => r \in Range(ended)
    BY <2>3 DEF ListsChildren
  <2>7. /\ InOrder(old, f)
        /\ \A t : t = Append(old, q) => InOrder(t, f)
    BY <1>2, <1>10, <1>12, <2>5, <2>6, OrderAppended
  <2>8. CASE o \in {"succeeded", "failed"} /\ Record(c) /\ v = c
    <3>1. l = Append(old, q)
      <4>1. visits'[v].children = Append(visits[v].children, run)
        <5>1. run \in Nat /\ visits \in Seq(VisitRecords) /\ c \in DOMAIN visits
          BY <1>1, <1>2, <2>5
        <5>2. Record(c)
          BY <2>8
        <5>3. \A u \in DOMAIN visits :
                visits'[u].children = IF u = c THEN Append(visits[u].children, run)
                                      ELSE visits[u].children
          BY <5>1, <5>2, ChildSet, Zenon
        <5> QED
          BY <2>1, <2>8, <5>3
      <4> QED
        BY <1>1, <1>13, <2>2, <4>1
    <3>2. \A r : r \in Range(l) <=> r \in Range(old) \/ r = q
      BY <2>5, <3>1, RangeAppended
    <3>3. Returned(q)' /\ runs'[q].context = v
      BY <1>1, <1>2, <1>4, <2>8 DEF Returned
    <3>4. \A r : r \in Range(l) <=> r \in Range(f) /\ runs'[r].context = v /\ Returned(r)'
      BY <1>11, <2>3, <2>4, <3>2, <3>3 DEF ListsChildren
    <3>5. InOrder(l, f)
      BY <2>7, <3>1
    <3> QED
      BY <1>10, <3>4, <3>5 DEF ListsChildren
  <2>9. CASE v # c \/ (~Returned(q)' /\ visits' = visits)
    <3>1. l = old
      <4>1. CASE visits' = visits
        BY <1>13, <2>2, <4>1
      <4>2. CASE v # c /\ Record(c)
        <5>1. visits' = [visits EXCEPT ![c].children = Append(@, q)]
          BY <1>1, <4>2 DEF Record
        <5> QED
          BY <1>2, <1>13, <2>1, <2>2, <4>2, <5>1
      <4> QED
        BY <1>1, <2>9, <4>1, <4>2 DEF Answering
    <3>2. ~(Returned(q)' /\ runs'[q].context = v)
      BY <1>1, <1>2, <1>4, <2>9
    <3>3. \A r : r \in Range(l) <=> r \in Range(f) /\ runs'[r].context = v /\ Returned(r)'
      BY <1>11, <2>3, <2>4, <3>1, <3>2 DEF ListsChildren
    <3>4. InOrder(l, f)
      BY <2>7, <3>1
    <3> QED
      BY <1>10, <3>3, <3>4 DEF ListsChildren
  <2>10. o \in {"rejected"} \cup ErrorClasses => ~Returned(q)'
    BY <1>2, <1>4, EndingAssumption DEF Returned
  <2>11. \/ o \in {"succeeded", "failed"} /\ Record(c)
         \/ o \in {"rejected"} \cup ErrorClasses /\ visits' = visits
    BY <1>1 DEF Answering
  <2> QED
    BY <2>8, <2>9, <2>10, <2>11
<1>14. \A v \in DOMAIN visits' : \E l : l = visits'[v].children /\ ListsChildren(l, v)'
  BY <1>13
<1>15. ChildrenRecordedOnce'
  <2>1. (\A v \in DOMAIN visits : \E l : l = visits[v].children /\ ListsChildren(l, v))'
    BY <1>14
  <2> QED
    BY <2>1, ListsAreRecorded, PTL
<1> QED
  BY <1>8, <1>9, <1>15 DEF Endings

LEMMA NextEndings ==
  ASSUME Calling, Endings, [CNext]_cvars
  PROVE  Endings'
<1>1. CallsTyped'
  BY NextCalling DEF Calling
<1>2. runs \in Seq(RunRecords) /\ visits \in Seq(VisitRecords) /\ run \in DOMAIN runs
  BY DEF Calling, CallsTyped, Nested
<1>3. CASE UNCHANGED <<runs, visits, ended, stack, run>>
  BY <1>1, <1>3, PendingKept, EndingsStay
<1>4. CASE Entering
  <2>1. PICK n, w : /\ n = Len(visits)
                    /\ w = [run |-> run, children |-> <<>>, handed |-> FALSE,
                            handler |-> runs[run].handler, hooks |-> runs[run].hooks]
    OBVIOUS
  <2>2. visits' = Append(visits, w) /\ w.children = <<>>
    BY <1>4, <2>1 DEF Entering
  <2>3. \A v \in DOMAIN visits' : \/ v \in DOMAIN visits /\ visits'[v] = visits[v]
                                  \/ v \notin DOMAIN visits /\ visits'[v] = w
    BY <1>2, <2>1, <2>2
  <2> QED
    BY <1>1, <1>4, <2>2, <2>3, PendingKept, EndingsStay DEF Entering
<1>5. CASE Preparing
  <2>1. CASE visits' = visits
    BY <1>3, <1>5, <2>1 DEF Preparing
  <2>2. CASE visits' = [visits EXCEPT ![Here].handed = TRUE]
    <3>1. PICK h : h = Here
      OBVIOUS
    <3>2. h \in DOMAIN visits
      <4>1. VisitsOf(run) # {}
        BY <1>5 DEF Preparing, Visiting, Calling, Nested
      <4>2. Max(VisitsOf(run)) \in VisitsOf(run)
        BY <4>1, HereIsVisit DEF Calling
      <4> QED
        BY <3>1, <4>2 DEF Here, VisitsOf
    <3>3. /\ DOMAIN visits' = DOMAIN visits
          /\ \A v \in DOMAIN visits : visits'[v].children = visits[v].children
      BY <1>2, <2>2, <3>1, <3>2, HandedSet
    <3> QED
      BY <1>1, <1>5, <3>3, PendingKept, EndingsStay DEF Preparing
  <2> QED
    BY <1>5, <2>1, <2>2 DEF Preparing
<1>6. CASE Building
  <2>1. PICK s : s = state[Instance]
    OBVIOUS
  <2>2. \A r \in DOMAIN runs : /\ runs'[r].context = runs[r].context
                               /\ runs'[r].outcome = runs[r].outcome
    BY <1>2, <1>6, <2>1 DEF Building
  <2> QED
    BY <1>1, <1>6, <2>2, PendingKept, EndingsStay DEF Building
<1>7. CASE Catch
  <2>1. PICK s : s = Last(ended)
    OBVIOUS
  <2>2. runs' = [runs EXCEPT ![s].caught = TRUE]
    BY <1>7, <2>1 DEF Catch
  <2>3. \A r \in DOMAIN runs : /\ runs'[r].context = runs[r].context
                               /\ runs'[r].outcome = runs[r].outcome
    BY <1>2, <2>2
  <2> QED
    BY <1>1, <1>7, <2>3, PendingKept, EndingsStay DEF Catch, registers
<1>8. ASSUME NEW call \in Calls, NEW c \in DOMAIN visits, RunChild(call, c)
      PROVE  Endings'
  <2>1. PICK n, m : n = Len(runs) /\ m = Len(stack)
    OBVIOUS
  <2>2. /\ n \in Nat
        /\ DOMAIN runs = 1..n
        /\ \A r \in DOMAIN runs : runs'[r] = runs[r]
        /\ UNCHANGED <<visits, ended>>
    BY <1>8, <2>1, CallMade
  <2>3. \A r \in Pending' : r \in Pending \/ r = n + 1
    BY <1>8, <2>1, PendingCalled
  <2> QED
    BY <1>1, <2>2, <2>3, EndingsStay
<1>9. ASSUME NEW o, NEW x, Answering(o, x)
      PROVE  Endings'
  BY <1>1, <1>9, EndingsAnswered
<1>10. CASE UNCHANGED cvars
  BY <1>3, <1>10 DEF cvars, calls
<1> QED
  BY <1>3, <1>4, <1>5, <1>6, <1>7, <1>8, <1>9, <1>10, Steps DEF Going, Accepting, calls

LEMMA InitEndings == CInit => Endings
<1> SUFFICES ASSUME CInit PROVE Endings
  OBVIOUS
<1>1. ended = <<>> /\ visits = <<>>
  BY DEF CInit
<1> QED
  BY <1>1 DEF Endings, ChildrenRecordedOnce

\* For all instances, calls and hook lists, whatever contexts are kept: the
\* child_workflows of a step are the children its context was asked for that returned,
\* each once, in the order they ended. (run_child_workflow appends to the list that run
\* made for the visit)
THEOREM ChildrenRecorded == CSpec => []ChildrenRecordedOnce
<1>1. CInit => Calling /\ Endings
  BY InitCalling, InitEndings
<1>2. Calling /\ Endings /\ [CNext]_cvars => (Calling /\ Endings)'
  BY NextCalling, NextEndings
<1>3. Calling /\ Endings => ChildrenRecordedOnce
  BY DEF Endings
<1> QED
  BY <1>1, <1>2, <1>3, PTL DEF CSpec

-------------------------------------------------------------------------------
(* Failed children.                                                             *)

\* What holds of the visit, the attempt and the child that a step leads to, holds after it.
LEMMA DealtOnTop ==
  ASSUME NEW v, NEW n, NEW x, DealtWith(v, n, x)', v = Here', n = attempts' + 1,
         x = IF raised' = None THEN 0 ELSE Last(ended')
  PROVE  (DealtWith(Here, attempts + 1, IF raised = None THEN 0 ELSE Last(ended)))'
BY DEF DealtWith

LEMMA DealtBelow ==
  ASSUME NEW k, NEW v, NEW n, NEW x, DealtWith(v, n, x)', v = (Max(VisitsOf(stack[k].run)))',
         n = stack'[k].attempts + 1, x = Above(k)'
  PROVE  (DealtWith(Max(VisitsOf(stack[k].run)), stack[k].attempts + 1, Above(k)))'
BY DEF DealtWith

\* The children of a visit are dealt with as long as no more are called.
LEMMA DealtStays ==
  ASSUME NEW v, NEW n, NEW x, DealtWith(v, n, x),
         \A r \in DOMAIN runs' : runs'[r].caller = v =>
           /\ r \in DOMAIN runs
           /\ runs[r].caller = v
           /\ runs'[r].attempt = runs[r].attempt
           /\ Fine(r) => Fine(r)'
  PROVE  DealtWith(v, n, x)'
BY DEF DealtWith

\* The last visit of a suspended run stays its last.
LEMMA LastVisitBelow ==
  ASSUME Calling, CNext, NEW k \in DOMAIN stack, NEW q, q = stack[k].run
  PROVE  /\ VisitsOf(q)' = VisitsOf(q)
         /\ Max(VisitsOf(q))' = Max(VisitsOf(q))
         /\ Max(VisitsOf(q)) \in VisitsOf(q)
<1>1. /\ VisitsOf(q) # {}
      /\ q # run
  <2>1. /\ runs[Above(k)].caller \in VisitsOf(q)
        /\ q < run
        /\ run \in Nat
        /\ q \in Nat
    BY DEF Calling, Nested, CallsTyped
  <2> QED
    BY <2>1
<1>2. VisitsOf(q)' = VisitsOf(q)
  <2>1. CASE Entering
    <3>1. PICK n, w : /\ n = Len(visits)
                      /\ w = [run |-> run, children |-> <<>>, handed |-> FALSE,
                              handler |-> runs[run].handler, hooks |-> runs[run].hooks]
      OBVIOUS
    <3>2. visits' = Append(visits, w) /\ w.run = run
      BY <2>1, <3>1 DEF Entering
    <3>3. /\ \A v \in DOMAIN visits' : \/ v \in DOMAIN visits /\ visits'[v] = visits[v]
                                       \/ v = n + 1 /\ visits'[v] = w
          /\ \A v \in DOMAIN visits : v \in DOMAIN visits' /\ visits'[v] = visits[v]
      BY <3>1, <3>2 DEF Calling, CallsTyped
    <3>4. \A v : v \in VisitsOf(q)' <=> v \in VisitsOf(q)
      BY <1>1, <3>2, <3>3 DEF VisitsOf
    <3> QED
      BY <3>4
  <2>2. CASE ~Entering
    BY <2>2, VisitsAdded, RecordsKept, VisitsGrow
  <2> QED
    BY <2>1, <2>2
<1>3. Max(VisitsOf(q))' = Max(VisitsOf(q))
  BY <1>2 DEF Max
<1>4. Max(VisitsOf(q)) \in VisitsOf(q)
  BY <1>1, HereIsVisit DEF Calling
<1> QED
  BY <1>2, <1>3, <1>4

\* Here is the last visit of the run on top, and stays it if no step is entered.
LEMMA LastVisitOnTop ==
  ASSUME Calling, CNext, run' = run, ~Entering
  PROVE  Here' = Here
<1>1. PICK q : q = run
  OBVIOUS
<1>2. VisitsOf(q)' = VisitsOf(q)
  BY VisitsAdded, RecordsKept, VisitsGrow
<1>3. VisitsOf(run)' = VisitsOf(run)
  BY <1>1, <1>2 DEF VisitsOf
<1>4. Here = Max(VisitsOf(run)) /\ Here' = Max(VisitsOf(run))'
  BY DEF Here, VisitsOf
<1> QED
  BY <1>3, <1>4 DEF Max

\* What is suspended stays dealt with when a step changes neither the stack nor the run
\* on top, nor what the children are.
LEMMA DealtBelowStays ==
  ASSUME Calling, Dealt, CNext, UNCHANGED <<stack, run>>, DOMAIN runs' = DOMAIN runs,
         \A r \in DOMAIN runs : /\ runs'[r].caller = runs[r].caller
                                /\ runs'[r].attempt = runs[r].attempt
                                /\ Fine(r) => Fine(r)'
  PROVE  \A k \in DOMAIN stack' :
           (DealtWith(Max(VisitsOf(stack[k].run)), stack[k].attempts + 1, Above(k)))'
<1> SUFFICES ASSUME NEW k \in DOMAIN stack
             PROVE  (DealtWith(Max(VisitsOf(stack[k].run)), stack[k].attempts + 1, Above(k)))'
  OBVIOUS
<1>1. PICK q, v, n, x : /\ q = stack[k].run
                        /\ v = Max(VisitsOf(q))
                        /\ n = stack[k].attempts + 1
                        /\ x = Above(k)
  OBVIOUS
<1>2. DealtWith(v, n, x)
  BY <1>1 DEF Dealt
<1>3. DealtWith(v, n, x)'
  BY <1>2, DealtStays
<1>4. v = (Max(VisitsOf(stack[k].run)))'
  <2>1. v = Max(VisitsOf(q))'
    BY <1>1, LastVisitBelow
  <2>2. (VisitsOf(stack[k].run))' = VisitsOf(q)'
    BY <1>1 DEF VisitsOf
  <2> QED
    BY <2>1, <2>2 DEF Max
<1>5. n = stack'[k].attempts + 1 /\ x = Above(k)'
  BY <1>1 DEF Above
<1> QED
  BY <1>3, <1>4, <1>5, DealtBelow

\* A step enters with no children, and the runs below it keep theirs.
LEMMA DealtEntered ==
  ASSUME Calling, Dealt, CNext, Entering
  PROVE  Dealt'
<1>1. PICK n, w, q : /\ n = Len(visits)
                     /\ w = [run |-> run, children |-> <<>>, handed |-> FALSE,
                             handler |-> runs[run].handler, hooks |-> runs[run].hooks]
                     /\ q = run
  OBVIOUS
<1>2. /\ visits' = Append(visits, w)
      /\ w.run = q
      /\ visits \in Seq(VisitRecords)
      /\ runs' = runs
      /\ run' = q
      /\ pc' = "stepStarted"
  BY <1>1 DEF Entering, Calling, CallsTyped
<1>3. /\ n \in Nat
      /\ DOMAIN visits' = 1..n + 1
      /\ visits'[n + 1] = w
  BY <1>1, <1>2
<1>4. VisitsOf(q)' \in SUBSET (1..n + 1) /\ n + 1 \in VisitsOf(q)' /\ VisitsOf(q)' # {}
  BY <1>2, <1>3 DEF VisitsOf
<1>5. PICK S : S = VisitsOf(q)'
  OBVIOUS
<1>6. Max(S) \in S /\ n + 1 <= Max(S)
  <2>1. n + 1 \in Nat /\ S \in SUBSET (1..n + 1) /\ S # {} /\ n + 1 \in S
    BY <1>3, <1>4, <1>5
  <2> QED
    BY <2>1, MaxIsMember
<1>7. Max(S) = n + 1
  BY <1>3, <1>4, <1>5, <1>6
<1>8. Here' = n + 1
  <2>1. Here' = Max(VisitsOf(run))'
    BY DEF Here, VisitsOf
  <2>2. (VisitsOf(run))' = S
    BY <1>2, <1>5 DEF VisitsOf
  <2> QED
    BY <1>7, <2>1, <2>2 DEF Max
<1>9. \A r \in DOMAIN runs' : runs'[r].caller # Here'
  <2>1. \A r \in DOMAIN runs : runs[r].caller \in 0..n
    BY <1>1 DEF Calling, Inherited
  <2> QED
    BY <1>2, <1>3, <1>8, <2>1
<1>10. \A k \in DOMAIN stack' :
         (DealtWith(Max(VisitsOf(stack[k].run)), stack[k].attempts + 1, Above(k)))'
  <2>1. \A r \in DOMAIN runs : Fine(r) => Fine(r)'
    BY <1>2 DEF Fine
  <2> QED
    BY <1>2, <2>1, DealtBelowStays DEF Entering
<1> QED
  BY <1>2, <1>9, <1>10 DEF Dealt, FailedChildHandled

\* An attempt ends, or something else goes on.
LEMMA DealtGoing ==
  ASSUME Calling, Dealt, CNext, Going
  PROVE  Dealt'
<1>1. /\ UNCHANGED <<stack, run, runs, visits, ended>>
      /\ raised' = None
      /\ attempts \in Nat
      /\ runs \in Seq(RunRecords)
  BY DEF Going, Calling, CallsTyped, TypeOK
<1>2. \A r \in DOMAIN runs : Fine(r)' <=> Fine(r)
  BY <1>1 DEF Fine
<1>3. PICK h, n : h = Here /\ n = attempts + 1
  OBVIOUS
<1>4. Here' = h
  BY <1>1, <1>3 DEF Here
<1>5. pc = "invoke" => DealtWith(h, n, IF raised = None THEN 0 ELSE Last(ended))
  BY <1>3 DEF Dealt
<1>6. \A r \in DOMAIN runs : runs[r].attempt \in Nat /\ r # 0
  <2>1. \A r \in DOMAIN runs : runs[r] \in RunRecords /\ r # 0
    BY <1>1
  <2> QED
    BY <2>1 DEF RunRecords
<1>7. ASSUME pc' = "invoke"
      PROVE  (DealtWith(Here, attempts + 1, IF raised = None THEN 0 ELSE Last(ended)))'
  <2>1. pc = "invoke" /\ attempts' = n
    BY <1>3, <1>7 DEF Going
  <2>2. DealtWith(h, n + 1, 0)'
    BY <1>1, <1>3, <1>5, <1>6, <2>1 DEF DealtWith
  <2> QED
    BY <1>1, <1>4, <2>1, <2>2, DealtOnTop
<1>8. FailedChildHandled'
  <2>1. ASSUME pc' = "stepFinished", stepResult'.status = "succeeded", NEW r \in DOMAIN runs',
               runs'[r].caller = Here', runs'[r].attempt = attempts'
        PROVE  Fine(r)'
    <3>1. pc = "invoke" /\ raised = None /\ attempts' = n
      BY <1>3, <2>1 DEF Going
    <3>2. DealtWith(h, n, 0)
      BY <1>5, <3>1
    <3>3. r # 0 /\ runs[r].caller = h /\ runs[r].attempt = n /\ r \in DOMAIN runs
      BY <1>1, <1>4, <1>6, <2>1, <3>1
    <3> QED
      BY <1>2, <3>2, <3>3 DEF DealtWith
  <2> QED
    BY <2>1 DEF FailedChildHandled, Fine
<1>9. \A k \in DOMAIN stack' :
        (DealtWith(Max(VisitsOf(stack[k].run)), stack[k].attempts + 1, Above(k)))'
  BY <1>1, <1>2, DealtBelowStays
<1>10. pc' \notin {"stepStarted", "approve"}
  BY DEF Going
<1> QED
  BY <1>7, <1>8, <1>9, <1>10 DEF Dealt

\* A step that is entered calls nothing before its method is called.
LEMMA DealtPrepared ==
  ASSUME Calling, Dealt, CNext, Preparing
  PROVE  Dealt'
<1>1. /\ UNCHANGED <<stack, run, runs, raised, ended>>
      /\ pc \in {"stepStarted", "approve"}
      /\ pc' \in {"approve", "invoke"}
  BY DEF Preparing
<1>2. PICK h, n, x : /\ h = Here
                     /\ n = attempts' + 1
                     /\ x = IF raised' = None THEN 0 ELSE Last(ended')
  OBVIOUS
<1>3. Here' = h
  <2>1. ~Entering
    BY <1>1 DEF Entering
  <2> QED
    BY <1>1, <1>2, <2>1, LastVisitOnTop
<1>4. \A r \in DOMAIN runs' : runs'[r].caller # h
  BY <1>1, <1>2 DEF Dealt
<1>5. DealtWith(h, n, x)'
  BY <1>4 DEF DealtWith
<1>6. (DealtWith(Here, attempts + 1, IF raised = None THEN 0 ELSE Last(ended)))'
  BY <1>2, <1>3, <1>5, DealtOnTop
<1>7. \A k \in DOMAIN stack' :
        (DealtWith(Max(VisitsOf(stack[k].run)), stack[k].attempts + 1, Above(k)))'
  <2>1. \A r \in DOMAIN runs : Fine(r) => Fine(r)'
    BY <1>1 DEF Fine
  <2> QED
    BY <1>1, <2>1, DealtBelowStays
<1> QED
  BY <1>1, <1>3, <1>4, <1>6, <1>7 DEF Dealt, FailedChildHandled

\* Neither acceptance nor a result is about children.
LEMMA DealtElsewhere ==
  ASSUME Calling, Dealt, CNext, Accepting \/ Building
  PROVE  Dealt'
<1>1. /\ UNCHANGED <<stack, run>>
      /\ pc' \notin {"stepStarted", "approve", "invoke", "stepFinished"}
      /\ runs \in Seq(RunRecords)
  BY DEF Accepting, Building, Calling, CallsTyped
<1>2. PICK s : s = state[Instance]
  OBVIOUS
<1>3. runs' = runs \/ runs' = [runs EXCEPT ![run].state = s]
  BY <1>2 DEF Accepting, Building
<1>4. /\ DOMAIN runs' = DOMAIN runs
      /\ \A r \in DOMAIN runs : /\ runs'[r].caller = runs[r].caller
                                /\ runs'[r].attempt = runs[r].attempt
                                /\ runs'[r].call = runs[r].call
                                /\ runs'[r].outcome = runs[r].outcome
                                /\ runs'[r].caught = runs[r].caught
  <2>1. CASE runs' = runs
    BY <2>1
  <2>2. CASE runs' = [runs EXCEPT ![run].state = s]
    <3>1. /\ DOMAIN runs' = DOMAIN runs
          /\ \A r \in DOMAIN runs : r # run => runs'[r] = runs[r]
          /\ run \in DOMAIN runs => runs'[run] = [runs[run] EXCEPT !.state = s]
      BY <1>1, <2>2
    <3>2. \A r \in DOMAIN runs : runs[r] \in RunRecords
      BY <1>1
    <3> QED
      BY <3>1, <3>2 DEF RunRecords
  <2> QED
    BY <1>3, <2>1, <2>2
<1>5. \A r \in DOMAIN runs : Fine(r) => Fine(r)'
  BY <1>4 DEF Fine
<1>6. \A k \in DOMAIN stack' :
        (DealtWith(Max(VisitsOf(stack[k].run)), stack[k].attempts + 1, Above(k)))'
  BY <1>1, <1>4, <1>5, DealtBelowStays
<1> QED
  BY <1>1, <1>6 DEF Dealt, FailedChildHandled

\* The exception that is caught is the one of the child that ended last.
LEMMA DealtCaught ==
  ASSUME Calling, Dealt, CNext, Catch
  PROVE  Dealt'
<1>1. PICK q : q = Last(ended)
  OBVIOUS
<1>2. /\ UNCHANGED <<stack, run, visits, ended>>
      /\ pc' = pc
      /\ attempts' = attempts
      /\ raised # None
      /\ raised' = None
      /\ pc = "invoke"
      /\ runs \in Seq(RunRecords)
      /\ runs' = [runs EXCEPT ![q].caught = TRUE]
  BY <1>1 DEF Catch, registers, vars, Calling, CallsTyped, Nested
<1>3. q \in DOMAIN runs
  <2>1. /\ ended \in Seq(2..Len(runs))
        /\ ended # <<>>
        /\ Len(runs) \in Nat
        /\ DOMAIN runs = 1..Len(runs)
    BY <1>2 DEF Calling, CallsTyped, Nested
  <2>2. q \in 2..Len(runs)
    BY <1>1, <2>1 DEF Last
  <2> QED
    BY <2>1, <2>2
<1>4. /\ DOMAIN runs' = DOMAIN runs
      /\ \A r \in DOMAIN runs : /\ SameOrigin(runs'[r], runs[r])
                                /\ r = q => runs'[r].caught
                                /\ r # q => runs'[r] = runs[r]
  BY <1>2, <1>3, CaughtSet
<1>5. /\ Fine(q)'
      /\ \A r \in DOMAIN runs : Fine(r) => Fine(r)'
  BY <1>3, <1>4 DEF Fine
<1>6. PICK h, n : h = Here /\ n = attempts + 1
  OBVIOUS
<1>7. Here' = h
  BY <1>2, <1>6 DEF Here
<1>8. DealtWith(h, n, q)
  BY <1>1, <1>2, <1>6 DEF Dealt
<1>9. DealtWith(h, n, 0)'
  BY <1>4, <1>5, <1>8 DEF DealtWith, SameOrigin
<1>10. (DealtWith(Here, attempts + 1, IF raised = None THEN 0 ELSE Last(ended)))'
  BY <1>2, <1>6, <1>7, <1>9, DealtOnTop
<1>11. \A k \in DOMAIN stack' :
         (DealtWith(Max(VisitsOf(stack[k].run)), stack[k].attempts + 1, Above(k)))'
  BY <1>2, <1>4, <1>5, DealtBelowStays DEF SameOrigin
<1> QED
  BY <1>2, <1>10, <1>11 DEF Dealt, FailedChildHandled

\* A child that is called is the one that its caller waits for.
LEMMA DealtCalled ==
  ASSUME Calling, Dealt, CNext, NEW call \in Calls, NEW c \in DOMAIN visits, RunChild(call, c)
  PROVE  Dealt'
<1>1. PICK n, m, f, h, t, q : /\ n = Len(runs)
                              /\ m = Len(stack)
                              /\ f = Frame
                              /\ h = Here
                              /\ t = attempts + 1
                              /\ q = run
  OBVIOUS
<1>2. /\ pc = "invoke"
      /\ pc' = "validate"
      /\ raised = None
      /\ run' = n + 1
      /\ m \in Nat
      /\ Len(stack') = m + 1
      /\ DOMAIN stack = 1..m
      /\ DOMAIN stack' = 1..m + 1
      /\ stack'[m + 1] = f
      /\ \A k \in DOMAIN stack : stack'[k] = stack[k]
      /\ n \in Nat
      /\ DOMAIN runs = 1..n
      /\ DOMAIN runs' = 1..n + 1
      /\ \A r \in DOMAIN runs : runs'[r] = runs[r]
      /\ runs'[n + 1].caller = h
      /\ runs'[n + 1].attempt = t
      /\ visits' = visits
  BY <1>1, CallMade
<1>3. f.run = q /\ f.attempts = attempts /\ t \in Nat
  BY <1>1, <1>2, FrameSuspended DEF Calling, TypeOK
<1>4. h \in VisitsOf(q) /\ h = Max(VisitsOf(q))
  <2>1. VisitsOf(q) # {}
    BY <1>1, <1>2 DEF Calling, Nested, Visiting
  <2>2. Max(VisitsOf(q)) \in VisitsOf(q)
    BY <2>1, HereIsVisit DEF Calling
  <2>3. h = Max(VisitsOf(q))
    BY <1>1 DEF Here, VisitsOf
  <2> QED
    BY <2>2, <2>3
<1>5. /\ \A r \in 1..n + 1 : r \in 1..n \/ r = n + 1
      /\ \A r \in 1..n : Fine(r)' <=> Fine(r)
  BY <1>2 DEF Fine
<1>6. ASSUME NEW k \in 1..m + 1
      PROVE  (DealtWith(Max(VisitsOf(stack[k].run)), stack[k].attempts + 1, Above(k)))'
  <2>1. CASE k = m + 1
    <3>1. DealtWith(h, t, 0)
      BY <1>1, <1>2 DEF Dealt
    <3>2. DealtWith(h, t, n + 1)'
      <4>1. ASSUME NEW r \in 1..n, runs[r].caller = h
            PROVE  /\ runs[r].attempt <= t
                   /\ runs[r].attempt = t => Fine(r)
        BY <1>2, <3>1, <4>1 DEF DealtWith
      <4> QED
        BY <1>2, <1>3, <1>5, <4>1 DEF DealtWith
    <3>3. PICK x : x = n + 1
      OBVIOUS
    <3>4. x = Above(k)'
      BY <1>2, <2>1, <3>3 DEF Above
    <3>5. h = (Max(VisitsOf(stack[k].run)))'
      <4>1. (VisitsOf(stack[k].run))' = VisitsOf(q)
        BY <1>2, <1>3, <2>1 DEF VisitsOf
      <4> QED
        BY <1>4, <4>1 DEF Max
    <3>6. t = stack'[k].attempts + 1
      BY <1>1, <1>2, <1>3, <2>1
    <3> QED
      BY <3>2, <3>3, <3>4, <3>5, <3>6, DealtBelow
  <2>2. CASE k \in 1..m
    <3>1. PICK p, v, s, x : /\ p = stack[k].run
                            /\ v = Max(VisitsOf(p))
                            /\ s = stack[k].attempts + 1
                            /\ x = Above(k)
      OBVIOUS
    <3>2. DealtWith(v, s, x)
      BY <1>2, <2>2, <3>1 DEF Dealt
    <3>3. v \in VisitsOf(p) /\ VisitsOf(p)' = VisitsOf(p)
      BY <1>2, <2>2, <3>1, LastVisitBelow
    <3>4. p # q
      <4>1. p < q /\ p \in DOMAIN runs /\ q \in DOMAIN runs
        BY <1>1, <1>2, <2>2, <3>1 DEF Calling, Nested
      <4> QED
        BY <1>2, <4>1
    <3>5. v # h
      BY <1>4, <3>3, <3>4 DEF VisitsOf
    <3>6. DealtWith(v, s, x)'
      BY <1>2, <1>5, <3>2, <3>5, DealtStays
    <3>7. v = (Max(VisitsOf(stack[k].run)))'
      <4>1. (VisitsOf(stack[k].run))' = VisitsOf(p)
        BY <1>2, <2>2, <3>1 DEF VisitsOf
      <4> QED
        BY <3>1, <4>1 DEF Max
    <3>8. s = stack'[k].attempts + 1
      BY <1>2, <2>2, <3>1
    <3>9. x = Above(k)'
      <4>1. k # m => k + 1 \in 1..m
        BY <1>2, <2>2
      <4>2. k # m + 1
        BY <1>2, <2>2
      <4> QED
        BY <1>1, <1>2, <1>3, <2>2, <3>1, <4>1, <4>2 DEF Above
    <3> QED
      BY <3>6, <3>7, <3>8, <3>9, DealtBelow
  <2> QED
    BY <1>2, <2>1, <2>2
<1> QED
  BY <1>2, <1>6 DEF Dealt, FailedChildHandled

\* What a child ended with is dealt with, or it is the exception that its caller has.
LEMMA DealtAnswered ==
  ASSUME Calling, Dealt, CNext, NEW o, NEW x, Answering(o, x)
  PROVE  Dealt'
<1>1. PICK m, q, p : m = Len(stack) /\ q = run /\ p = stack[m].run
  OBVIOUS
<1>2. /\ m \in Nat \ {0}
      /\ DOMAIN stack = 1..m
      /\ Len(stack') = m - 1
      /\ DOMAIN stack' = 1..m - 1
      /\ \A k \in 1..m - 1 : stack'[k] = stack[k]
      /\ pc' = "invoke"
      /\ run' = p
      /\ attempts' = stack[m].attempts
      /\ o \in RunOutcomes
  BY <1>1, AnswerMade
<1>3. /\ runs \in Seq(RunRecords)
      /\ q \in DOMAIN runs
      /\ runs' = [runs EXCEPT ![q].outcome = o]
      /\ raised' = x
      /\ ended' = Append(ended, q)
      /\ ended \in Seq(2..Len(runs))
      /\ q # 0
  BY <1>1 DEF Answering, Calling, CallsTyped, Nested
<1>4. /\ DOMAIN runs' = DOMAIN runs
      /\ \A r \in DOMAIN runs : /\ SameOrigin(runs'[r], runs[r])
                                /\ runs'[r].outcome = IF r = q THEN o ELSE runs[r].outcome
                                /\ runs'[r].caught = runs[r].caught
  BY <1>2, <1>3, OutcomeSet
<1>5. \A r \in DOMAIN runs : r # q /\ Fine(r) => Fine(r)'
  BY <1>4 DEF Fine, SameOrigin
<1>6. m \in 1..m /\ m \in DOMAIN stack /\ (\A k \in 1..m - 1 : k \in 1..m /\ k # m)
  BY <1>2
<1>7. Above(m) = q /\ runs[q].caller \in VisitsOf(p)
  BY <1>1, <1>6 DEF Above, Calling, Nested
<1>8. x = None => Fine(q)'
  <2>1. ASSUME x = None
        PROVE  o \in {"succeeded", "failed"} /\ (o = "succeeded" \/ ~runs[q].call.failParent)
    BY <1>1, <2>1, CompositionAssumption DEF Answering
  <2> QED
    BY <1>3, <1>4, <2>1 DEF Fine, SameOrigin
<1>9. (DealtWith(Here, attempts + 1, IF raised = None THEN 0 ELSE Last(ended)))'
  <2>1. PICK h, n, y : /\ h = Max(VisitsOf(p))
                       /\ n = stack[m].attempts + 1
                       /\ y = IF raised' = None THEN 0 ELSE Last(ended')
    OBVIOUS
  <2>2. DealtWith(h, n, q)
    BY <1>1, <1>6, <1>7, <2>1 DEF Dealt
  <2>3. y = IF x = None THEN 0 ELSE q
    <3>1. Last(ended') = q
      BY <1>3 DEF Last
    <3> QED
      BY <1>3, <2>1, <3>1
  <2>4. DealtWith(h, n, y)'
    BY <1>3, <1>4, <1>5, <1>8, <2>2, <2>3 DEF DealtWith, SameOrigin
  <2>5. Here' = h
    <3>1. Max(VisitsOf(p))' = h
      BY <1>1, <1>6, <2>1, LastVisitBelow
    <3>2. Here' = Max(VisitsOf(run))'
      BY DEF Here, VisitsOf
    <3>3. (VisitsOf(run))' = VisitsOf(p)'
      BY <1>2 DEF VisitsOf
    <3> QED
      BY <3>1, <3>2, <3>3 DEF Max
  <2>6. n = attempts' + 1
    BY <1>2, <2>1
  <2> QED
    BY <2>1, <2>4, <2>5, <2>6, DealtOnTop
<1>10. ASSUME NEW k \in 1..m - 1
       PROVE  (DealtWith(Max(VisitsOf(stack[k].run)), stack[k].attempts + 1, Above(k)))'
  <2>1. PICK u, v, s, y : /\ u = stack[k].run
                          /\ v = Max(VisitsOf(u))
                          /\ s = stack[k].attempts + 1
                          /\ y = Above(k)
    OBVIOUS
  <2>2. DealtWith(v, s, y) /\ k \in DOMAIN stack
    BY <1>2, <1>6, <2>1 DEF Dealt
  <2>3. v \in VisitsOf(u) /\ VisitsOf(u)' = VisitsOf(u)
    BY <2>1, <2>2, LastVisitBelow
  <2>4. u # p
    <3>1. k < m
      BY <1>2
    <3>2. u < p /\ u \in DOMAIN runs /\ p \in DOMAIN runs
      BY <1>1, <1>6, <2>1, <2>2, <3>1 DEF Calling, Nested
    <3> QED
      BY <1>3, <3>2
  <2>5. runs[q].caller # v
    BY <1>7, <2>3, <2>4 DEF VisitsOf
  <2>6. DealtWith(v, s, y)'
    BY <1>3, <1>4, <1>5, <2>2, <2>5, DealtStays DEF SameOrigin
  <2>7. v = (Max(VisitsOf(stack[k].run)))'
    <3>1. (VisitsOf(stack[k].run))' = VisitsOf(u)
      <4>1. (stack[k].run)' = u
        BY <1>2, <2>1
      <4>2. (VisitsOf(stack[k].run))' = VisitsOf(u)'
        BY <4>1 DEF VisitsOf
      <4> QED
        BY <2>3, <4>2
    <3> QED
      BY <2>1, <3>1 DEF Max
  <2>8. s = stack'[k].attempts + 1
    BY <1>2, <2>1
  <2>9. y = Above(k)'
    <3>1. k + 1 \in 1..m /\ k # m
      BY <1>2
    <3>2. y = stack[k + 1].run
      BY <1>1, <2>1, <3>1 DEF Above
    <3>3. CASE k = m - 1
      <4>1. k + 1 = m
        BY <1>2, <3>3
      <4> QED
        BY <1>1, <1>2, <3>2, <3>3, <4>1 DEF Above
    <3>4. CASE k # m - 1
      <4>1. k + 1 \in 1..m - 1
        BY <1>2, <3>4
      <4> QED
        BY <1>2, <3>2, <3>4, <4>1 DEF Above
    <3> QED
      BY <3>3, <3>4
  <2> QED
    BY <2>6, <2>7, <2>8, <2>9, DealtBelow
<1> QED
  BY <1>2, <1>9, <1>10 DEF Dealt, FailedChildHandled

LEMMA NextDealt ==
  ASSUME Calling, Dealt, [CNext]_cvars
  PROVE  Dealt'
<1>1. CASE UNCHANGED cvars
  BY <1>1
     DEF cvars, calls, registers, vars, Dealt, DealtWith, Fine, Here, VisitsOf, Above,
         FailedChildHandled
<1>2. UNCHANGED calls /\ UNCHANGED vars => UNCHANGED cvars
  BY DEF cvars, registers
<1> QED
  BY <1>1, <1>2, Steps, DealtGoing, DealtEntered, DealtPrepared, DealtElsewhere, DealtCaught,
     DealtCalled, DealtAnswered

LEMMA InitDealt == CInit => Dealt
<1> SUFFICES ASSUME CInit PROVE Dealt
  OBVIOUS
<1>1. pc = "validate" /\ stack = <<>>
  BY DEF CInit, Init
<1> QED
  BY <1>1 DEF Dealt, FailedChildHandled

\* For all instances, calls and hook lists, however deep runs nest and however often steps
\* are tried: a step succeeds only when its last attempt dealt with each of its failed
\* children. (the raise at the end of run_child_workflow, the `except` around _invoke_step)
THEOREM FailedChildrenHandled == CSpec => []FailedChildHandled
<1>1. CInit => Calling /\ Dealt
  BY InitCalling, InitDealt
<1>2. Calling /\ Dealt /\ [CNext]_cvars => (Calling /\ Dealt)'
  BY NextCalling, NextDealt
<1>3. Calling /\ Dealt => FailedChildHandled
  BY DEF Dealt
<1> QED
  BY <1>1, <1>2, <1>3, PTL DEF CSpec

===============================================================================
