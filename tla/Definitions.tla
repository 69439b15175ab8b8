------------------------------ MODULE Definitions ------------------------------
(***************************************************************************)
(* Workflow and step definitions (models.py), their validation             *)
(* (validation/definitions.py), the retry policy (controls/retries.py) and *)
(* the routing rules (controls/routing.py), as pure operators.             *)
(*                                                                         *)
(* A workflow definition is a record                                       *)
(*   [steps, retries, retryOn, retryDelay]                                 *)
(* whose steps are records                                                 *)
(*   [name, methodName, order, method, retries, retryOn, retryDelay,       *)
(*    routes, requiresApproval, approvalMessage, approvalMetadata].        *)
(* method is what getattr finds on the class under methodName: None, or    *)
(* [async, kinds, binds] with the kinds of the parameters of the function  *)
(* and whether an instance binds the first of them (a staticmethod binds   *)
(* none).  routes is None or a function from route keys to route targets.  *)
(*                                                                         *)
(* Steps are numbered from 1 here, from 0 in the code.                     *)
(***************************************************************************)
EXTENDS Integers, Sequences, FiniteSetsExt, Functions

CONSTANTS
  None,          \* Python's None
  END,           \* the END sentinel of a route
  Malformed,     \* any value of a type the field does not admit
  Strings,       \* the non-empty strings: step names, route keys, outputs
  ErrorClasses,  \* the exception classes that can be raised or retried on
  Bases          \* Bases[c]: the classes an instance of c is an instance of

\* The classes the framework raises itself or lets Python raise.
FrameworkErrors ==
  {"WorkflowDefinitionError", "StateValidationError", "RouteResolutionError",
   "ApprovalRequiredError", "HookExecutionError", "ChildWorkflowExecutionError",
   "RuntimeError", "AttributeError"}

ASSUME ErrorAssumption ==
  /\ FrameworkErrors \subseteq ErrorClasses
  /\ Bases \in [ErrorClasses -> SUBSET (ErrorClasses \cup {"Exception", "BaseException"})]
  /\ \A c \in ErrorClasses : {c, "BaseException"} \subseteq Bases[c]
  /\ \A c \in FrameworkErrors : "Exception" \in Bases[c]

ASSUME SentinelAssumption ==
  /\ None \notin Strings \cup {"", END, Malformed}
  /\ END \notin Strings \cup {"", Malformed}
  /\ "" \notin Strings

\* What `except Exception` catches: not KeyboardInterrupt, SystemExit, ...
IsException(c) == "Exception" \in Bases[c]

RetryClasses == ErrorClasses \cup {"Exception", "BaseException"}

\* What an author can write, valid or not.
IsMethod(m) ==
  /\ m.async \in BOOLEAN
  /\ m.binds \in BOOLEAN
  /\ m.kinds \in Seq({"positional", "other"})

IsRoutes(routes) ==
  /\ DOMAIN routes \subseteq Strings \cup {"", Malformed}
  /\ \A k \in DOMAIN routes : routes[k] \in Strings \cup {"", END, None, Malformed}

IsStepDefinition(s) ==
  /\ {s.name, s.methodName} \subseteq Strings \cup {""}
  /\ s.order \in Int
  /\ s.method = None \/ IsMethod(s.method)
  /\ s.retries \in Int \cup {None}
  /\ s.retryOn \in {None, Malformed} \/ s.retryOn \subseteq RetryClasses
  /\ s.retryDelay \in Int \cup {None}
  /\ s.routes = None \/ IsRoutes(s.routes)
  /\ s.requiresApproval \in BOOLEAN \cup {Malformed}
  /\ s.approvalMessage \in Strings \cup {"", None, Malformed}
  /\ s.approvalMetadata \in {"metadata", None, Malformed}

IsWorkflowDefinition(wf) ==
  /\ wf.steps \in Seq(Range(wf.steps))
  /\ \A i \in DOMAIN wf.steps : IsStepDefinition(wf.steps[i])
  /\ wf.retries \in Int
  /\ wf.retryOn \in {None, Malformed} \/ wf.retryOn \subseteq RetryClasses
  /\ wf.retryDelay \in Int

-------------------------------------------------------------------------------
(* Validation. Every check raises the same WorkflowDefinitionError, so the  *)
(* order of the checks is not observable and they are conjuncts.            *)

ReservedNames == {"run"}

ValidMethodSignature(m) ==
  /\ ~m.async
  /\ Len(m.kinds) \in 1..2
  /\ \A p \in DOMAIN m.kinds : m.kinds[p] = "positional"

\* The parameters left once the method is looked up on the instance.
BoundParameters(m) == IF m.binds THEN Len(m.kinds) - 1 ELSE Len(m.kinds)

\* _invoke_step knows methods of no parameter and of one, the context.
IsInvocable(m) == BoundParameters(m) \in 0..1

\* (a mutant) The exception classes of a step are not looked at.
ValidRetryCounts(s) ==
  /\ s.retries # None => s.retries >= 0
  /\ s.retryDelay # None => s.retryDelay >= 0

ValidRetrySettings(s) ==
  /\ s.retries # None => s.retries >= 0
  /\ s.retryOn # Malformed
  /\ s.retryDelay # None => s.retryDelay >= 0

ValidStepDefinition(s) ==
  /\ s.name \notin {""} \cup ReservedNames
  /\ s.methodName \notin {""} \cup ReservedNames
  /\ s.order >= 0
  /\ ValidRetrySettings(s)
  /\ s.requiresApproval \in BOOLEAN
  /\ s.approvalMessage \notin {"", Malformed}
  /\ s.approvalMetadata # Malformed
  /\ s.routes # None =>
       /\ DOMAIN s.routes # {}
       /\ \A k \in DOMAIN s.routes :
            /\ k \notin {"", Malformed}
            /\ s.routes[k] \notin {"", None, Malformed}

\* {step.name: index}: a later step of the same name replaces an earlier one.
StepIndexes(wf) ==
  [n \in {wf.steps[i].name : i \in DOMAIN wf.steps} |->
     Max({i \in DOMAIN wf.steps : wf.steps[i].name = n})]

\* (a mutant) A target may be the step itself or an earlier one.
AnyRouteTargets(wf) ==
  \A i \in DOMAIN wf.steps :
    wf.steps[i].routes # None =>
      \A k \in DOMAIN wf.steps[i].routes :
        wf.steps[i].routes[k] \in {END} \cup DOMAIN StepIndexes(wf)

ValidRouteTargets(wf) ==
  \A i \in DOMAIN wf.steps :
    wf.steps[i].routes # None =>
      \A k \in DOMAIN wf.steps[i].routes :
        LET target == wf.steps[i].routes[k]
        IN  \/ target = END
            \/ /\ target \in DOMAIN StepIndexes(wf)
               /\ StepIndexes(wf)[target] > i

\* (a mutant) Only a repetition of the step just before is seen.
NeighboursDiffer(wf) ==
  \A i, j \in DOMAIN wf.steps : wf.steps[i].name = wf.steps[j].name => i = j \/ j # i + 1

NamesDiffer(wf) ==
  \A i, j \in DOMAIN wf.steps : wf.steps[i].name = wf.steps[j].name => i = j

ValidWorkflowDefinition(wf) ==
  /\ wf.steps # <<>>
  /\ wf.retries >= 0
  /\ wf.retryOn \notin {None, Malformed}
  /\ wf.retryDelay >= 0
  /\ \A i \in DOMAIN wf.steps : ValidStepDefinition(wf.steps[i])
  /\ NamesDiffer(wf)
  /\ ValidRouteTargets(wf)

-------------------------------------------------------------------------------
(* Retries.                                                                 *)

\* (a mutant) A setting that Python takes for false is taken for none.
FalsyIsAbsent(wf, s) ==
  [retries |-> IF s.retries \in {None, 0} THEN wf.retries ELSE s.retries,
   retryOn |-> IF s.retryOn \in {None, {}} THEN wf.retryOn ELSE s.retryOn]

RetryPolicy(wf, s) ==
  [retries |-> IF s.retries = None THEN wf.retries ELSE s.retries,
   retryOn |-> IF s.retryOn = None THEN wf.retryOn ELSE s.retryOn]

\* (a mutant) The first attempt counts as a retry.
ShouldRetryOnceLess(policy, class, attempt) ==
  /\ attempt < policy.retries
  /\ policy.retryOn \cap Bases[class] # {}

\* isinstance(error, ()) is False: an empty retry_on retries nothing.
ShouldRetry(policy, class, attempt) ==
  /\ attempt <= policy.retries
  /\ policy.retryOn \cap Bases[class] # {}

-------------------------------------------------------------------------------
(* Routing. Results and route decisions name a step by its index: the names *)
(* of a validated definition are distinct.                                  *)

\* (a mutant) Only a workflow whose first step routes counts as routed.
FirstStepRoutes(wf) == wf.steps # <<>> /\ wf.steps[1].routes # None

UsesRoutes(wf) == \E i \in DOMAIN wf.steps : wf.steps[i].routes # None

RouteResolves(s, output) ==
  s.routes = None \/ (output \in Strings /\ output \in DOMAIN s.routes)

\* The decision of a routed step whose output resolves.
RouteDecision(wf, i, output) ==
  LET target == wf.steps[i].routes[output]
  IN  [step  |-> i,
       key   |-> output,
       next  |-> IF target = END THEN None ELSE StepIndexes(wf)[target],
       ended |-> target = END]

SkippedResult(i, reason) ==
  [step |-> i, status |-> "skipped", attempts |-> 0, output |-> None,
   error |-> None, route |-> None, decision |-> None, reason |-> reason]

ResultOf(results, i) ==
  results[CHOOSE k \in DOMAIN results : results[k].step = i]

\* executed is a dict in insertion order: a sequence of results of distinct steps.
FinalizeStepResults(wf, executed, reason) ==
  IF ~UsesRoutes(wf)
  THEN executed
  ELSE [i \in DOMAIN wf.steps |->
          IF \E k \in DOMAIN executed : executed[k].step = i
          THEN ResultOf(executed, i)
          ELSE SkippedResult(i, reason)]
===============================================================================
