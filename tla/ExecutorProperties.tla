--------------------------- MODULE ExecutorProperties ---------------------------
(* What a run of the executor guarantees, and what is said of it but not so. *)
EXTENDS Executor, SequencesExt

-------------------------------------------------------------------------------
(* Types.                                                                   *)

Places ==
  {"validate", "workflowStarted", "loop", "stepStarted", "approve", "invoke",
   "stepFinished", "buildResult", "workflowFinished", "return", "done"}

Errors == [class : ErrorClasses, at : Places \cup {"route"}]

RouteDecisions == [step : Nat, key : Strings, next : Nat \cup {None}, ended : BOOLEAN]

Decisions == {None, "approved", "denied"}

StepResults ==
  [step     : Nat,
   status   : {"succeeded", "failed", "skipped"},
   attempts : Nat,
   output   : Outputs \cup {None},
   error    : Errors \cup {None},
   route    : RouteDecisions \cup {None},
   decision : Decisions,
   reason   : {None, "workflow_ended", "workflow_failed"}]

WorkflowResults ==
  [status : {"succeeded", "failed"},
   steps  : Seq(StepResults),
   error  : Errors \cup {None},
   trace  : Seq(RouteDecisions)]

\* The outcome of an attempt tells whether it raised.
ASSUME OutcomeAssumption == "returned" \notin ErrorClasses

EventKinds == {"WorkflowStarted", "StepStarted", "StepFinished", "WorkflowFinished"}

Entry ==
  [kind    : EventKinds \cup {"approve", "invoke", "interrupt"},
   step    : Nat,
   count   : Nat,
   outcome : {"running", "approved", "denied", "returned", "succeeded", "failed"} \cup ErrorClasses]

Boundaries ==
  [how : {"returned", "raised", "escaped"}, step : Nat, cause : Errors \cup {None}]

\* None is a value of its own, no record.
ASSUME NoneAssumption ==
  /\ None \notin Errors
  /\ None \notin RouteDecisions
  /\ None \notin StepResults
  /\ None \notin WorkflowResults
  /\ None \notin Boundaries

\* Types: the variables hold what the code's annotations say they hold, and the
\* result that is returned carries the error and the trace of the run.
TypeOK ==
  /\ wf \in Workflows
  /\ arguments \in Arguments
  /\ pc \in Places
  /\ current \in Nat \ {0}
  /\ attempts \in Nat
  /\ decision \in Decisions
  /\ stepResult \in StepResults \cup {None}
  /\ executed \in Seq(StepResults)
  /\ trace \in Seq(RouteDecisions)
  /\ workflowError \in Errors \cup {None}
  /\ result \in WorkflowResults \cup {None}
  /\ result # None => result.error = workflowError
  /\ boundary \in Boundaries \cup {None}
  /\ log \in Seq(Entry)

-------------------------------------------------------------------------------
(* The history, read.                                                       *)

\* The entries of the events the first hook was called with.
Seen == {k \in DOMAIN log : log[k].kind \in EventKinds /\ log[k].count >= 1}

\* Whether the first hook may see the event e next after the event before.
MayFollow(e, before) ==
  \/ /\ e.kind = "StepStarted"
     /\ \/ before.kind = "WorkflowStarted"
        \/ before.kind = "StepFinished" /\ before.outcome = "succeeded" /\ before.step < e.step
  \/ e.kind = "StepFinished" /\ before.kind = "StepStarted" /\ before.step = e.step
  \/ /\ e.kind = "WorkflowFinished"
     /\ \/ before.kind = "StepFinished"
        \/ before.kind = "StepStarted" /\ Last(executed).error = HookError("stepStarted")

\* What an author means: a setting of the step, 0 and () included, goes before the
\* workflow's.
OwnOr(own, default) == IF own # None THEN own ELSE default

Policy(i) ==
  [retries |-> OwnOr(wf.steps[i].retries, wf.retries),
   retryOn |-> OwnOr(wf.steps[i].retryOn, wf.retryOn)]

Retryable(i, class) == Policy(i).retryOn \cap Bases[class] # {}

Escaped == boundary # None /\ boundary.how = "escaped"

\* Whether a step is being visited, or was when an exception left the run.
InVisit ==
  LET at == IF Escaped THEN boundary.cause.at ELSE pc
  IN  at \in {"stepStarted", "approve", "invoke", "stepFinished"}

-------------------------------------------------------------------------------
(* Safety.                                                                  *)

\* The first hook sees the run as WorkflowStarted, then one StepStarted and one
\* StepFinished for every visit, in the order of the steps and only after a success,
\* then WorkflowFinished and nothing more; a visit whose StepStarted hook fails has no
\* StepFinished. (emit_hooks and its call sites in run)
EventOrder ==
  LET seen == Seen IN
  /\ \A k \in seen : (\A j \in seen : k <= j) => log[k].kind = "WorkflowStarted"
  /\ \A j, k \in seen :
       j < k /\ (\A m \in seen : m <= j \/ k <= m) => MayFollow(log[k], log[j])

\* A hook misses an event only when a hook before it failed on that event, and
\* then the run calls no more user code than the WorkflowFinished hooks. (emit_hooks
\* raises out of its loop; every handler of its error leaves the step loop)
MissedEventEndsTheRun ==
  \A k \in DOMAIN log :
    log[k].kind \in EventKinds /\ log[k].count < NumHooks =>
      \A j \in k + 1..Len(log) : log[j].kind \in {"WorkflowFinished", "interrupt"}

\* Fail-fast: once the run has failed it starts no step, asks for no approval,
\* invokes nothing, and its recorded results and its route trace stay.
KeepsFailure ==
  workflowError # None =>
    /\ UNCHANGED <<current, executed, trace>>
    /\ workflowError' # None
    /\ log' = log \/ Last(log').kind \in {"WorkflowFinished", "interrupt"}

NothingRunsAfterFailure == [][KeepsFailure]_vars

\* The entries of one kind about one step.
Logged(kind, i) == {k \in DOMAIN log : log[k].kind = kind /\ log[k].step = i}

\* A step that requires approval is invoked only after its handler approved, is
\* asked for once however often it is retried, and fails with no attempt otherwise;
\* no other step is asked for. (run's approval block before the retry loop)
ApprovalGuardsInvocation ==
  /\ \A i \in DOMAIN wf.steps :
       /\ wf.steps[i].requiresApproval =>
            \A k \in Logged("invoke", i) :
              \E j \in Logged("approve", i) : j < k /\ log[j].outcome = "approved"
       /\ \A j, k \in Logged("approve", i) : wf.steps[i].requiresApproval /\ j = k
  /\ \A k \in DOMAIN executed :
       LET r == executed[k]
       IN  wf.steps[r.step].requiresApproval /\ r.decision # "approved" =>
             r.status = "failed" /\ r.attempts = 0

\* A step is attempted again exactly when its last attempt raised an exception of
\* its effective retry_on and attempts were left, where a step's own 0 or () counts as
\* given: attempts are numbered from 1, each
\* but the first follows one that raised a retryable exception, and a step fails by a
\* retryable one only when all its retries were used. (the retry loop, should_retry)
RetriesFollowPolicy ==
  /\ \A i \in DOMAIN wf.steps :
       LET tries == Logged("invoke", i) IN
       /\ \A j, k \in tries : j < k => log[j].count < log[k].count
       /\ \A k \in tries :
            /\ log[k].count \in 1..Policy(i).retries + 1
            /\ log[k].count > 1 =>
                 \E j \in tries : /\ log[j].count = log[k].count - 1
                                  /\ log[j].outcome # "returned"
                                  /\ Retryable(i, log[j].outcome)
  /\ \A k \in DOMAIN executed :
       LET r == executed[k] IN
       r.error # None /\ r.error.at = "invoke" /\ Retryable(r.step, r.error.class) =>
         r.attempts = Policy(r.step).retries + 1

\* The result accounts for everything that ran: its steps are in declaration order,
\* exactly the visited ones are not skipped, each counts the attempts that were made,
\* and a routed workflow lists all of its steps. (finalize_step_results)
ResultAccountsForTheRun ==
  result # None /\ result.error # HookError("workflowStarted") =>
    /\ \A j, k \in DOMAIN result.steps : j < k => result.steps[j].step < result.steps[k].step
    /\ \A i \in DOMAIN wf.steps :
         /\ Logged("StepStarted", i) # {} =>
              \E k \in DOMAIN result.steps : result.steps[k].step = i
         /\ (\E j \in DOMAIN wf.steps : wf.steps[j].routes # None) =>
              i \in DOMAIN result.steps /\ result.steps[i].step = i
    /\ \A k \in DOMAIN result.steps :
         LET r == result.steps[k] IN
         /\ r.status = "skipped" <=> Logged("StepStarted", r.step) = {}
         /\ {log[j].count : j \in Logged("invoke", r.step)} = 1..r.attempts

\* The route trace explains the path: it holds the decision of every routed step
\* that returned a known key and no other, in the order of the steps, and each visited
\* step is the one the decision before it, or the declaration order, leads to.
\* (resolve_route_decision, the advance at the end of the loop body)
TraceExplainsPath ==
  /\ \A j, k \in DOMAIN trace : j < k => trace[j].step < trace[k].step
  /\ Range(trace) =
       ({executed[k].route : k \in DOMAIN executed}
          \cup (IF InVisit /\ stepResult # None THEN {stepResult.route} ELSE {})) \ {None}
  /\ \A k \in DOMAIN executed :
       LET before == IF k = 1 THEN None ELSE executed[k-1] IN
       executed[k].step =
         IF k = 1 THEN 1
         ELSE IF before.route = None THEN before.step + 1 ELSE before.route.next

\* A run reports failure with the failure: failed means an error, at most one step
\* failed, it is the last visited, and its error is the run's, unless the hooks of
\* WorkflowFinished failed later; with no failed step only hooks can fail the run.
OutcomeConsistent ==
  result # None =>
    LET failed == {k \in DOMAIN result.steps : result.steps[k].status = "failed"} IN
    /\ result.status = "failed" <=> result.error # None
    /\ \A k \in DOMAIN result.steps : k \in failed <=> result.steps[k].error # None
    /\ Cardinality(failed) <= 1
    /\ \A k \in failed : /\ result.steps[k] = Last(executed)
                         /\ result.error \in {result.steps[k].error, HookError("workflowFinished")}
    /\ failed = {} => result.error \in {None, HookError("workflowStarted"),
                                        HookError("workflowFinished")}

\* raise_on_failure decides only how a failure leaves run: it is raised exactly when
\* it was asked for, for the failed step of the result and with the result's error
\* as its cause; without it run returns. (the end of run)
BoundaryTellsTheOutcome ==
  boundary # None /\ ~Escaped =>
    /\ boundary.how = "raised" <=> arguments.raiseOnFailure /\ result.status = "failed"
    /\ boundary.how = "raised" =>
         /\ boundary.cause = result.error
         /\ boundary.step =
              IF executed # <<>> /\ Last(executed).status = "failed"
              THEN Last(executed).step ELSE 0

\* An Exception leaves run as one only when it rejects something: the input, before any
\* user code was called, or the method of the next step, when every step so far has
\* succeeded and the hooks have been told. What a hook, a handler or a step raises does
\* not, nor what _invoke_step raises for a method it cannot call: these become results.
\* (the try blocks of run, and the two checks outside of them)
ExceptionsBecomeResults ==
  Escaped /\ IsException(boundary.cause.class) =>
    \/ log = <<>>
    \/ /\ ~Usable(wf.steps[current].method)
       /\ \A k \in DOMAIN executed : executed[k].status = "succeeded"
       /\ log[Len(log)].kind = IF executed = <<>> THEN "WorkflowStarted" ELSE "StepFinished"
       /\ log[Len(log)].count = NumHooks

-------------------------------------------------------------------------------
(* Progress.                                                                *)

Rank(place) ==
  CASE place = "validate"         -> 1
    [] place = "workflowStarted"  -> 2
    [] place = "loop"             -> 3
    [] place = "stepStarted"      -> 4
    [] place = "approve"          -> 5
    [] place = "invoke"           -> 6
    [] place = "stepFinished"     -> 7
    [] place = "buildResult"      -> 8
    [] place = "workflowFinished" -> 9
    [] place = "return"           -> 10
    [] OTHER                      -> 11

\* Every step of the run moves to a later step of the workflow, or on in the body at
\* the same step, or uses up a retry: the loops of run cannot go on for ever.
Progresses ==
  \/ current < current' /\ current' <= Len(wf.steps) + 1
  \/ current = current' /\ Rank(pc) < Rank(pc')
  \/ /\ current = current' /\ pc = "invoke" /\ pc' = "invoke"
     /\ attempts < attempts' /\ attempts' <= Policy(current).retries

EveryStepProgresses == [][Progresses]_vars

\* A run ends, whatever the user code it calls returns or raises.
Terminates == <>(pc = "done")

-------------------------------------------------------------------------------
(* The run as a walk over the exported graph.                               *)

Path == [k \in DOMAIN executed |-> executed[k].step] \o (IF InVisit THEN <<current>> ELSE <<>>)

StatusOf(i) ==
  IF \E k \in DOMAIN executed : executed[k].step = i
  THEN ResultOf(executed, i).status
  ELSE IF InVisit /\ i = current THEN "running"
  ELSE IF pc = "done" /\ ~Escaped THEN "skipped" ELSE "pending"

Outcome ==
  IF Escaped THEN "aborted"
  ELSE IF pc = "validate" THEN "pending"
  ELSE IF pc = "done" THEN result.status ELSE "running"

Walk == INSTANCE WorkflowWalk
          WITH path <- Path, status <- [i \in DOMAIN wf.steps |-> StatusOf(i)], outcome <- Outcome

\* The executor implements the walk: it visits steps only along the edges that
\* export_workflow_graph shows, one result each, and ends only where the graph does.
WalksTheGraph == Walk!Spec

-------------------------------------------------------------------------------
(* What the documentation says and the code does not do.                    *)

\* docs/guides/workflow-hooks.md: "StepFinishedEvent.result is the final StepResult
\* for that step." A hook that fails on the event makes the result that the hooks
\* before it were given obsolete (count = 1: the first hook itself failed).
HooksSeeTheFinalResult ==
  result # None =>
    \A k \in DOMAIN log : log[k].kind = "StepFinished" /\ log[k].count > 1 =>
      ResultOf(executed, log[k].step).status = log[k].outcome

\* docs/architecture/runtime.md: "Before any step runs, the executor validates ...
\* each step signature". It does so only when the loop reaches the step.
SignaturesValidatedFirst ==
  \A k \in DOMAIN log : log[k].kind = "invoke" =>
    \A i \in DOMAIN wf.steps :
      wf.steps[i].method # None /\ ValidMethodSignature(wf.steps[i].method)

\* docs/architecture/runtime.md: with raise_on_failure "the original underlying
\* exception is preserved as the cause". The error that names a failed step carries
\* the error of the WorkflowFinished hook when that fails too.
CauseIsTheStepError ==
  boundary # None /\ boundary.how = "raised" /\ boundary.step # 0 =>
    boundary.cause = ResultOf(executed, boundary.step).error
===============================================================================
