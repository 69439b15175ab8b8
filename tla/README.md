# TLA+ models of agentflow

This directory specifies the agentflow library (`src/src/agentflow`) in TLA+,
model-checks it with TLC and proves its safety properties with TLAPS. Paths below are
relative to `src/src/agentflow` unless they start with `docs/`.

## The system

agentflow runs *workflows*: classes whose decorated methods are steps. A run is
one synchronous call, `instance.run(state, ...)`, on the caller's thread. There
is no persistence, no thread and no queue. What makes it hard is that the body of
the run calls *user code* at every turn (hooks, an approval handler, the steps
themselves), that each of these may return anything or raise anything, and that
the run promises a result that explains what happened, whatever they do.

| Component | Code | State | Operations |
|---|---|---|---|
| Definitions and validation | `models.py`, `validation/definitions.py` | none: definitions are values | validate a definition, a step, a signature, the route targets |
| Executor | `runtime/executor.py`, `runtime/invocation.py` | locals of `run`: current index, attempts, executed results, route trace, workflow error, result | `run`, `record_step_result`, `_raise_workflow_execution_error` |
| Hooks | `controls/hooks.py` | the caller's list of hooks | `emit_hooks` |
| Approvals | `controls/approvals.py` | the caller's handler | `request_step_approval`, `normalize_approval_decision` |
| Retries | `controls/retries.py` | none | `resolve_retry_policy`, `should_retry`, `sleep_for_retry` |
| Routing | `controls/routing.py` | none | `resolve_route_decision`, `finalize_step_results` |
| Graph inspection | `inspection/graph.py` | none | `export_workflow_graph`, `to_mermaid` |
| Composition | `RunContext.run_child` (`models.py`), `_build_child_workflow_runner` | `child_workflows` of a step visit, the `state` attribute of an instance | run a child inside a step |
| Decorators | `decorators.py` | metadata on functions and classes, class namespaces | `@step`, `@workflow` |
| Times | `_utc_now`, `_duration_ms` | started/finished fields of results | read the clock |

How they interact. `@workflow` leaves a definition on the class. `run` validates
it (validation), emits events (hooks) between its own steps, asks the handler
before a gated step (approvals), calls the method in a loop (retries), resolves
the output to the next step (routing), records a result, and at the end fills in
the steps it did not visit. `export_workflow_graph` reads the same definition and
derives the moves anew, without the executor. A step may start a child run through
its context; the child is a whole `run` inside the parent's step.

What is hard, and what makes each part correct:

* *Failure between steps.* A hook may fail on each of four events, before or after
  other hooks got it. The run must stop, must record the failure once, and must not
  overwrite what it recorded. Four separate `except` blocks implement this.
* *Fail-fast.* Six places in the loop body set `workflow_error`; all must leave the
  outer loop.
* *Order.* Approval before the first attempt and once per visit; the trace before
  the hooks; results in declaration order although they are recorded in visit order.
* *Boundaries.* `attempt > retries`, `target_index <= source_index`, empty routes,
  empty `retry_on`.
* *Termination.* Two nested loops whose exit depends on validation having rejected
  backward routes.
* *Runs inside runs.* A child run starts in the middle of its parent's step, shares the
  caller's objects with it (handlers, hooks, the workflow instance and its `state`),
  and ends by a result, by an exception, or by both.
* *Objects that outlive their use.* A context that a step kept still runs children;
  a result that a hook was given is changed later.
* *Authoring order.* Python binds, rebinds, aliases and inherits names before and
  after a class is decorated; the steps of the workflow depend on all of it.
* *The clock* is the wall clock, which may be set back between two readings, and a
  duration goes through a float.
* *Agreement.* Executor, graph export and result each derive "what comes next" on
  their own and must agree.

The full list, with lines, is `hazards` in `PROJECT.json`.

## Modules

| Module | What it is |
|---|---|
| `Definitions` | Definitions as records, their validation, the retry policy, routing and `finalize_step_results`, as operators. |
| `Graph` | The exported graph as a set of nodes and a set of edges. |
| `Inspection` | One call of `export_workflow_graph`, and the properties relating the graph to the executor's moves. |
| `Mermaid` | `to_mermaid` of the exported graph, and what a reader of the chart sees. Composes with `Inspection`. |
| `Executor` | One call of `WorkflowExecutor.run`. |
| `ExecutorProperties` | What that call guarantees; the walk it implements; what the documentation says and the code does not do. |
| `WorkflowWalk` | The abstract specification of a run: a walk over the exported graph that stops at the first failure. |
| `Composition` | Runs inside of the steps of runs: a stack of `Executor` runs and what they share. |
| `CompositionProperties` | What those guarantee, and that the outermost is a run of `Executor`. |
| `Times` | `Executor` beside a clock: every reading of it and the times of every result. |
| `Decorators` | `@step` and `@workflow` on functions and class namespaces. |
| `MCExecutor`, `MCInspection`, `MCComposition`, `MCTimes`, `MCDecorators` | Small instances for TLC. |
| `DefinitionProofs`, `InspectionProofs` | Proofs about definitions, the exported graph and its chart. |
| `ExecutorProofs`, `HistoryProofs`, `WalkProofs` | Proofs about a run: its types and its result, its history, the path it takes. Each rests on the invariants of the one before. |
| `CompositionProofs` | The outermost run of a composition is a run of `Executor`; what holds of the runs inside of it. |
| `TimesProofs`, `DecoratorsProofs` | Proofs about the times of a run and about what the decorators collect. |

### Definitions and the executor

A step is named by its index, from 1. A definition holds what an author can write,
valid or not: `None`, negative counts, malformed values, empty names, any routes.
`method` is what `getattr` finds on the class: `None`, or whether it is a coroutine
function, the kinds of its parameters, and whether the instance binds the first
(a `staticmethod` binds none: `BoundParameters`, which is what `_invoke_step` counts).
What an attribute of the instance does to the lookup is in `Decorators`.

`Executor`'s `pc` is the place in `run`'s body. The local variables of the code are
variables of the module: `current` (`current_step_index`), `attempts`, `decision`
(`approval_decision`), `stepResult` (the `StepResult` being recorded), `executed`
(`executed_results`, a dict in insertion order), `trace` (`route_trace`),
`workflowError`, `result`. `boundary` is how `run` ended: it returned, raised
`WorkflowExecutionError`, or an exception escaped. `log` is a history variable: every
call of user code with its outcome, and for an event how many hooks it reached.

| Action | Code (`runtime/executor.py`) |
|---|---|
| `RejectInput`, `AcceptInput` | metadata, definition and state checks, 73-83 |
| `WorkflowStarted`, `WorkflowStartedHookFails` | 91-120, with the early return |
| `LeaveLoop`, `RejectMethod`, `EnterStep` | loop head, method lookup and signature, 162-180 |
| `StepStarted`, `StepStartedHookFails` | 182-208 |
| `Approve`, `ApprovalFails` | 210-257: approved; denied, raised, no decision, no handler |
| `InvokeReturns`, `InvokeRaises` | one attempt, 259-340, with the route resolved or the retry decided |
| `StepFinished`, `StepFinishedHookFails` | `record_step_result` 131-160 with the advance 341-359 |
| `BuildResult` | 361-385 |
| `WorkflowFinished`, `WorkflowFinishedHookFails` | 387-406 |
| `Return` | 408-415 and `_raise_workflow_execution_error` |
| `Interrupt` | an exception that `except Exception` does not catch, from any user code |

`_HookFails` actions choose which hook fails; the ones before it were given the
event, the ones behind it are not. The approval's answers and the method's answers
are chosen from `Outputs` and `Raised`. The parts of an action that run without
calling user code are one step, since nothing can observe them in between.

### Composition

A child run is a call of `run` from inside of a step method, on the same thread, so the
runs in progress form a stack. The variables of `Executor` are the registers of the run
on top, and `Executor`'s actions, unchanged, are its steps; `stack` holds the saved
registers of the runs below, each in its call of the step method. `run`, `runs` and
`visits` number the runs and the visits of steps: a visit keeps what its runner captured
(the handler and the hooks in effect, the list `child_workflows`) and whether the step
was handed its context. `state` is the instance attribute of that name.

| Action | Code |
|---|---|
| `Begins`, `Enters`, `Prepares`, `MethodReturns`, `CodeRaises`, `BuildsResult`, `GoesOn` | `Executor`'s actions, with the assignment of `state` (83), the runner made at 172-180, the context handed to a method with a parameter, the state read at the end (370) |
| `RunChild` | `run_child` (`models.py:86`) and the call in `run_child_workflow` (460-468); any context that was handed out may be asked, by any step that runs |
| `ChildReturns` | 469-475: the result is appended, and `ChildWorkflowExecutionError` is raised when the child failed and was to fail its parent |
| `ChildRaises` | an exception that leaves the child's run passes the runner by |
| `Catch` | the step method catches what a child call raised (external: user code) |

A call is one of `Calls`: an instance, a valid or invalid state, `fail_parent`, a
handler and a list of hooks or `None`. Two calls may name one instance.

### Times, decorators, charts

`Times` adds a reading of the clock to the actions of `Executor` that call `_utc_now`
(`Accepts`, `Enters`, `EndsVisit`, `FailsVisit`, `EndsRun`); `GoesOn` and `Records` read
none. Every reading is any time up to `MaxClock`, later or earlier than the last.
`DurationMs` is `int(total_seconds() * 1000)` as floats compute it. A whole number of
milliseconds may come out one less: 1.001 s give 1000.9999999999999 and so 1000, 1.002 s
give 1002. The constant `Short` holds the numbers that do. Every other span is cut off to
whole milliseconds exactly, since the error of the product is less than the clock's
microsecond for spans of up to 2^52 of them, 142 years.

`Decorators` has one action for each thing an author does: `DecorateStep` (`@step` leaves
a definition on a function), `Bind` (a name of a class is bound to a function: in the
class body, as an alias, by `setattr`), `DecorateWorkflow` (`@workflow` collects the
decorated functions of the class's own namespace, numbers them, and binds `run` unless
the class does). A namespace is a sequence of names and values, since a dict keeps the
place of a name that is bound again; `LookUp` and `DefinitionOf` are attribute lookup
along the classes of `Mro`, which gives each class its `__mro__`. The method that is
called is looked up on the instance (`BoundMethod`), whose own attributes, the constant
`Instance`, go first: `state`, which `run` has assigned by then, and what the author set.

In `Mermaid` a text is a sequence of the characters that matter to the escaping
(backslash, quote, newline, bar, `n`, another); arrows, ids and brackets stand for
themselves. `Unescape` and `Delimiters` are a reader of the chart, written from what a
backslash means and not from the code.

Mutated definitions (a dropped guard, an off-by-one) stand next to the operator they
alter, marked "(a mutant)"; `PROJECT.json` says which property each one breaks.

## Runs

| Run | Configuration | Shows |
|---|---|---|
| `executor` | `MCExecutor.cfg` | types, event order, fail-fast, approvals, retries, the result, the trace, the boundary, that no other exception than a rejection leaves the run, progress; that a run is a walk over the exported graph (`WalksTheGraph`); that it ends (`Terminates`) |
| `inspection` | `MCInspection.cfg` | the exported graph against the executor's moves; what validation accepts; that the chart reads back as the graph |
| `composition` | `MCComposition.cfg` | children recorded once and in order, failed children dealt with, handlers and hooks inherited along contexts, whose state a result carries, and that the outermost run is one of `Executor`'s (`RootIsARun`) |
| `decorators` | `MCDecorators.cfg` | no function becomes two steps of an accepted workflow; steps are the class's own and keep the places of their names; a step runs the function it was collected from, unless something was bound over it or the instance has an attribute of that name |
| `times` | `MCTimes.cfg` | durations agree with times, up to a millisecond, and are never negative; visits lie in the run while the clock is not set back, and their durations add up to no more than its time |
| `final_result`, `signatures`, `cause`, `child_lost`, `kept_context`, `reserved`, `shadowed` | `MCFinalResult.cfg`, ... | a sentence of the documentation or of a message that the code does not keep |

### Bounds

* `executor`: workflows have one to three steps. A step's behaviour depends on its own
  definition, on what came before only through `workflowError` and `current`, and on
  routes to later steps; three steps are the fewest with a step that is skipped between
  two that run, and with two routes that differ. Retries are 0 or 1: a first attempt, a
  retry, and a refusal (the count is compared with one bound, and `RetriesFollowPolicy`
  states the bound itself). `HookCounts = {2}`: two hooks are the fewest where one got an
  event and another did not; either may be the one that fails. Raised classes: one that
  is retried, one that is not, and one that `except Exception` does not catch. Outputs
  are a known key, an unknown one that is a key elsewhere, and a non-string.
  `MCWorkflows` puts each feature of a step first and next to each other, and adds
  invalid definitions. The theorems below lift these bounds.
* `inspection`: every step of three takes each routing to the others, itself, an unknown
  name and END, with and without a duplicate name; a single step takes each defect the
  validation knows. Texts are all up to two of five characters, and those of three that
  begin with a backslash: one replacement after another can go wrong only in an escape
  that stands next to a character to be escaped.
* `composition`: `MaxRuns = 3` runs, enough for a child and a grandchild, two children
  of one step, and one in each of two attempts. The parent retries; children succeed,
  fail, raise after a step has run, are rejected, and may be the parent itself, on its own
  instance. One hook or none, so that an empty list of hooks differs from no list.
* `decorators`: a class and one derived from it, two functions, one of which can be given
  the name of the other. Two functions are enough to collide, two classes to inherit.
  `shadowed` and `reserved` bind one function called `state` or `run`.
* `times`: `TicksPerMs = 2`, `Short = {2}` and `MaxClock = 4`: spans with and without a
  remainder, and runs of two milliseconds that come out as one beside two visits of one
  each. A step that is approved and retried and one that routes, so that every reading of
  the clock is taken; one class of exceptions, since no reading depends on the class.

`MaxRuns` and `MaxClock` are the only bounds that are not the code's own; nothing else
grows. *Deadlock* is checked in every run: `Done` and `AllDone` stutter after the end.

### Fairness

`Spec` claims none. `FairSpec`, used by `executor`, adds `WF_vars(Next)`: the body is
sequential code on one thread that waits for nothing but the user code it calls, so it
goes on as long as that code returns or raises. A hook that hangs hangs the run; that is
the caller's and is not claimed. `Terminates` is checked under it.

### What the code does not do as documented

* `HooksSeeTheFinalResult` (run `final_result`): `docs/guides/workflow-hooks.md:66`
  calls the event's result final. When a later hook fails on the event, the executor
  records a failed copy; the earlier hooks hold a succeeded one.
* `SignaturesValidatedFirst` (`signatures`): `docs/architecture/runtime.md:92`
  says signatures are validated before any step runs; they are when the loop gets there.
* `CauseIsTheStepError` (`cause`): `docs/architecture/runtime.md:296` says the
  original exception is the cause; a WorkflowFinished hook that fails replaces it.
* `FailedChildIsAvailable` (`child_lost`): `docs/guides/workflow-composition.md:82` says
  the result of a failed child is still available. A child that runs a step and then
  finds the next one's method unusable raises, and leaves no result.
* `ChildrenRunInActiveSteps` (`kept_context`): the message at `models.py:112` says that
  children run only from an active step. A context that a step kept runs them later, and
  they are appended to the result of the step that was over.
* `ReservedNameIsRejected` (`reserved`): `docs/architecture/overview.md:87` lists `run`
  as a name that validation rejects. A step method called `run` takes the place of the
  `run` that would have validated.
* `StepMethodsAreBound` (`shadowed`): `docs/architecture/runtime.md:118` says that for
  each step the executor "resolves the bound method". For a step method called `state`,
  which validation accepts, it resolves the state of the run.

One more divergence has no run of its own. `docs/architecture/runtime.md:189` says that
unvisited steps of branching workflows are skipped results; a WorkflowStarted hook that
fails ends the run with a result without steps, which `ResultAccountsForTheRun` excepts.

Four more things the models show that no sentence contradicts. A child run on an instance
that is already running leaves its own state in the instance, and the parent's result
carries it (`StateIsOfAnAcceptedRun` says which states are possible). A step method that is
bound again after a new one keeps the place it had first. With the clock set back,
`finished_at` lies before `started_at` beside a duration of 0. Steps of 1.000 s and 0.001 s
in a run of 1.001 s are reported as 1000 ms and 1 ms, the run as 1000 ms.

## Proofs

All proofs are for every set of workflows, of any length, any number of hooks, any
outputs and any exception classes; those about compositions for any instances, calls and
depth of nesting; those about times for any clock; those about decorators for any classes,
hierarchies and functions; those about charts for names of any length. They rest on the named assumptions of the modules:

* `ErrorAssumption`: the framework's exception classes exist and are `Exception`s, and
  every class is an instance of itself; `OutcomeAssumption`: an attempt that returned is
  told from one that raised; `EndingAssumption`: so is a run that ended by a result;
* `SentinelAssumption`, `NoneAssumption`, `GraphAssumption`: `None`, `END` and the empty
  string are values of their own, no records and no indexes;
* `ExecutorAssumption`, `InspectionAssumption`, `CompositionAssumption`,
  `TimesAssumption`, `DecoratorsAssumption`: the constants hold what an author or a caller
  can write, `None` is neither a number nor a time nor a class, and the options given to a
  decorator are those it has;
* `MermaidAssumption`, `IdAssumption`: a name is spelled with characters, and the id of a
  node (`step_<i>`, `end_0`) is a piece of its own and no character of a text.

TLC evaluates all of them on the instances.

* `DefinitionProofs`: names identify steps (`NamesIdentify`), a route decision ends
  the run or leads to a later step (`RoutesLeadForward`), the effective policy has a
  number of retries (`PolicyIsBounded`). All three need validation's checks: the first
  the duplicate check, the second the forward check, the third both levels' counts.
* `InspectionProofs`: only valid definitions are exported, hence
  `NamesIdentifyAlways`, `AcceptedIsRunnableAlways`, and `GraphShowsEveryMoveAlways`,
  which computes the edges out of a routed step and of an unrouted one and compares
  them with `RouteDecision`; `GraphIsClosedAlways`; and `GraphIsAcyclicAlways`: every
  edge leads forward, so on a walk of n + 1 steps the least place that holds a number
  less than its own would have one before it.
  The chart: what each replacement makes of a text with one more character is what it made
  of the text, followed by one piece or two (`ReplaceAppend`); hence what all of them make
  (`EscapeTextAppend`, `EscapeKeyAppend`), and here the order of the replacements is used:
  no later one finds what an earlier one put in. The reader in turn reads one more piece by
  whether it is escaped (`UnescapeAppend`), which depends on the pieces before it back to
  one that is no backslash (`EscapedAgrees`). So what a text became `Shows` the text: it is
  read back, holds no newline, every delimiter in it is escaped, and no backslash is open at
  its end; the last is what an induction needs, and what keeps the closing delimiter one.
  The texts without this property would have a least prefix without it. In a line, between
  two delimiters, the same is read (`FramedTextIsRead`). `ChartSpec` implements `Spec`, so a
  chart is one of a valid definition, and it is sorted by what its lines begin with
  (`LinesSorted`), which gives `LinesAlwaysStayWhole`, `LabelsAlwaysStayInside` and
  `ChartAlwaysReadsBack`.
* `ExecutorProofs`: `TypeOK` is not inductive. That `current' = NextIndex(r)` is a
  number needs the pending result's route to name a step; that the result's error is
  the run's needs `workflowError` to stay unset until a failure and `result` to be
  unset until it is built. `Control` says this: what each place in the body can rely
  on (a valid definition after `validate`; `current` in range and a settled pending
  result during a visit; no error before a failure; no result before `buildResult`).
  `IInv == TypeOK /\ Control` is inductive (`NextIInv`, one case per action), which
  gives `TypeCorrect`. From it follow two action properties: `FailFast`
  (`NothingRunsAfterFailure`: with an error set, only the places from `buildResult`
  on are possible) and `Progress` (`EveryStepProgresses`: the variant behind
  termination, with `RoutesLeadForward` for the outer loop and `should_retry` for the
  inner one).
  `OutcomeConsistent` and `BoundaryTellsTheOutcome` speak of the result, which is made from
  `executed` at the end. The invariant `RInv` therefore says what `executed` is all along:
  its steps increase and only its last can have failed (`Recorded`), all succeeded and are
  behind the current step while nothing has failed, and at `buildResult` its last error is
  the run's (`Accounted`); that the result keeps this through `finalize_step_results`
  (`Reported`); and what was raised (`Ended`).
* `HistoryProofs`: `HInv` ties the history to the place: for each step, approvals before
  attempts and attempts by the policy (`StepLogs`), each recorded result with the attempts
  that were logged (`ExecutedLog`), the visit in progress with what it has logged and a
  history without later steps (`VisitLog`), and every started step recorded or being
  visited (`StartsRecorded`). It gives `ApprovalGuardsInvocation`, `RetriesFollowPolicy`
  and `ResultAccountsForTheRun`. `Policy` of the properties is spelled apart from the
  executor's `RetryPolicy`: a setting of the step's own goes before the workflow's also when
  Python takes it for false. Three properties have invariants of their own.
  `MissedEventEndsTheRun`: an event that missed a hook is the last entry of the log but for
  those it allows. `EventOrder`, which is about the events at any distance in the log: the
  place of the body tells the last of them. `ExceptionsBecomeResults` (`LeavesInv`): at the
  head of the loop all steps so far have succeeded and all hooks were told (`Told`), and
  no other place but `validate` lets an `Exception` out.
* `WalkProofs`: first the path. The recorded steps are chained by their routes, and so is
  the current step; the trace is the routes of the recorded results and of the pending one,
  in order; a step that succeeded took the decision of its output (`PInv`). It gives
  `TraceExplainsPath`. Then `RunWalksTheGraph`, that `Executor` implements `WorkflowWalk`.
  The mapping reads the path and the statuses off `executed`, `current` and `pc`.
  `EnterStep` is `Visit`: `PInv` gives the step the walk is at, `EdgeOfOrder` and
  `EdgeOfDecision` the edge it takes. Recording is `Settle`, `Return` is `Finish`, an
  exception that escapes is `Abort`, and everything else stutters. `WInv` adds the end: a
  run without an error left the loop where the graph ends.
* `CompositionProofs`, the outermost run: `RootRefinesExecutor`. Its registers are the
  module's own while the stack is empty and the saved ones otherwise. A step with an empty
  stack is a step of `Executor` (what children raise is among what step methods raise), a
  call saves the registers, an answer restores them, and what happens above stutters. It
  needs no more of the stack than that it is a sequence (`StackIsSeq`). By this theorem,
  every theorem about `Executor` holds of the outermost run of a composition, whatever
  its steps run.
* `CompositionProofs`, the runs inside: `CTypeOK` is not inductive either, since an answer
  goes on with what was saved. `Calling` is: the run on top satisfies `TypeOK /\ Control`
  as in `ExecutorProofs`, and so will each saved one when it goes on (`Stacked`); it is
  known how the run on top ended (`Exited`), which becomes an outcome when it answers; the
  stack holds runs in the order in which they were called, each below the run that one of
  its visits called (`Nested`); and what a run or a visit was given comes from an earlier
  run (`Inherited`). `ControlsFollow` follows from `Inherited`: a run is numbered higher
  than the run of the context it was called through, so that the recursion along contexts
  ends, and a least run for which it gave something else would have an earlier one.
  Three invariants on top of `Calling` give the rest. `States`: an instance with a run
  in progress has the state of that run or of a later accepted one, and a run that is not
  accepted yet is nobody's state. `Endings`: a run ends once, and only after those in
  progress above it. `Dealt`: of the children of the attempt in progress each is dealt
  with, except the one whose exception the step method has in hand (`raised`), and, for a
  suspended step, the one it waits for.
* `TimesProofs`: a timed run is a run of `Executor` (`TimedRunIsARun`), so that `IInv` and
  `RInv` hold of it. `TInv` says which readings the body has taken at each place
  (`Clocked`), that each recorded result has its times (`Kept`), and, while the clock has
  not been set back, that the visits so far are packed between the start of the run and the
  last reading, with room for the sum of their durations (`Ordered`, `Packed`).
  `DurationBounds`, that a duration takes off a millisecond at most, adds nothing and is
  never negative, holds for every set `Short` and is what makes the sum fit in the time of
  the run. Against its duration the sum can be one millisecond more, for the same reason.
* `DecoratorsProofs`: `DInv` says what a function carries (`Marked`), that a namespace
  holds each name once (`Dict`), and where the steps of a collected definition came from:
  steps of one function have one name even if the function was decorated again since
  (`Gathered`), and the entries follow each other as their names do in the namespace
  (`Placed`). An accepted definition has no duplicate names, hence `FunctionsAreOneStep`.
  `PlacesAreKept` needs that the loop over the namespace picks entries in their order
  (`KeptTyped`), and that binding a name moves none (`SetItemPlaced`).
  `StepsFindTheirFunctions` is attribute lookup on an instance without an attribute of that
  name, along `Mro`, which gets to the class that collected the step before any other that
  binds the name, and finds there the one entry with that name.

Only model-checked is termination (`Terminates`), which needs fairness; `Progress` is its
safety part. Every other property of a passing run is proved.

## Not modelled

* *What user code does to the library's objects.* A step that assigns `self.state` or
  changes the lists of a result it was given; hooks and handlers that run workflows with
  a context of a step; contexts used after the outermost run is over.
* *Limits of Python*: recursion depth, and threads that call `run` on one instance at
  the same time. The library has neither locks nor threads, and documents no such use.
* *Ids, names, metadata and messages*: no property here depends on them. The retry delay
  only puts time between two attempts.
* *Layout of the chart*: indentation and the order of the lines.
* *The compatibility shims* (re-exports) and *the examples*.
* A method attribute that is not callable, and fields of types outside the dataclasses'
  annotations other than those the validation tests for.

## Plan

Every safety property that a passing run checks is proved. What is left is to make more of
the runs inside of runs: that a child which reaches its end is itself a walk over its graph,
as `RunWalksTheGraph` says of the outermost run, and that what a kept context adds to a
result (`kept_context`) is all that can change in a result after its run.
