------------------------ MODULE CompositionProperties ------------------------
(* What runs inside of runs guarantee, and what is said of them but not so. *)
EXTENDS Composition

\* What a run ended with tells whether it raised.
ASSUME EndingAssumption ==
  {"succeeded", "failed", "rejected"} \cap (ErrorClasses \cup {None}) = {}

-------------------------------------------------------------------------------
(* Types.                                                                   *)

RunRecords ==
  [call     : Calls,
   handler  : Handlers \cup {None},
   hooks    : DOMAIN HookLists \cup {None},
   context  : Nat,
   caller   : Nat,
   attempt  : Nat,
   outcome  : {None, "succeeded", "failed", "rejected"} \cup ErrorClasses,
   state    : Nat \cup {None},
   caught   : BOOLEAN]

VisitRecords ==
  [run : Nat, children : Seq(Nat), handed : BOOLEAN,
   handler : Handlers \cup {None}, hooks : DOMAIN HookLists \cup {None}]

\* Types, and the shape of the stack: every suspended run waits inside of a step
\* method for the run above it, and only a run inside of one has an exception pending.
CTypeOK ==
  /\ runs \in Seq(RunRecords)
  /\ visits \in Seq(VisitRecords)
  /\ state \in [Instances -> 1..Len(runs) \cup {None}]
  /\ raised \in ErrorClasses \cup {None}
  /\ raised # None => pc = "invoke"
  /\ ended \in Seq(2..Len(runs))
  /\ run \in 1..Len(runs)
  /\ \A k \in DOMAIN stack :
       LET above == IF k = Len(stack) THEN run ELSE stack[k + 1].run
       IN  /\ stack[k].pc = "invoke"
           /\ stack[k].run < above
           /\ visits[runs[above].caller].run = stack[k].run

-------------------------------------------------------------------------------
(* Safety.                                                                  *)

ChildrenOf(v) == {r \in DOMAIN runs : runs[r].context = v}
Returned(r) == runs[r].outcome \in {"succeeded", "failed"}

\* The child_workflows of a step are the child runs its context was asked for that
\* returned: those of every attempt, also of failed ones, each once, in the order they
\* ended, whoever asked. (run makes the list once per visit, before the retry loop;
\* run_child_workflow appends to it)
ChildrenRecordedOnce ==
  \A v \in DOMAIN visits :
    LET children == visits[v].children IN
    /\ Range(children) = {r \in Range(ended) : r \in ChildrenOf(v) /\ Returned(r)}
    /\ \A i, j \in DOMAIN children : i < j =>
         \E m, n \in DOMAIN ended :
           /\ m < n
           /\ ended[m] = children[i]
           /\ ended[n] = children[j]
           /\ children[i] # children[j]

\* A step succeeds only when its last attempt dealt with every child that failed: none
\* of the failed children it called was to fail its parent, unless the step method
\* caught that, and nothing that left a child run went by unseen. (the raise at the end
\* of run_child_workflow, the `except` around _invoke_step)
FailedChildHandled ==
  pc = "stepFinished" /\ stepResult.status = "succeeded" =>
    \A r \in DOMAIN runs :
      runs[r].caller = Here /\ runs[r].attempt = attempts =>
        \/ runs[r].caught
        \/ runs[r].outcome = "succeeded"
        \/ runs[r].outcome = "failed" /\ ~runs[r].call.failParent

\* What was given to the nearest run up the chain of contexts that was given any.
NearestHandler[r \in DOMAIN runs] ==
  IF r = 1 \/ runs[r].call.handler # None THEN runs[r].call.handler
  ELSE NearestHandler[visits[runs[r].context].run]

NearestHooks[r \in DOMAIN runs] ==
  IF r = 1 \/ runs[r].call.hooks # None THEN runs[r].call.hooks
  ELSE NearestHooks[visits[runs[r].context].run]

\* A run uses the handler and the hooks it was given, and of what it was not given, the
\* ones of the nearest run up the chain of contexts that was, which is not the chain of
\* callers when a context is kept. (the runner captures them when the step is entered;
\* `is not None` in run_child_workflow)
ControlsFollowTheContext ==
  \A r \in DOMAIN runs :
    /\ runs[r].handler = NearestHandler[r]
    /\ runs[r].hooks = NearestHooks[r]

Overlap(q, r) == q > r /\ runs[q].call.instance = runs[r].call.instance

\* A result carries the state its run was given, or that of a later run on the same
\* instance, one that was called while the run was in progress and whose input was
\* accepted: a rejected call leaves the instance as it is. (run assigns `state` after
\* both validations; the result reads it at the end)
StateIsOfAnAcceptedRun ==
  \A r \in DOMAIN runs :
    runs[r].state # None =>
      LET q == runs[r].state
      IN  q = r \/ (Overlap(q, r) /\ runs[q].outcome # "rejected")

Bottom(top, saved) == IF stack = <<>> THEN top ELSE saved

\* Seen from the outside, the first run is a run like any other, whatever its steps
\* run: a child changes none of its registers, and an exception of a child reaches it
\* as one of the step method. So all that holds of Executor's runs holds of it.
\* (WorkflowExecutor().run in run_child_workflow: a call of its own)
Root == INSTANCE Executor
          WITH wf            <- Bottom(wf, stack[1].wf),
               arguments     <- Bottom(arguments, stack[1].arguments),
               pc            <- Bottom(pc, stack[1].pc),
               current       <- Bottom(current, stack[1].current),
               attempts      <- Bottom(attempts, stack[1].attempts),
               decision      <- Bottom(decision, stack[1].decision),
               stepResult    <- Bottom(stepResult, stack[1].stepResult),
               executed      <- Bottom(executed, stack[1].executed),
               trace         <- Bottom(trace, stack[1].trace),
               workflowError <- Bottom(workflowError, stack[1].workflowError),
               result        <- Bottom(result, stack[1].result),
               boundary      <- Bottom(boundary, stack[1].boundary),
               log           <- Bottom(log, stack[1].log)

RootIsARun == Root!Spec

-------------------------------------------------------------------------------
(* What the documentation says and the code does not do.                    *)

\* docs/guides/workflow-composition.md: of a failed child, "The failed child result is
\* still available in StepResult.child_workflows". Not of one that started, ran steps,
\* and failed by an exception that leaves its run.
FailedChildIsAvailable ==
  \A r \in DOMAIN runs :
    r \in Range(ended) /\ runs[r].outcome \notin {"succeeded", "rejected", "KeyboardInterrupt"} =>
      r \in Range(visits[runs[r].context].children)

\* run_child's message (models.py): "Child workflows can only be run from an active
\* workflow step context." A context that was kept runs them when its step is over.
ChildrenRunInActiveSteps ==
  stack # <<>> /\ pc = "validate" =>
    \E k \in DOMAIN stack :
      runs[run].context = Max({v \in DOMAIN visits : visits[v].run = stack[k].run})
===============================================================================
