----------------------------- MODULE MCComposition -----------------------------
(* A parent that retries, children that succeed, fail, raise and are rejected. *)
EXTENDS CompositionProperties

MCStrings == {"a", "b", "yes"}

MCErrorClasses == FrameworkErrors \cup {"KeyboardInterrupt"}

MCBases ==
  [c \in MCErrorClasses |->
     {c, "BaseException"} \cup (IF c = "KeyboardInterrupt" THEN {} ELSE {"Exception"})]

MCRaised == ChildErrors \cup {"KeyboardInterrupt"}

Plain      == [async |-> FALSE, kinds |-> <<"positional">>, binds |-> TRUE]
Contextual == [Plain EXCEPT !.kinds = <<"positional", "positional">>]
Variadic   == [Plain EXCEPT !.kinds = <<"positional", "other">>]

Basic(name, method) ==
  [name |-> name, methodName |-> name, order |-> 0, method |-> method,
   retries |-> None, retryOn |-> None, retryDelay |-> None, routes |-> None,
   requiresApproval |-> FALSE, approvalMessage |-> None, approvalMetadata |-> None]

Workflow(steps, retries, retryOn) ==
  [steps |-> steps, retries |-> retries, retryOn |-> retryOn, retryDelay |-> 0]

\* Runs children, and again if its first attempt fails.
Parent == Workflow(<<Basic("a", Contextual)>>, 1, {"ChildWorkflowExecutionError"})

Approved == Workflow(<<[Basic("a", Plain) EXCEPT !.requiresApproval = TRUE]>>, 0, {})

\* Runs its first step, then finds the second unusable.
Broken == Workflow(<<Basic("a", Plain), Basic("b", Variadic)>>, 0, {})

MCClassOf == [parent |-> Parent, approved |-> Approved, broken |-> Broken]
MCInstances == DOMAIN MCClassOf
MCWorkflows == {MCClassOf[i] : i \in MCInstances}
MCHandlers == {"handler"}
MCHookLists == [none |-> 0, one |-> 1]

Call(instance, given, failParent, handler, hooks) ==
  [instance |-> instance, state |-> given, failParent |-> failParent, handler |-> handler,
   hooks |-> hooks]

MCCalls ==
  {Call("parent", TRUE, TRUE, None, "one"), Call("parent", FALSE, TRUE, None, None),
   Call("approved", TRUE, FALSE, "handler", None), Call("approved", TRUE, TRUE, None, "none"),
   Call("broken", TRUE, TRUE, None, None)}
===============================================================================
