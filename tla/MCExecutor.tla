------------------------------- MODULE MCExecutor -------------------------------
(* Small workflows for TLC: every feature of a step alone and next to another. *)
EXTENDS ExecutorProperties

MCStrings == {"a", "b", "c", "yes", "no", "huh"}

MCErrorClasses ==
  FrameworkErrors \cup {"Transient", "Permanent", "KeyboardInterrupt"}

MCBases ==
  [c \in MCErrorClasses |->
     {c, "BaseException"} \cup (IF c = "KeyboardInterrupt" THEN {} ELSE {"Exception"})]

MCRaised == {"Transient", "Permanent", "KeyboardInterrupt"}

MCOutputs == {"yes", "huh", None}

Plain      == [async |-> FALSE, kinds |-> <<"positional">>, binds |-> TRUE]
Contextual == [Plain EXCEPT !.kinds = <<"positional", "positional">>]
Static     == [Contextual EXCEPT !.binds = FALSE]
Variadic   == [Plain EXCEPT !.kinds = <<"positional", "other">>]

Basic(name) ==
  [name |-> name, methodName |-> name, order |-> 0, method |-> Plain,
   retries |-> None, retryOn |-> None, retryDelay |-> None, routes |-> None,
   requiresApproval |-> FALSE, approvalMessage |-> None, approvalMetadata |-> None]

Retried(s)  == [s EXCEPT !.retries = 1, !.retryOn = {"Transient"}, !.method = Contextual]
Approved(s) == [s EXCEPT !.requiresApproval = TRUE]
Routed(s, routes) == [s EXCEPT !.routes = routes]

Workflow(steps, retries, retryOn) ==
  [steps |-> steps, retries |-> retries, retryOn |-> retryOn, retryDelay |-> 0]

Variants(s) ==
  {s, Retried(s), Approved(s), Retried(Approved(s)),
   [s EXCEPT !.method = Static], [s EXCEPT !.method = Variadic], [s EXCEPT !.method = None],
   [s EXCEPT !.retries = 0], [s EXCEPT !.retryOn = {}]}

LinearWorkflows ==
  {Workflow(<<s, t>>, 1, {"Exception"}) :
     s \in Variants(Basic("a")), t \in {Basic("b"), Approved(Basic("b")), Retried(Basic("b")),
            [Basic("b") EXCEPT !.method = Variadic]}}

\* Choices of two routes; and one whose only key leads on.
RoutedFirst(s) ==
  {Routed(s, [yes |-> "b", huh |-> "c"]), Routed(s, [yes |-> "c", huh |-> END]),
   Routed(s, [yes |-> END]), Routed(s, [huh |-> "b"])}

RoutedWorkflows ==
  {Workflow(<<s, t, Basic("c")>>, 1, {"Transient"}) :
     s \in RoutedFirst(Basic("a")) \cup {Basic("a")},
     t \in {Basic("b"), Routed(Approved(Basic("b")), [yes |-> "c", huh |-> END])}}

InvalidWorkflows ==
  {Workflow(<<>>, 0, {}), Workflow(<<Basic("a"), Basic("a")>>, 0, {}),
   Workflow(<<Routed(Basic("a"), [yes |-> "a"])>>, 0, {}),
   Workflow(<<Basic("a"), Routed(Basic("b"), [yes |-> "a", no |-> END])>>, 0, {})}

MCWorkflows == LinearWorkflows \cup RoutedWorkflows \cup InvalidWorkflows
===============================================================================
