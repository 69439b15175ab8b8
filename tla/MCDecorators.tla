------------------------------ MODULE MCDecorators ------------------------------
(* A class and one derived from it; functions to bind in them. *)
EXTENDS Decorators

MCStrings == {"a", "b", "run", "state"}

MCErrorClasses == FrameworkErrors
MCBases == [c \in MCErrorClasses |-> {c, "Exception", "BaseException"}]

MCMro == [base |-> <<"base">>, derived |-> <<"derived", "base">>]
MCClasses == DOMAIN MCMro

CONSTANT State
MCInstance == [state |-> State]

MCFunctionName == [f |-> "a", g |-> "b"]
MCCallables == DOMAIN MCFunctionName
MCAttributes == [base |-> {"a", "b"}, derived |-> {"a", "b"}]

Unnamed ==
  [name |-> None, methodName |-> "", order |-> 0, method |-> None,
   retries |-> None, retryOn |-> None, retryDelay |-> None, routes |-> None,
   requiresApproval |-> FALSE, approvalMessage |-> None, approvalMetadata |-> None]

MCStepOptions == [f |-> {Unnamed, [Unnamed EXCEPT !.name = "b"]}, g |-> {Unnamed}]

\* A step method called state.
StateFunctionName == [state |-> "state"]
StateCallables == DOMAIN StateFunctionName
StateAttributes == [base |-> {"state"}, derived |-> {"state"}]
StateStepOptions == [state |-> {Unnamed, [Unnamed EXCEPT !.name = "b"]}]

\* A step method called run.
RunFunctionName == [run |-> "run"]
RunCallables == DOMAIN RunFunctionName
RunAttributes == [base |-> {"run", "a"}, derived |-> {}]
RunStepOptions == [run |-> {Unnamed, [Unnamed EXCEPT !.name = "b"]}]

MCWorkflowOptions == {[steps |-> <<>>, retries |-> 0, retryOn |-> {}, retryDelay |-> 0]}
===============================================================================
