--------------------------------- MODULE MCTimes ---------------------------------
(* Two steps, one that is approved and retried and one that routes. *)
EXTENDS Times

MCStrings == {"a", "b", "yes"}

MCErrorClasses == FrameworkErrors
MCBases == [c \in MCErrorClasses |-> {c, "Exception", "BaseException"}]

Basic(name) ==
  [name |-> name, methodName |-> name, order |-> 0,
   method |-> [async |-> FALSE, kinds |-> <<"positional">>, binds |-> TRUE],
   retries |-> None, retryOn |-> None, retryDelay |-> None, routes |-> None,
   requiresApproval |-> FALSE, approvalMessage |-> None, approvalMetadata |-> None]

MCWorkflows ==
  {[steps |-> <<[Basic("a") EXCEPT !.requiresApproval = TRUE, !.retries = 1],
                [Basic("b") EXCEPT !.routes = [yes |-> END]]>>,
    retries |-> 0, retryOn |-> {"Exception"}, retryDelay |-> 0]}
===============================================================================
