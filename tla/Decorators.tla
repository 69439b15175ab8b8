------------------------------- MODULE Decorators -------------------------------
(***************************************************************************)
(* Authoring (decorators.py): @step leaves a definition on a function,      *)
(* @workflow collects those in a class's own namespace into the definition  *)
(* of the class and gives it a `run`.  Around them the author binds         *)
(* functions to names of classes, in class bodies and later, in any order:  *)
(* a namespace is a dict, which keeps the place of a name that is bound     *)
(* again, and a function can be bound twice, or in several classes.         *)
(***************************************************************************)
EXTENDS Definitions, SequencesExt

CONSTANTS
  Classes,          \* the classes
  Mro,              \* their __mro__s: the classes a lookup goes through, in order
  Callables,        \* the functions of the author
  FunctionName,     \* their __name__s
  InjectedRun,      \* the run method that @workflow makes
  Instance,         \* what an instance's own __dict__ holds when run looks for methods
  Attributes,       \* the names that may be bound in each class
  StepOptions,      \* what @step may be given on each function: unfinished definitions
  WorkflowOptions   \* what @workflow may be given: definitions without steps

\* The fields of a StepDefinition and of a WorkflowDefinition.
StepFields ==
  {"name", "methodName", "order", "method", "retries", "retryOn", "retryDelay", "routes",
   "requiresApproval", "approvalMessage", "approvalMetadata"}
WorkflowFields == {"steps", "retries", "retryOn", "retryDelay"}

ASSUME DecoratorsAssumption ==
  /\ Mro \in [Classes -> Seq(Classes)]
  /\ FunctionName \in [Callables -> Strings]
  /\ None \notin Callables \cup Classes
  /\ InjectedRun \notin Callables \cup {None}
  /\ "state" \in DOMAIN Instance /\ Instance["state"] \notin Callables
  /\ \A f \in Callables : \A options \in StepOptions[f] :
       /\ DOMAIN options = StepFields
       /\ options.name \in Strings \cup {"", None}
       /\ IsStepDefinition([options EXCEPT !.name = "", !.methodName = ""])
  /\ \A options \in WorkflowOptions :
       DOMAIN options = WorkflowFields /\ options.steps = <<>> /\ IsWorkflowDefinition(options)

VARIABLES
  metadata,    \* metadata[f]: what @step left on the function, or None
  namespace,   \* namespace[c]: the entries of the class's __dict__, in order
  definition,  \* definition[c]: what @workflow left on the class itself, or None
  collected    \* history: the entries its steps came from

vars == <<metadata, namespace, definition, collected>>

-------------------------------------------------------------------------------
(* Attribute lookup.                                                        *)

Binds(c, name) == \E k \in DOMAIN namespace[c] : namespace[c][k].name = name

Value(c, name) ==
  namespace[c][CHOOSE k \in DOMAIN namespace[c] : namespace[c][k].name = name].value

\* What getattr finds on the class c, in the first class that binds the name.
LookUp(c, name) ==
  LET bound == {k \in DOMAIN Mro[c] : Binds(Mro[c][k], name)}
  IN  IF bound = {} THEN None ELSE Value(Mro[c][Min(bound)], name)

\* What getattr finds on an instance of c: its own attributes go before functions of the
\* class. run has assigned `state` to it; the author may have set others.
BoundMethod(c, name) == IF name \in DOMAIN Instance THEN Instance[name] ELSE LookUp(c, name)

\* The metadata is looked up like any attribute: a class can have its base's.
DefinitionOf(c) ==
  LET decorated == {k \in DOMAIN Mro[c] : definition[Mro[c][k]] # None}
  IN  IF decorated = {} THEN None ELSE definition[Mro[c][Min(decorated)]]

-------------------------------------------------------------------------------

Init ==
  /\ metadata = [f \in Callables |-> None]
  /\ namespace = [c \in Classes |-> <<>>]
  /\ definition = [c \in Classes |-> None]
  /\ collected = [c \in Classes |-> <<>>]

\* (a mutant) An omitted name is kept.
GivenName(f, options) ==
  [options EXCEPT !.methodName = FunctionName[f], !.order = -1]

\* (a mutant) The method is taken to have the name of the step.
MethodOfStepName(f, options) ==
  LET name == IF options.name \in {None, ""} THEN FunctionName[f] ELSE options.name
  IN  [options EXCEPT !.name = name, !.methodName = name, !.order = -1]

\* `name or function.__name__`: an empty name is no name.
BuildStepDefinition(f, options) ==
  [options EXCEPT !.name = IF options.name \in {None, ""} THEN FunctionName[f] ELSE options.name,
                  !.methodName = FunctionName[f],
                  !.order = -1]

\* @step, which can be applied again.
DecorateStep(f, options) ==
  /\ metadata' = [metadata EXCEPT ![f] = BuildStepDefinition(f, options)]
  /\ UNCHANGED <<namespace, definition, collected>>

SetItem(dict, name, value) ==
  IF \E k \in DOMAIN dict : dict[k].name = name
  THEN [k \in DOMAIN dict |->
          IF dict[k].name = name THEN [dict[k] EXCEPT !.value = value] ELSE dict[k]]
  ELSE Append(dict, [name |-> name, value |-> value])

\* A definition in the class body, an alias, or setattr.
Bind(c, name, f) ==
  /\ namespace' = [namespace EXCEPT ![c] = SetItem(@, name, f)]
  /\ UNCHANGED <<metadata, definition, collected>>

IsStep(value) == value \in Callables /\ metadata[value] # None

\* (a mutant) A step is named for the attribute it was found under.
CollectUnderAttribute(entries) ==
  [k \in DOMAIN entries |-> [metadata[entries[k].value] EXCEPT !.name = entries[k].name,
                                                               !.order = k - 1]]

\* replace(step_definition, order=len(steps))
Collect(entries) ==
  [k \in DOMAIN entries |-> [metadata[entries[k].value] EXCEPT !.order = k - 1]]

\* (a mutant) The entry that was found last comes first.
LatestFirst(c) ==
  LET Found[n \in 0..Len(namespace[c])] ==
        IF n = 0 THEN <<>>
        ELSE IF IsStep(namespace[c][n].value) THEN <<namespace[c][n]>> \o Found[n-1]
        ELSE Found[n-1]
  IN  Found[Len(namespace[c])]

\* What the loop over the namespace has found after n entries.
StepEntries(c) ==
  LET Found[n \in 0..Len(namespace[c])] ==
        IF n = 0 THEN <<>>
        ELSE IF IsStep(namespace[c][n].value) THEN Append(Found[n-1], namespace[c][n])
        ELSE Found[n-1]
  IN  Found[Len(namespace[c])]

\* @workflow, which looks at the class's own namespace only.
DecorateWorkflow(c, options) ==
  /\ collected' = [collected EXCEPT ![c] = StepEntries(c)]
  /\ definition' = [definition EXCEPT ![c] = [options EXCEPT !.steps = Collect(collected'[c])]]
  /\ namespace' =
       IF Binds(c, "run") THEN namespace
       ELSE [namespace EXCEPT ![c] = SetItem(@, "run", InjectedRun)]
  /\ UNCHANGED metadata

Next ==
  \/ \E f \in Callables : \E options \in StepOptions[f] : DecorateStep(f, options)
  \/ \E c \in Classes, f \in Callables : \E name \in Attributes[c] : Bind(c, name, f)
  \/ \E c \in Classes, options \in WorkflowOptions : DecorateWorkflow(c, options)

Spec == Init /\ [][Next]_vars

-------------------------------------------------------------------------------

Entries(c) == [name : Attributes[c] \cup {"run"}, value : Callables \cup {InjectedRun}]

\* Types: what is left on a function or a class is a definition that validation can
\* look at, whatever was omitted.
TypeOK ==
  /\ \A f \in Callables : metadata[f] # None => IsStepDefinition(metadata[f])
  /\ \A c \in Classes :
       /\ namespace[c] \in Seq(Entries(c))
       /\ definition[c] # None => IsWorkflowDefinition(definition[c])
       /\ collected[c] \in Seq(Entries(c))

Accepted(c) == definition[c] # None /\ ValidWorkflowDefinition(definition[c])

\* No function is two steps of an accepted definition: one that is found under two
\* names of a class has one definition on it, so that the two steps have one name and
\* are rejected. Two steps that each run the function they were collected from hence
\* run two functions. (It does not keep a run from calling one function twice: steps are
\* looked up by __name__, which two functions can share, and a name may be bound to
\* another function since.) (@step leaves the name on the function, @workflow copies it,
\* validate_workflow_definition looks for duplicates)
EachFunctionIsOneStep ==
  \A c \in Classes :
    Accepted(c) =>
      \A j, k \in DOMAIN collected[c] :
        collected[c][j].value = collected[c][k].value => j = k

\* The steps of a class are its own, in the order in which their names were first bound:
\* a name that is bound again, before or after the class is decorated, keeps its place,
\* and what a base declares is no step of a class with a definition of its own. (the loop
\* over cls.__dict__, order=len(steps))
StepsKeepTheirPlaces ==
  \A c \in Classes :
    definition[c] # None =>
      \A j, k \in DOMAIN collected[c] :
        /\ definition[c].steps[k].order = k - 1
        /\ Binds(c, collected[c][k].name)
        /\ j < k =>
             \E m, n \in DOMAIN namespace[c] :
               /\ m < n
               /\ namespace[c][m].name = collected[c][j].name
               /\ namespace[c][n].name = collected[c][k].name

\* Whether the class d takes the name from the class c.
Takes(d, name, c) ==
  \E k \in DOMAIN Mro[d] : Mro[d][k] = c /\ \A j \in 1..k - 1 : ~Binds(Mro[d][j], name)

\* The executor finds a step's method by its __name__ on the instance: where functions
\* are bound under their own names, nothing was bound over them since, and the instance
\* has no attribute of that name (as it has for a step called state), each step runs the
\* function it was collected from, in the class, and in a class derived from it that
\* takes the name from it. (method_name, getattr in run)
StepsRunTheirFunctions ==
  \A c \in Classes :
    definition[c] # None =>
      \A k \in DOMAIN collected[c] :
        LET e == collected[c][k] IN
        /\ e.name = FunctionName[e.value]
        /\ e \in Range(namespace[c])
        /\ e.name \notin DOMAIN Instance
        => \A d \in Classes :
             DefinitionOf(d) = definition[c] /\ Takes(d, e.name, c) =>
               BoundMethod(d, DefinitionOf(d).steps[k].methodName) = e.value

-------------------------------------------------------------------------------
(* What the documentation says and the code does not do.                    *)

\* docs/architecture/overview.md: validation rejects "reserved names like `run`". A
\* step whose method is called run takes the place of the run that would validate.
ReservedNameIsRejected ==
  \A c \in Classes :
    definition[c] # None /\ (\E k \in DOMAIN collected[c] : definition[c].steps[k].methodName = "run")
      => LookUp(c, "run") = InjectedRun

\* docs/architecture/runtime.md: for each step the executor "resolves the bound method".
\* For a step method called state, which no validation rejects, it resolves the value
\* that run has just assigned to the instance, having validated the method itself.
StepMethodsAreBound ==
  \A c \in Classes :
    Accepted(c) =>
      \A k \in DOMAIN collected[c] :
        LET name == definition[c].steps[k].methodName IN
        LookUp(c, name) \in Callables => BoundMethod(c, name) = LookUp(c, name)
===============================================================================
