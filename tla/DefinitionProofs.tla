---------------------------- MODULE DefinitionProofs ----------------------------
(* Facts about valid definitions, for definitions of every size. *)
EXTENDS Definitions, WellFoundedInduction, TLAPS

\* The steps of a definition are numbered 1..Len, and typed.
LEMMA StepsAreNumbered ==
  ASSUME NEW wf, IsWorkflowDefinition(wf)
  PROVE  /\ Len(wf.steps) \in Nat
         /\ DOMAIN wf.steps = 1..Len(wf.steps)
         /\ \A i \in DOMAIN wf.steps : IsStepDefinition(wf.steps[i])
BY DEF IsWorkflowDefinition

\* The maximum of a singleton, the only case in which a valid definition needs Max.
LEMMA MaxOfSingleton ==
  ASSUME NEW i \in Int
  PROVE  Max({i}) = i
BY DEF Max

\* A set of naturals has a least member.
LEMMA LeastMember ==
  ASSUME NEW S \in SUBSET Nat, S # {}
  PROVE  \E x \in S : \A y \in S : x =< y
<1> DEFINE R == {p \in Nat \X Nat : p[1] < p[2]}
<1>1. IsWellFoundedOn(R, Nat)
  BY NatLessThanWellFounded DEF OpToRel
<1>2. PICK x \in S : \A y \in S : <<y, x>> \notin R
  <2> HIDE DEF R
  <2> QED
    BY <1>1, WFMin
<1>3. ASSUME NEW y \in S PROVE x =< y
  <2>1. ~ (y < x)
    BY <1>2
  <2> QED
    BY <2>1
<1> QED
  BY <1>2, <1>3

\* Its minimum is a member of it.
LEMMA MinIsMember ==
  ASSUME NEW S \in SUBSET Nat, S # {}
  PROVE  Min(S) \in S
BY LeastMember, Zenon DEF Min

\* A set of numbers below a bound has a greatest member.
LEMMA MaxIsMember ==
  ASSUME NEW n \in Nat, NEW S \in SUBSET (1..n), S # {}
  PROVE  Max(S) \in S /\ \A y \in S : y =< Max(S)
<1> DEFINE T == {n - x : x \in S}
<1>1. T \in SUBSET Nat /\ T # {}
  <2>1. ASSUME NEW x \in S PROVE n - x \in Nat
    OBVIOUS
  <2> QED
    BY <2>1
<1>2. PICK t \in T : \A y \in T : t =< y
  <2> HIDE DEF T
  <2> QED
    BY <1>1, LeastMember
<1>3. PICK x \in S : t = n - x
  OBVIOUS
<1>4. ASSUME NEW y \in S PROVE y =< x
  <2>1. n - x =< n - y
    BY <1>2, <1>3
  <2>2. x \in Int /\ y \in Int
    OBVIOUS
  <2> QED
    BY <2>1, <2>2
<1>5. x \in S /\ \A y \in S : x >= y
  BY <1>3, <1>4
<1>6. Max(S) \in S /\ \A y \in S : Max(S) >= y
  BY <1>5 DEF Max
<1> QED
  BY <1>6

\* Looking up the name of a step gives the step: a valid definition has no two steps
\* of one name. (validate_workflow_definition, the step_indexes tables)
LEMMA NamesIdentify ==
  ASSUME NEW wf, IsWorkflowDefinition(wf), NamesDiffer(wf), NEW i \in DOMAIN wf.steps
  PROVE  /\ wf.steps[i].name \in DOMAIN StepIndexes(wf)
         /\ StepIndexes(wf)[wf.steps[i].name] = i
<1> DEFINE n == wf.steps[i].name
           S == {j \in DOMAIN wf.steps : wf.steps[j].name = n}
<1>1. S = {i}
  BY DEF NamesDiffer
<1>2. i \in Int
  BY StepsAreNumbered
<1>3. Max(S) = i
  BY <1>1, <1>2, MaxOfSingleton
<1>4. n \in {wf.steps[j].name : j \in DOMAIN wf.steps}
  OBVIOUS
<1> QED
  BY <1>3, <1>4 DEF StepIndexes

\* A name that is found belongs to a step.
LEMMA IndexesAreSteps ==
  ASSUME NEW wf, IsWorkflowDefinition(wf), NamesDiffer(wf), NEW n \in DOMAIN StepIndexes(wf)
  PROVE  StepIndexes(wf)[n] \in DOMAIN wf.steps
<1>1. PICK i \in DOMAIN wf.steps : wf.steps[i].name = n
  BY DEF StepIndexes
<1> QED
  BY <1>1, NamesIdentify

\* The decision of a routed step of a valid definition ends the run or leads to a later
\* step. (_validate_route_targets, resolve_route_decision)
LEMMA RoutesLeadForward ==
  ASSUME NEW wf, IsWorkflowDefinition(wf), ValidWorkflowDefinition(wf),
         NEW i \in DOMAIN wf.steps, wf.steps[i].routes # None,
         NEW output, RouteResolves(wf.steps[i], output)
  PROVE  LET d == RouteDecision(wf, i, output)
         IN  /\ d \in [step : Nat, key : Strings, next : Nat \cup {None}, ended : BOOLEAN]
             /\ d.step = i
             /\ d.ended \/ (d.next \in DOMAIN wf.steps /\ d.next > i)
<1> DEFINE target == wf.steps[i].routes[output]
           d == RouteDecision(wf, i, output)
<1>1. output \in Strings /\ output \in DOMAIN wf.steps[i].routes
  BY DEF RouteResolves
<1>2. target = END \/ (target \in DOMAIN StepIndexes(wf) /\ StepIndexes(wf)[target] > i)
  BY <1>1 DEF ValidWorkflowDefinition, ValidRouteTargets
<1>3. i \in Nat /\ DOMAIN wf.steps \subseteq Nat
  BY StepsAreNumbered
<1>4. CASE target = END
  <2>1. d = [step |-> i, key |-> output, next |-> None, ended |-> TRUE]
    BY <1>4 DEF RouteDecision
  <2> QED
    BY <2>1, <1>1, <1>3
<1>5. CASE target # END
  <2>1. d = [step |-> i, key |-> output, next |-> StepIndexes(wf)[target], ended |-> FALSE]
    BY <1>5 DEF RouteDecision
  <2>2. StepIndexes(wf)[target] \in DOMAIN wf.steps
    BY <1>2, <1>5, IndexesAreSteps DEF ValidWorkflowDefinition
  <2> QED
    BY <2>1, <2>2, <1>1, <1>2, <1>3, <1>5
<1> QED
  BY <1>4, <1>5

\* The retry policy of a step of a valid definition has a number of retries.
LEMMA PolicyIsBounded ==
  ASSUME NEW wf, IsWorkflowDefinition(wf), ValidWorkflowDefinition(wf), NEW i \in DOMAIN wf.steps
  PROVE  RetryPolicy(wf, wf.steps[i]).retries \in Nat
<1> DEFINE s == wf.steps[i]
<1>1. IsStepDefinition(s) /\ ValidStepDefinition(s)
  BY StepsAreNumbered DEF ValidWorkflowDefinition
<1>2. s.retries = None \/ s.retries \in Nat
  <2>1. s.retries \in Int \cup {None}
    BY <1>1 DEF IsStepDefinition
  <2>2. s.retries # None => s.retries >= 0
    BY <1>1 DEF ValidStepDefinition, ValidRetrySettings
  <2> QED
    BY <2>1, <2>2
<1>3. wf.retries \in Nat
  BY DEF IsWorkflowDefinition, ValidWorkflowDefinition
<1> QED
  BY <1>2, <1>3 DEF RetryPolicy
===============================================================================
