------------------------------ MODULE HistoryProofs ------------------------------
(***************************************************************************)
(* What a run did, as its history tells: approvals come before attempts,    *)
(* attempts follow the retry policy, a hook that was passed over ends the   *)
(* run, and the result accounts for all of it.                             *)
(***************************************************************************)
EXTENDS ExecutorProofs

Kinds == {"StepStarted", "approve", "invoke"}

\* The attempts made of a step.
Counts(i) == {log[j].count : j \in Logged("invoke", i)}

Approved(i, k) == \E j \in Logged("approve", i) : j < k /\ log[j].outcome = "approved"

\* Its c-th attempt was made and may be repeated.
Repeatable(i, c) ==
  \E j \in Logged("invoke", i) :
    log[j].count = c /\ log[j].outcome # "returned" /\ Retryable(i, log[j].outcome)

\* The history of one step.
StepLog(i) ==
  /\ wf.steps[i].requiresApproval => \A k \in Logged("invoke", i) : Approved(i, k)
  /\ \A j, k \in Logged("approve", i) : wf.steps[i].requiresApproval /\ j = k
  /\ \A j, k \in Logged("invoke", i) : j < k => log[j].count < log[k].count
  /\ \A k \in Logged("invoke", i) :
       /\ log[k].count \in 1..Policy(i).retries + 1
       /\ log[k].count > 1 => Repeatable(i, log[k].count - 1)
  /\ Logged("invoke", i) # {} => Logged("StepStarted", i) # {}

StepLogs == \A i \in DOMAIN wf.steps : StepLog(i)

\* A result goes with the history of its step.
ResultLog(r) ==
  /\ Logged("StepStarted", r.step) # {}
  /\ Counts(r.step) = 1..r.attempts
  /\ wf.steps[r.step].requiresApproval /\ r.decision # "approved" =>
       r.status = "failed" /\ r.attempts = 0
  /\ r.error # None /\ r.error.at = "invoke" /\ Retryable(r.step, r.error.class) =>
       r.attempts = Policy(r.step).retries + 1
  /\ r.error # None => r.error.at # "workflowStarted"

ExecutedLog == \A k \in DOMAIN executed : ResultLog(executed[k])

NoLog(i) == \A kind \in Kinds : Logged(kind, i) = {}

\* What the visit has done so far.
VisitLog ==
  /\ pc \in Before => \A i \in Nat : i > current => NoLog(i)
  /\ pc \in {"validate", "workflowStarted", "loop", "stepStarted"} => NoLog(current)
  /\ pc = "stepStarted" => attempts = 0
  /\ pc = "approve" =>
       /\ Step.requiresApproval
       /\ attempts = 0
       /\ Logged("StepStarted", current) # {}
       /\ Logged("approve", current) = {}
       /\ Logged("invoke", current) = {}
  /\ pc = "invoke" =>
       /\ Logged("StepStarted", current) # {}
       /\ Counts(current) = 1..attempts
       /\ attempts <= Policy(current).retries
       /\ attempts > 0 => Repeatable(current, attempts)
       /\ Step.requiresApproval =>
            /\ decision = "approved"
            /\ \E j \in Logged("approve", current) : log[j].outcome = "approved"
  /\ pc = "stepFinished" => ResultLog(stepResult)

\* Every step that was started is recorded, or is the one being visited.
StartsRecorded ==
  pc \in Before \cup {"buildResult"} =>
    \A i \in DOMAIN wf.steps : Logged("StepStarted", i) # {} =>
      \/ \E k \in DOMAIN executed : executed[k].step = i
      \/ pc \in {"approve", "invoke", "stepFinished"} /\ i = current

HInv ==
  /\ StepLogs
  /\ ExecutedLog
  /\ VisitLog
  /\ StartsRecorded
  /\ pc \in {"buildResult", "workflowFinished"} => workflowError # HookError("workflowStarted")
  /\ ResultAccountsForTheRun

-------------------------------------------------------------------------------
(* The history grows at its end.                                            *)

LEMMA LogAppended ==
  ASSUME TypeOK, NEW e, log' = Append(log, e)
  PROVE  /\ Len(log) \in Nat
         /\ DOMAIN log = 1..Len(log)
         /\ DOMAIN log' = 1..Len(log) + 1
         /\ Len(log') = Len(log) + 1
         /\ log'[Len(log) + 1] = e
         /\ \A k \in 1..Len(log) : log'[k] = log[k]
BY DEF TypeOK

\* An entry is of its own kind and step only.
LEMMA LoggedAppended ==
  ASSUME TypeOK, NEW e, log' = Append(log, e), NEW kind, NEW i
  PROVE  /\ Logged(kind, i)' =
              Logged(kind, i) \cup (IF e.kind = kind /\ e.step = i THEN {Len(log) + 1} ELSE {})
         /\ \A k \in Logged(kind, i) : k \in 1..Len(log) /\ log'[k] = log[k]
<1> DEFINE n == Len(log)
<1>1. /\ n \in Nat
      /\ DOMAIN log = 1..n
      /\ DOMAIN log' = 1..n + 1
      /\ log'[n + 1] = e
      /\ \A k \in 1..n : log'[k] = log[k]
  BY LogAppended
<1> HIDE DEF n
<1>2. \A k : k \in 1..n + 1 <=> k \in 1..n \/ k = n + 1
  BY <1>1
<1>3. ~(n + 1 \in 1..n)
  BY <1>1
<1>4. \A k : k \in Logged(kind, i)' <=> k \in Logged(kind, i) \/ (k = n + 1 /\ e.kind = kind /\ e.step = i)
  BY <1>1, <1>2, <1>3 DEF Logged
<1>5. \A k \in Logged(kind, i) : k \in 1..n /\ log'[k] = log[k]
  BY <1>1 DEF Logged
<1>6. Logged(kind, i)' = Logged(kind, i) \cup (IF e.kind = kind /\ e.step = i THEN {n + 1} ELSE {})
  BY <1>4
<1> QED
  BY <1>5, <1>6 DEF n

\* What is known of the history of a step that nothing is added to.
Kept(i) ==
  \A kind \in Kinds : /\ Logged(kind, i)' = Logged(kind, i)
                      /\ \A k \in Logged(kind, i) : log'[k] = log[k]

LEMMA OtherStepsKept ==
  ASSUME TypeOK, NEW e, log' = Append(log, e), NEW i, e.kind \notin Kinds \/ e.step # i
  PROVE  Kept(i)
<1> SUFFICES ASSUME NEW kind \in Kinds
             PROVE  /\ Logged(kind, i)' = Logged(kind, i)
                    /\ \A k \in Logged(kind, i) : log'[k] = log[k]
  BY DEF Kept
<1>1. /\ Logged(kind, i)' =
           Logged(kind, i) \cup (IF e.kind = kind /\ e.step = i THEN {Len(log) + 1} ELSE {})
      /\ \A k \in Logged(kind, i) : log'[k] = log[k]
  BY LoggedAppended
<1>2. ~(e.kind = kind /\ e.step = i)
  OBVIOUS
<1>3. Logged(kind, i)' = Logged(kind, i)
  BY <1>1, <1>2
<1> QED
  BY <1>1, <1>3

LEMMA KeptCounts ==
  ASSUME NEW i, Kept(i)
  PROVE  Counts(i)' = Counts(i)
<1>1. /\ Logged("invoke", i)' = Logged("invoke", i)
      /\ \A k \in Logged("invoke", i) : log'[k] = log[k]
  BY DEF Kept, Kinds
<1>2. \A c : c \in Counts(i)' <=> c \in Counts(i)
  BY <1>1 DEF Counts
<1> QED
  BY <1>2 DEF Counts

LEMMA KeptStepLog ==
  ASSUME NEW i, Kept(i), wf' = wf, StepLog(i)
  PROVE  StepLog(i)'
<1>1. /\ Logged("StepStarted", i)' = Logged("StepStarted", i)
      /\ Logged("approve", i)' = Logged("approve", i)
      /\ Logged("invoke", i)' = Logged("invoke", i)
      /\ \A k \in Logged("approve", i) : log'[k] = log[k]
      /\ \A k \in Logged("invoke", i) : log'[k] = log[k]
  BY DEF Kept, Kinds
<1> QED
  BY <1>1 DEF StepLog, Approved, Repeatable, Retryable, Policy, OwnOr

LEMMA KeptResultLog ==
  ASSUME NEW r, Kept(r.step), wf' = wf, ResultLog(r)
  PROVE  ResultLog(r)'
<1>1. Logged("StepStarted", r.step)' = Logged("StepStarted", r.step)
  BY DEF Kept, Kinds
<1>2. Counts(r.step)' = Counts(r.step)
  BY KeptCounts
<1> QED
  BY <1>1, <1>2 DEF ResultLog, Retryable, Policy, OwnOr

\* What is not about a step, or nothing, leaves the history of every step.
LEMMA AllKept ==
  ASSUME TypeOK, NEW i,
         log' = log \/ \E e : log' = Append(log, e) /\ e.kind \notin Kinds
  PROVE  Kept(i)
<1>1. CASE log' = log
  BY <1>1 DEF Kept, Logged
<1>2. CASE \E e : log' = Append(log, e) /\ e.kind \notin Kinds
  BY <1>2, OtherStepsKept
<1> QED
  BY <1>1, <1>2

-------------------------------------------------------------------------------
(* What a step of the body keeps of the histories.                          *)

LEMMA ExecutedLogKept ==
  ASSUME TypeOK, wf' = wf, executed' = executed, ExecutedLog,
         \A k \in DOMAIN executed : Kept(executed[k].step)
  PROVE  ExecutedLog'
<1> SUFFICES ASSUME NEW k \in DOMAIN executed PROVE ResultLog(executed[k])'
  BY DEF ExecutedLog
<1>1. PICK r : r = executed[k]
  OBVIOUS
<1>2. ResultLog(r) /\ Kept(r.step)
  BY <1>1 DEF ExecutedLog
<1>3. ResultLog(r)'
  BY <1>2, KeptResultLog
<1> QED
  BY <1>1, <1>3

\* A result is recorded behind those of earlier steps.
LEMMA ResultRecorded ==
  ASSUME IInv, RInv, ExecutedLog, wf' = wf, pc \in Visiting,
         NEW r, r.step = current, executed' = Put(executed, r), ResultLog(r)',
         \A i \in Nat : i # current => Kept(i)
  PROVE  /\ ExecutedLog'
         /\ \A k \in DOMAIN executed : \E j \in DOMAIN executed' : executed'[j].step = executed[k].step
         /\ \E j \in DOMAIN executed' : executed'[j].step = current
<1> DEFINE n == Len(executed)
<1>1. executed \in Seq(StepResults) /\ n \in Nat /\ current \in Nat /\ DOMAIN executed = 1..n
  BY DEF IInv, TypeOK
<1>2. \A k \in 1..n : executed[k].step \in Nat /\ executed[k].step # current
  <2>1. \A k \in 1..n : executed[k].step < current
    BY <1>1 DEF RInv, Accounted, Before
  <2>2. \A k \in 1..n : executed[k].step \in DOMAIN wf.steps
    BY <1>1 DEF RInv, Recorded
  <2>3. DOMAIN wf.steps \subseteq Nat
    BY DefinitionOfRun DEF IInv
  <2> QED
    BY <1>1, <2>1, <2>2, <2>3
<1>3. executed' = Append(executed, r)
  BY <1>1, <1>2, PutAppends
<1>4. /\ DOMAIN executed' = 1..n + 1
      /\ executed'[n + 1] = r
      /\ \A k \in 1..n : executed'[k] = executed[k]
  BY <1>1, <1>3
<1> HIDE DEF n
<1>5. ASSUME NEW k \in 1..n PROVE ResultLog(executed[k])'
  <2>1. PICK x : x = executed[k]
    OBVIOUS
  <2>2. ResultLog(x) /\ Kept(x.step)
    BY <1>1, <1>2, <2>1 DEF ExecutedLog
  <2>3. ResultLog(x)'
    BY <2>2, KeptResultLog
  <2>4. x = executed'[k]
    BY <1>4, <2>1
  <2> QED
    BY <2>3, <2>4
<1>6. ASSUME NEW k, k = n + 1 PROVE ResultLog(executed[k])'
  BY <1>4, <1>6
<1>7. \A k : k \in 1..n + 1 => k \in 1..n \/ k = n + 1
  BY <1>1
<1>8. ExecutedLog'
  BY <1>4, <1>5, <1>6, <1>7 DEF ExecutedLog
<1>9. \A k \in 1..n : k \in 1..n + 1
  BY <1>1
<1>10. n + 1 \in 1..n + 1
  BY <1>1
<1> QED
  BY <1>1, <1>4, <1>8, <1>9, <1>10

\* An attempt adds to the history of its step.
LEMMA AttemptLogged ==
  ASSUME TypeOK, NEW i, i = current, i \in DOMAIN wf.steps, StepLog(i), VisitLog,
         pc = "invoke", wf' = wf, NEW outcome, Policy(i).retries \in Nat,
         NEW c, c = attempts + 1, Log("invoke", i, c, outcome)
  PROVE  /\ StepLog(i)'
         /\ (Logged("StepStarted", i) # {})'
         /\ Counts(i)' = 1..c
         /\ (\E j \in Logged("approve", i) : log[j].outcome = "approved") =>
              (\E j \in Logged("approve", i) : log[j].outcome = "approved")'
         /\ outcome # "returned" /\ Retryable(i, outcome) => Repeatable(i, c)'
<1> DEFINE n == Len(log)
           tries == Logged("invoke", i)
<1>1. /\ n \in Nat
      /\ attempts \in Nat
      /\ \A k \in tries : k \in 1..n /\ log'[k] = log[k]
      /\ \A k \in Logged("approve", i) : k \in 1..n /\ log'[k] = log[k]
      /\ log'[n + 1].count = c
      /\ log'[n + 1].outcome = outcome
  BY LoggedAppended, LogAppended DEF Log, TypeOK
<1>2. /\ Logged("invoke", i)' = tries \cup {n + 1}
      /\ Logged("approve", i)' = Logged("approve", i)
      /\ Logged("StepStarted", i)' = Logged("StepStarted", i)
  <2>1. PICK e : log' = Append(log, e) /\ e.kind = "invoke" /\ e.step = i
    BY DEF Log
  <2>2. Logged("invoke", i)' = tries \cup {n + 1}
    BY <2>1, LoggedAppended
  <2>3. ASSUME NEW kind \in {"approve", "StepStarted"} PROVE Logged(kind, i)' = Logged(kind, i)
    <3>1. ~(e.kind = kind /\ e.step = i)
      BY <2>1
    <3>2. Logged(kind, i)' =
            Logged(kind, i) \cup (IF e.kind = kind /\ e.step = i THEN {n + 1} ELSE {})
      BY <2>1, LoggedAppended
    <3> QED
      BY <3>1, <3>2
  <2> QED
    BY <2>2, <2>3
<1>3. /\ Logged("StepStarted", i) # {}
      /\ Counts(i) = 1..attempts
      /\ attempts <= Policy(i).retries
      /\ attempts > 0 => Repeatable(i, attempts)
      /\ wf.steps[i].requiresApproval =>
           \E j \in Logged("approve", i) : log[j].outcome = "approved"
  BY DEF VisitLog, Step
<1>4. Policy(i)' = Policy(i)
  BY DEF Policy, OwnOr
<1>5. \A k \in tries : log[k].count \in 1..attempts
  BY <1>3 DEF Counts
<1> HIDE DEF n
<1>6. ~(n + 1 \in tries) /\ \A k \in tries : k < n + 1
  BY <1>1
<1>7. ASSUME NEW d, Repeatable(i, d) PROVE Repeatable(i, d)'
  BY <1>1, <1>2, <1>4, <1>7 DEF Repeatable, Retryable
<1>8. ASSUME outcome # "returned", Retryable(i, outcome) PROVE Repeatable(i, c)'
  BY <1>1, <1>2, <1>4, <1>8 DEF Repeatable, Retryable
<1>10. Counts(i)' = 1..c
  <2>1. \A x : x \in Counts(i)' <=> x \in Counts(i) \/ x = c
    BY <1>1, <1>2 DEF Counts
  <2>2. \A x : x \in 1..c <=> x \in 1..attempts \/ x = c
    BY <1>1
  <2> QED
    BY <2>1, <2>2, <1>3
<1>11. ASSUME NEW k \in tries \cup {n + 1}, wf.steps[i].requiresApproval
       PROVE  Approved(i, k)'
  <2>1. CASE k \in tries
    BY <2>1, <1>1, <1>2, <1>11 DEF StepLog, Approved
  <2>2. CASE k = n + 1
    BY <2>2, <1>1, <1>2, <1>3, <1>11 DEF Approved
  <2> QED
    BY <2>1, <2>2
<1>12. ASSUME NEW j \in tries \cup {n + 1}, NEW k \in tries \cup {n + 1}, j < k
       PROVE  log'[j].count < log'[k].count
  <2>1. j \in tries
    BY <1>1, <1>12
  <2>2. CASE k \in tries
    BY <2>1, <2>2, <1>1, <1>12 DEF StepLog
  <2>3. CASE k = n + 1
    <3>1. log'[j].count \in 1..attempts
      BY <2>1, <1>1, <1>5
    <3>2. log'[k].count = c
      BY <2>3, <1>1
    <3> QED
      BY <3>1, <3>2, <1>1
  <2> QED
    BY <2>2, <2>3
<1>13. ASSUME NEW k \in tries \cup {n + 1}
       PROVE  /\ log'[k].count \in 1..Policy(i).retries + 1
              /\ log'[k].count > 1 => (\E d : d = log'[k].count - 1 /\ Repeatable(i, d)')
  <2>1. PICK d : d = log'[k].count - 1
    OBVIOUS
  <2>2. CASE k \in tries
    <3>1. log'[k] = log[k]
      BY <2>2, <1>1
    <3>2. log[k].count > 1 => Repeatable(i, d)
      BY <2>1, <2>2, <3>1 DEF StepLog
    <3> QED
      BY <2>1, <2>2, <3>1, <3>2, <1>7 DEF StepLog
  <2>3. CASE k = n + 1
    <3>1. d = attempts /\ log'[k].count = attempts + 1
      BY <2>1, <2>3, <1>1
    <3>2. attempts > 0 => Repeatable(i, d)'
      BY <3>1, <1>3, <1>7
    <3> QED
      BY <3>1, <3>2, <2>1, <1>1, <1>3
  <2> QED
    BY <2>2, <2>3
<1>14. StepLog(i)'
  BY <1>2, <1>3, <1>4, <1>11, <1>12, <1>13 DEF StepLog
<1> QED
  BY <1>1, <1>2, <1>3, <1>8, <1>10, <1>14

\* The entries of a visit before its first attempt.
LEMMA VisitLogged ==
  ASSUME TypeOK, NEW i, wf' = wf, Logged("approve", i) = {}, Logged("invoke", i) = {},
         NEW e, log' = Append(log, e), e.step = i,
         \/ e.kind = "StepStarted"
         \/ e.kind = "approve" /\ wf.steps[i].requiresApproval /\ Logged("StepStarted", i) # {}
  PROVE  /\ StepLog(i)'
         /\ Logged("StepStarted", i)' # {}
         /\ Logged("invoke", i)' = {}
         /\ Counts(i)' = {}
         /\ e.kind = "StepStarted" => Logged("approve", i)' = {}
         /\ e.kind = "approve" => (\E j \in Logged("approve", i) : log[j].outcome = e.outcome)'
<1> DEFINE n == Len(log)
<1>1. /\ Logged("StepStarted", i)' =
           Logged("StepStarted", i) \cup (IF e.kind = "StepStarted" /\ e.step = i THEN {n + 1} ELSE {})
      /\ Logged("approve", i)' =
           Logged("approve", i) \cup (IF e.kind = "approve" /\ e.step = i THEN {n + 1} ELSE {})
      /\ Logged("invoke", i)' =
           Logged("invoke", i) \cup (IF e.kind = "invoke" /\ e.step = i THEN {n + 1} ELSE {})
      /\ log'[n + 1] = e
  BY LoggedAppended, LogAppended
<1> HIDE DEF n
<1>2. Logged("invoke", i)' = {}
  BY <1>1
<1>3. Logged("StepStarted", i)' # {}
  BY <1>1
<1>4. e.kind = "StepStarted" => Logged("approve", i)' = {}
  BY <1>1
<1>5. e.kind = "approve" => Logged("approve", i)' = {n + 1}
  BY <1>1
<1>6. StepLog(i)'
  BY <1>2, <1>3, <1>4, <1>5 DEF StepLog
<1>7. Counts(i)' = {}
  BY <1>2 DEF Counts
<1> QED
  BY <1>1, <1>2, <1>3, <1>4, <1>5, <1>6, <1>7

-------------------------------------------------------------------------------
(* The result.                                                              *)

\* What ResultAccountsForTheRun says of the steps of the result.
AccountsFor(steps) ==
  /\ \A j, k \in DOMAIN steps : j < k => steps[j].step < steps[k].step
  /\ \A i \in DOMAIN wf.steps :
       /\ Logged("StepStarted", i) # {} => \E k \in DOMAIN steps : steps[k].step = i
       /\ UsesRoutes(wf) => i \in DOMAIN steps /\ steps[i].step = i
  /\ \A k \in DOMAIN steps :
       /\ steps[k].status = "skipped" <=> Logged("StepStarted", steps[k].step) = {}
       /\ Counts(steps[k].step) = 1..steps[k].attempts

LEMMA AccountsStated ==
  ResultAccountsForTheRun <=>
    (result # None /\ result.error # HookError("workflowStarted") => AccountsFor(result.steps))
<1>1. \A i : {log[j].count : j \in Logged("invoke", i)} = Counts(i)
  BY DEF Counts
<1> QED
  BY <1>1 DEF ResultAccountsForTheRun, AccountsFor, UsesRoutes

\* A result that accounts for the run goes on doing so: no step is added to it.
LEMMA AccountKept ==
  ASSUME ResultAccountsForTheRun, wf' = wf, \A i : Kept(i),
         result' # None /\ result'.error # HookError("workflowStarted") =>
           result # None /\ result.error # HookError("workflowStarted") /\ result'.steps = result.steps
  PROVE  ResultAccountsForTheRun'
<1>1. \A i : Logged("StepStarted", i)' = Logged("StepStarted", i) /\ Counts(i)' = Counts(i)
  BY KeptCounts DEF Kept, Kinds
<1>2. ASSUME NEW steps, AccountsFor(steps) PROVE AccountsFor(steps)'
  BY <1>1, <1>2 DEF AccountsFor, UsesRoutes
<1>3. (ResultAccountsForTheRun <=>
         (result # None /\ result.error # HookError("workflowStarted") => AccountsFor(result.steps)))'
  BY AccountsStated, PTL
<1> SUFFICES ASSUME result' # None, result'.error # HookError("workflowStarted")
             PROVE  AccountsFor(result.steps)'
  BY <1>3 DEF HookError, Error
<1>4. PICK steps : steps = result.steps
  OBVIOUS
<1>5. steps = result'.steps /\ AccountsFor(steps)
  BY <1>4, AccountsStated DEF HookError, Error
<1>6. AccountsFor(steps)'
  BY <1>2, <1>5
<1> QED
  BY <1>5, <1>6

\* finalize_step_results accounts for every step that was started.
LEMMA FinalizeAccounts ==
  ASSUME IInv, RInv, HInv, pc = "buildResult",
         NEW reason \in {"workflow_ended", "workflow_failed"}
  PROVE  AccountsFor(FinalizeStepResults(wf, executed, reason))
<1> DEFINE f == FinalizeStepResults(wf, executed, reason)
<1>1. ASSUME NEW k \in DOMAIN executed
      PROVE  /\ executed[k].step \in DOMAIN wf.steps
             /\ executed[k].status # "skipped"
             /\ Logged("StepStarted", executed[k].step) # {}
             /\ Counts(executed[k].step) = 1..executed[k].attempts
  BY <1>1 DEF RInv, Recorded, HInv, ExecutedLog, ResultLog
<1>2. ASSUME NEW i \in DOMAIN wf.steps, Logged("StepStarted", i) # {}
      PROVE  \E k \in DOMAIN executed : executed[k].step = i
  BY <1>2 DEF HInv, StartsRecorded
<1>3. CASE ~UsesRoutes(wf)
  <2>1. f = executed
    BY <1>3 DEF FinalizeStepResults
  <2>2. AccountsFor(executed)
    BY <1>1, <1>2, <1>3 DEF AccountsFor, RInv, Recorded
  <2> QED
    BY <2>1, <2>2
<1>4. CASE UsesRoutes(wf)
  <2>1. f = [i \in DOMAIN wf.steps |-> IF \E k \in DOMAIN executed : executed[k].step = i
                                       THEN ResultOf(executed, i) ELSE SkippedResult(i, reason)]
    BY <1>4 DEF FinalizeStepResults
  <2> HIDE DEF f
  <2>2. DOMAIN f = DOMAIN wf.steps
    BY <2>1
  <2>3. ASSUME NEW i \in DOMAIN wf.steps
        PROVE  /\ f[i].step = i
               /\ f[i].status = "skipped" <=> Logged("StepStarted", i) = {}
               /\ Counts(i) = 1..f[i].attempts
    <3>1. CASE \E k \in DOMAIN executed : executed[k].step = i
      <4> DEFINE k == CHOOSE j \in DOMAIN executed : executed[j].step = i
      <4>1. k \in DOMAIN executed /\ executed[k].step = i
        BY <3>1, Zenon
      <4>2. f[i] = executed[k]
        BY <2>1, <3>1 DEF ResultOf
      <4> HIDE DEF k
      <4> QED
        BY <4>1, <4>2, <1>1
    <3>2. CASE ~ \E k \in DOMAIN executed : executed[k].step = i
      <4>1. f[i].step = i /\ f[i].status = "skipped" /\ f[i].attempts = 0
        BY <2>1, <3>2 DEF SkippedResult
      <4>2. Logged("StepStarted", i) = {}
        BY <3>2, <1>2
      <4>3. Logged("invoke", i) = {}
        BY <4>2 DEF HInv, StepLogs, StepLog
      <4>4. Counts(i) = {}
        BY <4>3 DEF Counts
      <4> QED
        BY <4>1, <4>2, <4>4
    <3> QED
      BY <3>1, <3>2
  <2>4. AccountsFor(f)
    BY <2>2, <2>3 DEF AccountsFor
  <2> QED
    BY <2>4 DEF f
<1> QED
  BY <1>3, <1>4

-------------------------------------------------------------------------------
(* The invariant.                                                           *)

LEMMA InitHInv == Init => HInv
<1> SUFFICES ASSUME Init PROVE HInv
  OBVIOUS
<1>1. \A kind, i : Logged(kind, i) = {}
  BY DEF Init, Logged
<1>2. /\ executed = <<>>
      /\ result = None
      /\ pc = "validate"
  BY DEF Init
<1>3. StepLogs /\ VisitLog /\ StartsRecorded
  BY <1>1, <1>2 DEF StepLogs, StepLog, VisitLog, NoLog, StartsRecorded
<1> QED
  BY <1>2, <1>3 DEF HInv, ExecutedLog, ResultAccountsForTheRun

\* Nothing is known of the steps after the current one.
LEMMA LaterKept ==
  ASSUME VisitLog, pc \in Before, \A i \in Nat : i # current => Kept(i), current \in Nat
  PROVE  \A i \in Nat : i > current => NoLog(i)'
BY DEF VisitLog, NoLog, Kept

\* A step of the body that records nothing.
LEMMA NothingAdded ==
  ASSUME IInv, HInv, wf' = wf, executed' = executed, \A i : Kept(i), VisitLog', StartsRecorded',
         pc' \in {"buildResult", "workflowFinished"} => workflowError' # HookError("workflowStarted"),
         ResultAccountsForTheRun'
  PROVE  HInv'
<1>1. StepLogs'
  BY KeptStepLog DEF HInv, StepLogs
<1>2. ExecutedLog'
  BY ExecutedLogKept DEF IInv, HInv
<1> QED
  BY <1>1, <1>2 DEF HInv, HookError, Error

\* A step of the body inside a visit.
LEMMA VisitGoesOn ==
  ASSUME IInv, RInv, HInv, pc \in Visiting, UNCHANGED <<wf, current, executed>>,
         \A i \in Nat : i # current => Kept(i), \A i : i = current => StepLog(i)',
         VisitLog', pc' \in {"approve", "invoke", "stepFinished"}, result' = None
  PROVE  HInv'
<1>1. DOMAIN wf.steps \subseteq Nat
  BY DefinitionOfRun DEF IInv
<1>2. StepLogs'
  BY <1>1, KeptStepLog DEF HInv, StepLogs
<1>3. \A k \in DOMAIN executed : executed[k].step \in Nat /\ executed[k].step < current
  BY <1>1 DEF RInv, Recorded, Accounted, Before
<1>4. \A k \in DOMAIN executed : executed[k].step # current
  BY <1>3 DEF IInv, TypeOK
<1>5. ExecutedLog'
  BY <1>3, <1>4, ExecutedLogKept DEF IInv, HInv
<1>6. StartsRecorded'
  <2> SUFFICES ASSUME NEW i \in DOMAIN wf.steps, Logged("StepStarted", i)' # {}, i # current
               PROVE  \E k \in DOMAIN executed : executed[k].step = i
    BY DEF StartsRecorded
  <2>1. Logged("StepStarted", i)' = Logged("StepStarted", i)
    BY <1>1 DEF Kept, Kinds
  <2> QED
    BY <2>1 DEF HInv, StartsRecorded, Before
<1> QED
  BY <1>2, <1>5, <1>6 DEF HInv, ResultAccountsForTheRun

\* A visit ends with a result.
LEMMA VisitEnds ==
  ASSUME IInv, RInv, HInv, pc \in Visiting, wf' = wf, NEW r, r.step = current,
         executed' = Put(executed, r), ResultLog(r)',
         \A i \in Nat : i # current => Kept(i), \A i : i = current => StepLog(i)',
         \/ pc' = "buildResult" /\ workflowError' = r.error
         \/ pc' = "loop" /\ current' \in Nat /\ current < current',
         result' = None
  PROVE  HInv'
<1>1. DOMAIN wf.steps \subseteq Nat /\ current \in Nat
  BY DefinitionOfRun DEF IInv, TypeOK
<1>2. StepLogs'
  BY <1>1, KeptStepLog DEF HInv, StepLogs
<1>3. /\ ExecutedLog'
      /\ \A k \in DOMAIN executed : \E j \in DOMAIN executed' : executed'[j].step = executed[k].step
      /\ \E j \in DOMAIN executed' : executed'[j].step = current
  BY ResultRecorded DEF HInv
<1>4. VisitLog'
  <2>1. CASE pc' = "buildResult"
    BY <2>1 DEF VisitLog, Before, Visiting
  <2>2. CASE pc' = "loop" /\ current' \in Nat /\ current < current'
    <3>1. \A i \in Nat : i > current => NoLog(i)'
      BY <1>1, LaterKept DEF HInv, Before
    <3>2. PICK m : m = current'
      OBVIOUS
    <3>3. NoLog(m)' /\ \A i \in Nat : i > m => NoLog(i)'
      BY <1>1, <2>2, <3>1, <3>2
    <3> QED
      BY <2>2, <3>2, <3>3 DEF VisitLog
  <2> QED
    BY <2>1, <2>2
<1>5. StartsRecorded'
  <2> SUFFICES ASSUME NEW i \in DOMAIN wf.steps, Logged("StepStarted", i)' # {}
               PROVE  \E k \in DOMAIN executed' : executed'[k].step = i
    BY DEF StartsRecorded
  <2>1. CASE i = current
    BY <2>1, <1>3
  <2>2. CASE i # current
    <3>1. Logged("StepStarted", i)' = Logged("StepStarted", i)
      BY <1>1, <2>2 DEF Kept, Kinds
    <3>2. PICK k \in DOMAIN executed : executed[k].step = i
      BY <2>2, <3>1 DEF HInv, StartsRecorded, Before
    <3> QED
      BY <3>2, <1>3
  <2> QED
    BY <2>1, <2>2
<1>6. pc' = "buildResult" => workflowError' # HookError("workflowStarted")
  <2>1. HookError("workflowStarted") # None /\ HookError("workflowStarted").at = "workflowStarted"
    BY HookErrorTyped, NoneAssumption DEF Places, HookError, Error
  <2>2. r.error # None => r.error.at # "workflowStarted"
    BY DEF ResultLog
  <2> QED
    BY <2>1, <2>2
<1> QED
  BY <1>2, <1>3, <1>4, <1>5, <1>6 DEF HInv, ResultAccountsForTheRun, HookError, Error

LEMMA NextHInv == IInv /\ RInv /\ HInv /\ [Next]_vars => HInv'
<1> SUFFICES ASSUME IInv, RInv, HInv, [Next]_vars PROVE HInv'
  OBVIOUS
<1>a. /\ TypeOK /\ Control
      /\ StepLogs /\ ExecutedLog /\ VisitLog /\ StartsRecorded /\ ResultAccountsForTheRun
      /\ current \in Nat /\ attempts \in Nat /\ NumHooks \in Nat
  BY HooksCounted DEF IInv, HInv, TypeOK
<1>b. DOMAIN wf.steps \subseteq Nat
  BY DefinitionOfRun, <1>a
<1>c. HookError("workflowStarted") # None
  BY HookErrorTyped, NoneAssumption DEF Places
<1>d. ASSUME log' = log \/ \E e : log' = Append(log, e) /\ e.kind \notin Kinds
      PROVE  \A i : Kept(i)
  BY <1>a, <1>d, AllKept
<1>e. ASSUME NEW e, log' = Append(log, e), e.step = current
      PROVE  \A i \in Nat : i # current => Kept(i)
  BY <1>a, <1>e, OtherStepsKept
<1>1. ASSUME NEW class, Escape(class), wf' = wf, \A i : Kept(i) PROVE HInv'
  <2>1. VisitLog' /\ StartsRecorded'
    BY <1>1 DEF Escape, VisitLog, StartsRecorded, Before, Visiting
  <2>2. ResultAccountsForTheRun'
    BY <1>1, <1>a, AccountKept DEF Escape
  <2> QED
    BY <1>1, <2>1, <2>2, NothingAdded DEF Escape
<1>2. CASE RejectInput
  BY <1>2, <1>1, <1>d DEF RejectInput, input
<1>3. CASE AcceptInput \/ WorkflowStarted \/ EnterStep
  <2>1. \A i : Kept(i)
    <3>1. log' = log \/ \E e : log' = Append(log, e) /\ e.kind \notin Kinds
      BY <1>3 DEF AcceptInput, WorkflowStarted, EnterStep, Log, Kinds
    <3> QED
      BY <3>1, <1>d
  <2>2. /\ UNCHANGED <<wf, current, executed, result>>
        /\ pc \in {"validate", "workflowStarted", "loop"}
        /\ pc' \in {"workflowStarted", "loop", "stepStarted"}
        /\ pc' = "stepStarted" => attempts' = 0
    BY <1>3 DEF AcceptInput, WorkflowStarted, EnterStep, input, visit
  <2>3. VisitLog'
    <3>1. NoLog(current)'
      BY <2>1, <2>2, <1>a DEF VisitLog, NoLog, Kept
    <3>2. \A i \in Nat : i > current => NoLog(i)'
      BY <2>1, <2>2, <1>a, LaterKept DEF Before
    <3> QED
      BY <2>2, <3>1, <3>2 DEF VisitLog
  <2>4. StartsRecorded'
    <3>1. \A i : Logged("StepStarted", i)' = Logged("StepStarted", i)
      BY <2>1 DEF Kept, Kinds
    <3> QED
      BY <3>1, <2>2, <1>a DEF StartsRecorded, Before
  <2>5. ResultAccountsForTheRun'
    BY <2>1, <2>2, <1>a, AccountKept
  <2> QED
    BY <2>1, <2>2, <2>3, <2>4, <2>5, NothingAdded
<1>4. CASE LeaveLoop
  <2>1. \A i : Kept(i)
    BY <1>4, <1>d DEF LeaveLoop
  <2>2. /\ UNCHANGED <<wf, current, executed, result, workflowError>>
        /\ pc = "loop"
        /\ pc' = "buildResult"
        /\ workflowError = None
    BY <1>4, <1>a DEF LeaveLoop, input, Control, Before
  <2>3. VisitLog'
    BY <2>2 DEF VisitLog, Before, Visiting
  <2>4. StartsRecorded'
    <3>1. \A i : Logged("StepStarted", i)' = Logged("StepStarted", i)
      BY <2>1 DEF Kept, Kinds
    <3> QED
      BY <3>1, <2>2, <1>a DEF StartsRecorded, Before
  <2>5. ResultAccountsForTheRun'
    BY <2>1, <2>2, <1>a, AccountKept
  <2> QED
    BY <2>1, <2>2, <2>3, <2>4, <2>5, <1>c, NothingAdded
<1>5. CASE WorkflowStartedHookFails
  <2>1. /\ UNCHANGED <<wf, executed>>
        /\ pc' = "return"
        /\ result'.error = HookError("workflowStarted")
    BY <1>5 DEF WorkflowStartedHookFails, input
  <2>2. \A i : Kept(i)
    BY <1>5, <1>d DEF WorkflowStartedHookFails, Log, Kinds
  <2>3. VisitLog' /\ StartsRecorded'
    BY <2>1 DEF VisitLog, StartsRecorded, Before, Visiting
  <2>4. ResultAccountsForTheRun'
    BY <2>1 DEF ResultAccountsForTheRun, HookError, Error
  <2> QED
    BY <2>1, <2>2, <2>3, <2>4, NothingAdded
<1>6. CASE RejectMethod
  BY <1>6, <1>1, <1>d DEF RejectMethod, input
<1>7. ASSUME pc \in Visiting PROVE current \in DOMAIN wf.steps /\ result = None /\ pc \in Before
  BY <1>7, <1>a DEF Control, Before
<1>8. ASSUME pc \in Visiting, \A i \in Nat : i # current => Kept(i)
      PROVE  \A i \in Nat : i > current => NoLog(i)'
  BY <1>7, <1>8, <1>a, LaterKept
<1>9. ASSUME pc = "stepStarted", wf' = wf,
             \E e : log' = Append(log, e) /\ e.kind = "StepStarted" /\ e.step = current
      PROVE  /\ \A i \in Nat : i # current => Kept(i)
             /\ \A i : i = current =>
                  /\ StepLog(i)'
                  /\ Logged("StepStarted", i)' # {}
                  /\ Logged("invoke", i)' = {}
                  /\ Logged("approve", i)' = {}
                  /\ Counts(i)' = {}
  <2>1. PICK i : i = current
    OBVIOUS
  <2>2. PICK e : log' = Append(log, e) /\ e.kind = "StepStarted" /\ e.step = i
    BY <2>1, <1>9
  <2>3. Logged("approve", i) = {} /\ Logged("invoke", i) = {}
    BY <2>1, <1>9, <1>a DEF VisitLog, NoLog, Kinds
  <2>4. /\ StepLog(i)'
        /\ Logged("StepStarted", i)' # {}
        /\ Logged("invoke", i)' = {}
        /\ Logged("approve", i)' = {}
        /\ Counts(i)' = {}
    BY <2>2, <2>3, <1>9, <1>a, VisitLogged
  <2> QED
    BY <2>1, <2>2, <2>4, <1>e
<1>9a. ASSUME pc = "approve", wf' = wf, NEW o,
              \E e : log' = Append(log, e) /\ e.kind = "approve" /\ e.step = current /\ e.outcome = o
       PROVE  /\ \A i \in Nat : i # current => Kept(i)
              /\ \A i : i = current =>
                   /\ StepLog(i)'
                   /\ Logged("StepStarted", i)' # {}
                   /\ Counts(i)' = {}
                   /\ (\E j \in Logged("approve", i) : log[j].outcome = o)'
  <2>1. PICK i : i = current
    OBVIOUS
  <2>2. PICK e : log' = Append(log, e) /\ e.kind = "approve" /\ e.step = i /\ e.outcome = o
    BY <2>1, <1>9a
  <2>3. /\ Logged("approve", i) = {}
        /\ Logged("invoke", i) = {}
        /\ wf.steps[i].requiresApproval
        /\ Logged("StepStarted", i) # {}
    BY <2>1, <1>9a, <1>a DEF VisitLog, Step
  <2>4. /\ StepLog(i)'
        /\ Logged("StepStarted", i)' # {}
        /\ Counts(i)' = {}
        /\ (\E j \in Logged("approve", i) : log[j].outcome = o)'
    BY <2>2, <2>3, <1>9a, <1>a, VisitLogged
  <2> QED
    BY <2>1, <2>2, <2>4, <1>e
<1>10. CASE StepStarted
  <2>1. PICK e : log' = Append(log, e) /\ e.kind = "StepStarted" /\ e.step = current
    BY <1>10 DEF StepStarted, Log
  <2>2. /\ UNCHANGED <<wf, current, executed, result>>
        /\ attempts' = attempts
        /\ pc = "stepStarted"
        /\ pc' = IF Step.requiresApproval THEN "approve" ELSE "invoke"
    BY <1>10 DEF StepStarted, input, visit
  <2>3. /\ \A i \in Nat : i # current => Kept(i)
        /\ \A i : i = current =>
             /\ StepLog(i)'
             /\ Logged("StepStarted", i)' # {}
             /\ Logged("invoke", i)' = {}
             /\ Counts(i)' = {}
             /\ Logged("approve", i)' = {}
    BY <2>1, <2>2, <1>9
  <2>4. attempts = 0 /\ Policy(current).retries \in Nat
    BY <2>2, <1>a, <1>7, PolicyIsBounded, DefinitionOfRun DEF VisitLog, Control, Policy, OwnOr, RetryPolicy, Visiting
  <2>5. VisitLog'
    <3>1. \A i \in Nat : i > current => NoLog(i)'
      BY <2>2, <2>3, <1>8 DEF Visiting
    <3>2. PICK i : i = current
      OBVIOUS
    <3>3. Policy(i)' = Policy(i) /\ Step' = Step
      BY <2>2 DEF Policy, OwnOr, Step
    <3> QED
      BY <2>2, <2>3, <2>4, <3>1, <3>2, <3>3 DEF VisitLog
  <2>6. pc' \in {"approve", "invoke", "stepFinished"} /\ result' = None
    BY <2>2, <1>7 DEF Visiting
  <2> QED
    BY <2>2, <2>3, <2>5, <2>6, VisitGoesOn DEF Visiting
<1>11. CASE StepStartedHookFails
  <2>1. PICK e : log' = Append(log, e) /\ e.kind = "StepStarted" /\ e.step = current
    BY <1>11 DEF StepStartedHookFails, Log
  <2>2. PICK r : r = Result("failed", 0, None, HookError(pc), None)
    OBVIOUS
  <2>3. /\ wf' = wf
        /\ result' = result
        /\ pc = "stepStarted"
        /\ pc' = "buildResult"
        /\ executed' = Put(executed, r)
        /\ workflowError' = HookError("stepStarted")
    BY <1>11, <2>2 DEF StepStartedHookFails, FailByHook, input, HookError, Error
  <2>4. /\ r.step = current
        /\ r.status = "failed"
        /\ r.attempts = 0
        /\ r.error = HookError("stepStarted")
        /\ r.error.at = "stepStarted"
    BY <2>2, <2>3 DEF Result, HookError, Error
  <2>5. /\ \A i \in Nat : i # current => Kept(i)
        /\ \A i : i = current => StepLog(i)' /\ Logged("StepStarted", i)' # {} /\ Counts(i)' = {}
    BY <2>1, <2>3, <1>9
  <2>6. ResultLog(r)'
    BY <2>4, <2>5 DEF ResultLog
  <2>7. result' = None
    BY <2>3, <1>7 DEF Visiting
  <2> QED
    BY <2>3, <2>4, <2>5, <2>6, <2>7, VisitEnds DEF Visiting
<1>12. CASE Approve
  <2>1. PICK e : log' = Append(log, e) /\ e.kind = "approve" /\ e.step = current /\ e.outcome = "approved"
    BY <1>12 DEF Approve, Log
  <2>2. /\ UNCHANGED <<wf, current, executed, result>>
        /\ attempts' = attempts
        /\ decision' = "approved"
        /\ pc = "approve"
        /\ pc' = "invoke"
    BY <1>12 DEF Approve, input, visit
  <2>3. /\ \A i \in Nat : i # current => Kept(i)
        /\ \A i : i = current =>
             /\ StepLog(i)'
             /\ Logged("StepStarted", i)' # {}
             /\ Counts(i)' = {}
             /\ (\E j \in Logged("approve", i) : log[j].outcome = "approved")'
    BY <2>1, <2>2, <1>9a
  <2>4. attempts = 0 /\ Policy(current).retries \in Nat
    BY <2>2, <1>a, <1>7, PolicyIsBounded, DefinitionOfRun DEF VisitLog, Control, Policy, OwnOr, RetryPolicy, Visiting
  <2>5. VisitLog'
    <3>1. \A i \in Nat : i > current => NoLog(i)'
      BY <2>2, <2>3, <1>8 DEF Visiting
    <3>2. PICK i : i = current
      OBVIOUS
    <3>3. Policy(i)' = Policy(i)
      BY <2>2 DEF Policy, OwnOr
    <3> QED
      BY <2>2, <2>3, <2>4, <3>1, <3>2, <3>3 DEF VisitLog
  <2>6. result' = None
    BY <2>2, <1>7 DEF Visiting
  <2> QED
    BY <2>2, <2>3, <2>5, <2>6, VisitGoesOn DEF Visiting
<1>13. CASE ApprovalFails
  <2>1. PICK r : r = stepResult'
    OBVIOUS
  <2>2. /\ UNCHANGED <<wf, current, executed, result>>
        /\ pc = "approve"
        /\ pc' = "stepFinished"
    BY <1>13 DEF ApprovalFails, input
  <2>3. /\ r.step = current
        /\ r.status = "failed"
        /\ r.attempts = 0
        /\ r.error.at = "approve"
    BY <1>13, <2>1 DEF ApprovalFails, Result, Error
  <2>4. /\ \A i \in Nat : i # current => Kept(i)
        /\ \A i : i = current => StepLog(i)' /\ Logged("StepStarted", i)' # {} /\ Counts(i)' = {}
    <3>1. CASE log' = log
      <4>1. \A i : Kept(i)
        BY <3>1, <1>d
      <4>2. PICK i : i = current
        OBVIOUS
      <4>3. StepLog(i) /\ Logged("StepStarted", i) # {} /\ Logged("invoke", i) = {}
        BY <4>2, <2>2, <1>a, <1>7 DEF VisitLog, StepLogs, Visiting
      <4>4. StepLog(i)' /\ Counts(i)' = Counts(i) /\ Logged("StepStarted", i)' # {}
        BY <4>1, <4>3, <2>2, KeptStepLog, KeptCounts DEF Kept, Kinds
      <4>5. Counts(i) = {}
        BY <4>3 DEF Counts
      <4> QED
        BY <4>1, <4>2, <4>4, <4>5
    <3>2. ASSUME NEW o, \E e : log' = Append(log, e) /\ e.kind = "approve" /\ e.step = current /\ e.outcome = o
          PROVE  /\ \A i \in Nat : i # current => Kept(i)
                 /\ \A i : i = current => StepLog(i)' /\ Logged("StepStarted", i)' # {} /\ Counts(i)' = {}
      BY <3>2, <2>2, <1>9a
    <3>3. \/ log' = log
          \/ \E c : Log("approve", current, 0, c)
      BY <1>13 DEF ApprovalFails
    <3>4. \A o : Log("approve", current, 0, o) =>
            \E e : log' = Append(log, e) /\ e.kind = "approve" /\ e.step = current /\ e.outcome = o
      BY DEF Log
    <3> QED
      BY <3>1, <3>2, <3>3, <3>4
  <2>5. ResultLog(r)'
    BY <2>3, <2>4 DEF ResultLog
  <2>6. VisitLog'
    <3>1. \A i \in Nat : i > current => NoLog(i)'
      BY <2>2, <2>4, <1>8 DEF Visiting
    <3> QED
      BY <2>1, <2>2, <2>5, <3>1 DEF VisitLog
  <2>7. result' = None
    BY <2>2, <1>7 DEF Visiting
  <2> QED
    BY <2>2, <2>4, <2>6, <2>7, VisitGoesOn DEF Visiting
<1>14. ASSUME pc = "invoke", wf' = wf, NEW c, c = attempts + 1, NEW outcome,
              Log("invoke", current, c, outcome)
       PROVE  /\ \A i \in Nat : i # current => Kept(i)
              /\ \A i : i = current =>
                   /\ StepLog(i)'
                   /\ Logged("StepStarted", i)' # {}
                   /\ Counts(i)' = 1..c
                   /\ (\E j \in Logged("approve", i) : log[j].outcome = "approved") =>
                        (\E j \in Logged("approve", i) : log[j].outcome = "approved")'
                   /\ outcome # "returned" /\ Retryable(i, outcome) => Repeatable(i, c)'
              /\ Policy(current).retries \in Nat
              /\ attempts <= Policy(current).retries
              /\ Step.requiresApproval =>
                   /\ decision = "approved"
                   /\ \E j \in Logged("approve", current) : log[j].outcome = "approved"
  <2>1. PICK i : i = current
    OBVIOUS
  <2>2. i \in DOMAIN wf.steps /\ StepLog(i) /\ Policy(i).retries \in Nat
    BY <2>1, <1>14, <1>a, <1>7, PolicyIsBounded, DefinitionOfRun DEF StepLogs, Control, Policy, OwnOr, RetryPolicy, Visiting
  <2>3. Log("invoke", i, c, outcome)
    BY <2>1, <1>14
  <2>4. /\ StepLog(i)'
        /\ Logged("StepStarted", i)' # {}
        /\ Counts(i)' = 1..c
        /\ (\E j \in Logged("approve", i) : log[j].outcome = "approved") =>
             (\E j \in Logged("approve", i) : log[j].outcome = "approved")'
        /\ outcome # "returned" /\ Retryable(i, outcome) => Repeatable(i, c)'
    BY <2>1, <2>2, <2>3, <1>14, <1>a, AttemptLogged
  <2>5. \A x \in Nat : x # current => Kept(x)
    BY <1>14, <1>e DEF Log
  <2>6. /\ attempts <= Policy(current).retries
        /\ Step.requiresApproval =>
             /\ decision = "approved"
             /\ \E j \in Logged("approve", current) : log[j].outcome = "approved"
    BY <1>14, <1>a DEF VisitLog
  <2> QED
    BY <2>1, <2>2, <2>4, <2>5, <2>6
<1>15. ASSUME NEW output \in Outputs, InvokeReturns(output) PROVE HInv'
  <2>1. PICK c, r : c = attempts + 1 /\ r = stepResult'
    OBVIOUS
  <2>2. /\ UNCHANGED <<wf, current, executed, result>>
        /\ pc = "invoke"
        /\ pc' = "stepFinished"
        /\ Log("invoke", current, c, "returned")
    BY <1>15, <2>1 DEF InvokeReturns, input
  <2>3. /\ r.step = current
        /\ r.attempts = c
        /\ r.decision = decision
        /\ r.error = None \/ r.error.at = "route"
    BY <1>15, <2>1 DEF InvokeReturns, Result, Error
  <2>4. /\ \A i \in Nat : i # current => Kept(i)
        /\ \A i : i = current => StepLog(i)' /\ Logged("StepStarted", i)' # {} /\ Counts(i)' = 1..c
        /\ Step.requiresApproval => decision = "approved"
    BY <2>1, <2>2, <1>14
  <2>5. ResultLog(r)'
    BY <2>2, <2>3, <2>4 DEF ResultLog, Step
  <2>6. VisitLog'
    <3>1. \A i \in Nat : i > current => NoLog(i)'
      BY <2>2, <2>4, <1>8 DEF Visiting
    <3> QED
      BY <2>1, <2>2, <2>5, <3>1 DEF VisitLog
  <2>7. result' = None
    BY <2>2, <1>7 DEF Visiting
  <2> QED
    BY <2>2, <2>4, <2>6, <2>7, VisitGoesOn DEF Visiting
<1>16. ASSUME NEW class \in Raised \cup {"RuntimeError"}, InvokeRaises(class) PROVE HInv'
  <2>1. PICK c, r : c = attempts + 1 /\ r = stepResult'
    OBVIOUS
  <2>2. /\ UNCHANGED <<wf, current, executed, result>>
        /\ decision' = decision
        /\ attempts' = c
        /\ pc = "invoke"
        /\ pc' \in {"invoke", "stepFinished"}
        /\ Log("invoke", current, c, class)
    BY <1>16, <2>1 DEF InvokeRaises, RetryFrom, input
  <2>3. class # "returned"
    BY ExecutorAssumption, OutcomeAssumption, ErrorAssumption DEF FrameworkErrors
  <2>4. /\ \A i \in Nat : i # current => Kept(i)
        /\ \A i : i = current =>
             /\ StepLog(i)'
             /\ Logged("StepStarted", i)' # {}
             /\ Counts(i)' = 1..c
             /\ (\E j \in Logged("approve", i) : log[j].outcome = "approved") =>
                  (\E j \in Logged("approve", i) : log[j].outcome = "approved")'
             /\ Retryable(i, class) => Repeatable(i, c)'
        /\ Policy(current).retries \in Nat
        /\ attempts <= Policy(current).retries
        /\ Step.requiresApproval =>
             /\ decision = "approved"
             /\ \E j \in Logged("approve", current) : log[j].outcome = "approved"
    BY <2>1, <2>2, <2>3, <1>14
  <2>5. \A i \in Nat : i > current => NoLog(i)'
    BY <2>2, <2>4, <1>8 DEF Visiting
  <2>6. VisitLog'
    <3>1. CASE ShouldRetry(RetryPolicy(wf, Step), class, c)
      <4>1. pc' = "invoke" /\ c <= Policy(current).retries /\ Retryable(current, class)
        BY <1>16, <3>1, <2>1 DEF InvokeRaises, RetryFrom, ShouldRetry, Policy, OwnOr, RetryPolicy, Retryable, Step
      <4>2. PICK i : i = current
        OBVIOUS
      <4>3. Policy(i)' = Policy(i) /\ Step' = Step /\ Repeatable(i, c)'
        BY <2>2, <2>4, <4>1, <4>2 DEF Policy, OwnOr, Step
      <4> QED
        BY <2>2, <2>4, <2>5, <4>1, <4>2, <4>3 DEF VisitLog
    <3>2. CASE ~ShouldRetry(RetryPolicy(wf, Step), class, c)
      <4>1. /\ pc' = "stepFinished"
            /\ r.step = current
            /\ r.status = "failed"
            /\ r.attempts = c
            /\ r.decision = decision
            /\ r.error.at = "invoke"
            /\ r.error.class = class
        BY <1>16, <3>2, <2>1 DEF InvokeRaises, Result, Error
      <4>2. Retryable(current, class) => c = Policy(current).retries + 1
        <5>1. Retryable(current, class) => ~(c <= Policy(current).retries)
          BY <3>2 DEF ShouldRetry, Policy, OwnOr, RetryPolicy, Retryable, Step
        <5> QED
          BY <5>1, <2>1, <2>4, <1>a
      <4>3. PICK i : i = current
        OBVIOUS
      <4>4. Policy(i)' = Policy(i) /\ (Retryable(i, class)' <=> Retryable(i, class))
        BY <2>2 DEF Policy, OwnOr, Retryable
      <4>5. ResultLog(r)'
        BY <2>2, <2>4, <4>1, <4>2, <4>3, <4>4 DEF ResultLog, Step
      <4> QED
        BY <2>1, <2>2, <2>5, <4>1, <4>5 DEF VisitLog
    <3> QED
      BY <3>1, <3>2
  <2>7. result' = None
    BY <2>2, <1>7 DEF Visiting
  <2> QED
    BY <2>2, <2>4, <2>6, <2>7, VisitGoesOn DEF Visiting
<1>17. ASSUME pc = "stepFinished", wf' = wf, result' = result, NEW r, r.step = current,
              executed' = Put(executed, r), ResultLog(r),
              \E e : log' = Append(log, e) /\ e.kind \notin Kinds,
              \/ pc' = "buildResult" /\ workflowError' = r.error
              \/ pc' = "loop" /\ current' \in Nat /\ current < current'
       PROVE  HInv'
  <2>1. \A i : Kept(i)
    BY <1>17, <1>d
  <2>2. ResultLog(r)'
    BY <2>1, <1>17, KeptResultLog
  <2>3. PICK i : i = current
    OBVIOUS
  <2>4. StepLog(i)'
    BY <2>1, <2>3, <1>17, <1>7, <1>a, KeptStepLog DEF StepLogs, Visiting
  <2>5. result' = None
    BY <1>17, <1>7 DEF Visiting
  <2> QED
    BY <1>17, <2>1, <2>2, <2>3, <2>4, <2>5, VisitEnds DEF Visiting
<1>18. CASE StepFinished
  <2>1. PICK r : r = stepResult
    OBVIOUS
  <2>2. Settled(r) /\ r.step = current /\ ResultLog(r)
    BY <1>18, <2>1, <1>a DEF StepFinished, Control, VisitLog
  <2>3. /\ pc = "stepFinished" /\ wf' = wf /\ result' = result
        /\ executed' = Put(executed, r)
        /\ workflowError' = r.error
        /\ \E e : log' = Append(log, e) /\ e.kind \notin Kinds
    BY <1>18, <2>1 DEF StepFinished, Log, Kinds, input
  <2>4. \/ pc' = "buildResult"
        \/ pc' = "loop" /\ current' \in Nat /\ current < current'
    <3>1. CASE LeavesLoop(r)
      BY <1>18, <2>1, <3>1 DEF StepFinished
    <3>2. CASE ~LeavesLoop(r)
      <4>1. NextIndex(r) \in Nat /\ current < NextIndex(r)
        BY <2>2, <3>2, <1>a, <1>b DEF NextIndex, LeavesLoop, Settled
      <4> QED
        BY <1>18, <2>1, <3>2, <4>1 DEF StepFinished
    <3> QED
      BY <3>1, <3>2
  <2> QED
    BY <2>2, <2>3, <2>4, <1>17
<1>19. CASE StepFinishedHookFails
  <2>1. PICK x, r : x = stepResult /\ r = FailedByHook(stepResult)
    OBVIOUS
  <2>2. x \in StepResults /\ x.step = current /\ ResultLog(x)
    BY <1>19, <2>1, <1>a DEF StepFinishedHookFails, Control, Settled, VisitLog
  <2>3. /\ pc = "stepFinished" /\ wf' = wf /\ result' = result
        /\ executed' = Put(executed, r)
        /\ pc' = "buildResult"
        /\ workflowError' = HookError("stepFinished")
        /\ \E e : log' = Append(log, e) /\ e.kind \notin Kinds
    BY <1>19, <2>1 DEF StepFinishedHookFails, FailByHook, Log, Kinds, input, HookError, Error
  <2>4. /\ r.step = x.step
        /\ r.attempts = x.attempts
        /\ r.decision = x.decision
        /\ r.status = "failed"
        /\ r.error = HookError("stepFinished")
        /\ r.error.at = "stepFinished"
    BY <2>1, <2>2, <2>3 DEF FailedByHook, StepResults, HookError, Error
  <2>5. ResultLog(r)
    BY <2>2, <2>4 DEF ResultLog
  <2> QED
    BY <2>2, <2>3, <2>4, <2>5, <1>17
<1>20. CASE BuildResult
  <2> DEFINE reason == IF workflowError = None THEN "workflow_ended" ELSE "workflow_failed"
  <2>1. PICK steps : steps = FinalizeStepResults(wf, executed, reason)
    OBVIOUS
  <2>2. /\ UNCHANGED <<wf, current, executed, workflowError>>
        /\ pc = "buildResult"
        /\ pc' = "workflowFinished"
        /\ result'.steps = steps
    BY <1>20, <2>1 DEF BuildResult, input
  <2>3. \A i : Kept(i)
    BY <1>20, <1>d DEF BuildResult
  <2>4. AccountsFor(steps)
    BY <2>1, <2>2, FinalizeAccounts
  <2>5. AccountsFor(steps)'
    <3>1. \A i : Logged("StepStarted", i)' = Logged("StepStarted", i) /\ Counts(i)' = Counts(i)
      BY <2>3, KeptCounts DEF Kept, Kinds
    <3> QED
      BY <2>2, <2>4, <3>1 DEF AccountsFor, UsesRoutes
  <2>6. ResultAccountsForTheRun'
    <3>1. (ResultAccountsForTheRun <=>
             (result # None /\ result.error # HookError("workflowStarted") => AccountsFor(result.steps)))'
      BY AccountsStated, PTL
    <3>2. AccountsFor(result.steps)'
      BY <2>2, <2>5
    <3> QED
      BY <3>1, <3>2
  <2>7. VisitLog' /\ StartsRecorded'
    BY <2>2 DEF VisitLog, StartsRecorded, Before, Visiting
  <2>8. workflowError' # HookError("workflowStarted")
    BY <2>2 DEF HInv
  <2> QED
    BY <2>2, <2>3, <2>6, <2>7, <2>8, NothingAdded
<1>21. CASE WorkflowFinished \/ WorkflowFinishedHookFails \/ Return
  <2>1. /\ wf' = wf
        /\ executed' = executed
        /\ pc' \in {"return", "done"}
    BY <1>21 DEF WorkflowFinished, WorkflowFinishedHookFails, Return, input
  <2>2. \A i : Kept(i)
    <3>1. log' = log \/ \E e : log' = Append(log, e) /\ e.kind \notin Kinds
      <4>1. CASE WorkflowFinished
        BY <4>1 DEF WorkflowFinished, Log, Kinds
      <4>2. CASE WorkflowFinishedHookFails
        BY <4>2 DEF WorkflowFinishedHookFails, Log, Kinds
      <4>3. CASE Return
        BY <4>3 DEF Return
      <4> QED
        BY <1>21, <4>1, <4>2, <4>3
    <3> QED
      BY <3>1, <1>d
  <2>3. result' # None /\ result'.error # HookError("workflowStarted") =>
          result # None /\ result.error # HookError("workflowStarted") /\ result'.steps = result.steps
    <3>1. CASE WorkflowFinished \/ Return
      BY <3>1 DEF WorkflowFinished, Return
    <3>2. CASE WorkflowFinishedHookFails
      <4>1. result # None /\ result \in WorkflowResults /\ result.error = workflowError
        BY <3>2, <1>a DEF WorkflowFinishedHookFails, Control, TypeOK
      <4>2. result'.steps = result.steps
        BY <3>2, <4>1 DEF WorkflowFinishedHookFails, FailedByHook, WorkflowResults
      <4>3. workflowError # HookError("workflowStarted")
        BY <3>2 DEF WorkflowFinishedHookFails, HInv
      <4> QED
        BY <4>1, <4>2, <4>3
    <3> QED
      BY <1>21, <3>1, <3>2
  <2>4. ResultAccountsForTheRun'
    BY <2>1, <2>2, <2>3, <1>a, AccountKept
  <2>5. VisitLog' /\ StartsRecorded'
    BY <2>1 DEF VisitLog, StartsRecorded, Before, Visiting
  <2> QED
    BY <2>1, <2>2, <2>4, <2>5, NothingAdded
<1>22. ASSUME NEW class \in Raised, Interrupt(class) PROVE HInv'
  <2>1. \A i : Kept(i)
    BY <1>22, <1>d DEF Interrupt, Log, Kinds
  <2> QED
    BY <1>22, <2>1, <1>1 DEF Interrupt, input
<1>23. CASE UNCHANGED vars
  <2>1. \A i : Kept(i)
    BY <1>23, <1>d DEF vars
  <2>2. /\ UNCHANGED <<wf, pc, current, attempts, decision, stepResult, executed, workflowError, result, log>>
    BY <1>23 DEF vars, visit, input
  <2>3. VisitLog' /\ StartsRecorded' /\ ResultAccountsForTheRun'
    BY <2>2, <1>a DEF VisitLog, NoLog, Logged, Counts, ResultLog, Repeatable, Retryable, Policy, OwnOr, Step,
                     StartsRecorded, ResultAccountsForTheRun, HookError, Error
  <2> QED
    BY <2>1, <2>2, <2>3, NothingAdded DEF HInv
<1> QED
  BY <1>2, <1>3, <1>4, <1>5, <1>6, <1>10, <1>11, <1>12, <1>13, <1>15, <1>16, <1>18, <1>19, <1>20,
     <1>21, <1>22, <1>23 DEF Next, Done

-------------------------------------------------------------------------------
(* Hooks that were passed over.                                             *)

\* The places of the body behind the step loop.
After == {"buildResult", "workflowFinished", "return", "done"}

Missed(k) == log[k].kind \in EventKinds /\ log[k].count < NumHooks

MissedIsLast ==
  /\ \A k \in DOMAIN log : Missed(k) => pc \in After
  /\ MissedEventEndsTheRun

\* Behind the loop only entries that may follow a missed event are added.
LEMMA MissedIsKept ==
  ASSUME TypeOK, MissedIsLast, UNCHANGED arguments,
         \/ log' = log /\ (pc \in After => pc' \in After)
         \/ \E e : /\ log' = Append(log, e)
                   /\ pc \in After => pc' \in After /\ e.kind \in {"WorkflowFinished", "interrupt"}
                   /\ pc' \in After \/ ~(e.kind \in EventKinds /\ e.count < NumHooks)
  PROVE  MissedIsLast'
<1>1. CASE log' = log /\ (pc \in After => pc' \in After)
  BY <1>1 DEF MissedIsLast, Missed, MissedEventEndsTheRun, NumHooks
<1>2. ASSUME NEW e, log' = Append(log, e),
             pc \in After => pc' \in After /\ e.kind \in {"WorkflowFinished", "interrupt"},
             pc' \in After \/ ~(e.kind \in EventKinds /\ e.count < NumHooks)
      PROVE  MissedIsLast'
  <2> DEFINE n == Len(log)
  <2>1. /\ n \in Nat
        /\ DOMAIN log = 1..n
        /\ DOMAIN log' = 1..n + 1
        /\ Len(log') = n + 1
        /\ log'[n + 1] = e
        /\ \A k \in 1..n : log'[k] = log[k]
    BY <1>2, LogAppended
  <2> HIDE DEF n
  <2>2. NumHooks' = NumHooks
    BY DEF NumHooks
  <2>3. ASSUME NEW k \in 1..n + 1, log'[k].kind \in EventKinds, log'[k].count < NumHooks
        PROVE  /\ pc' \in After
               /\ \A j \in k + 1..n + 1 : log'[j].kind \in {"WorkflowFinished", "interrupt"}
    <3>1. CASE k = n + 1
      BY <3>1, <2>1, <2>3, <1>2
    <3>2. CASE k \in 1..n
      <4>1. Missed(k)
        BY <3>2, <2>1, <2>3 DEF Missed
      <4>2. pc' \in After /\ e.kind \in {"WorkflowFinished", "interrupt"}
        BY <3>2, <4>1, <2>1, <1>2 DEF MissedIsLast
      <4>3. ASSUME NEW j \in k + 1..n + 1 PROVE log'[j].kind \in {"WorkflowFinished", "interrupt"}
        <5>1. CASE j = n + 1
          BY <5>1, <4>2, <2>1
        <5>2. CASE j \in k + 1..n
          <6>1. log[j].kind \in {"WorkflowFinished", "interrupt"}
            BY <5>2, <3>2, <4>1, <2>1 DEF MissedIsLast, MissedEventEndsTheRun, Missed, n
          <6>2. j \in 1..n
            BY <5>2, <3>2, <2>1
          <6> QED
            BY <6>1, <6>2, <2>1
        <5> QED
          BY <5>1, <5>2, <3>2, <2>1
      <4> QED
        BY <4>2, <4>3
    <3> QED
      BY <3>1, <3>2, <2>1
  <2> QED
    BY <2>1, <2>2, <2>3 DEF MissedIsLast, Missed, MissedEventEndsTheRun
<1> QED
  BY <1>1, <1>2

LEMMA NextMissed == IInv /\ MissedIsLast /\ [Next]_vars => MissedIsLast'
<1> SUFFICES ASSUME IInv, MissedIsLast, [Next]_vars PROVE MissedIsLast'
  OBVIOUS
<1>a. TypeOK /\ NumHooks \in Nat
  BY HooksCounted DEF IInv
<1>1. CASE RejectInput \/ AcceptInput \/ LeaveLoop \/ RejectMethod \/ EnterStep
           \/ BuildResult \/ Return \/ UNCHANGED vars
  <2>1. /\ log' = log
        /\ arguments' = arguments
        /\ pc \in After => pc' \in After
    BY <1>1
       DEF RejectInput, AcceptInput, LeaveLoop, RejectMethod, EnterStep, BuildResult, Return, Escape,
           vars, input, After
  <2> QED
    BY <2>1, <1>a, MissedIsKept
<1>2. ASSUME arguments' = arguments, NEW e, log' = Append(log, e), pc \notin After,
             pc' \in After \/ e.kind \notin EventKinds \/ e.count = NumHooks
      PROVE  MissedIsLast'
  BY <1>2, <1>a, MissedIsKept
<1>3. CASE WorkflowStarted
  BY <1>3, <1>2 DEF WorkflowStarted, Log, After, input
<1>4. CASE WorkflowStartedHookFails
  BY <1>4, <1>2 DEF WorkflowStartedHookFails, Log, After, input
<1>5. CASE StepStarted
  BY <1>5, <1>2 DEF StepStarted, Log, After, input
<1>6. CASE StepStartedHookFails
  BY <1>6, <1>2 DEF StepStartedHookFails, FailByHook, Log, After, input
<1>7. CASE Approve
  BY <1>7, <1>2 DEF Approve, Log, After, EventKinds, input
<1>8. CASE ApprovalFails
  <2>1. /\ arguments' = arguments
        /\ pc = "approve"
        /\ log' = log \/ \E o : Log("approve", current, 0, o)
    BY <1>8 DEF ApprovalFails, input
  <2>2. CASE log' = log
    BY <2>1, <2>2, <1>a, MissedIsKept DEF After
  <2>3. CASE \E o : Log("approve", current, 0, o)
    BY <2>1, <2>3, <1>2 DEF Log, After, EventKinds
  <2> QED
    BY <2>1, <2>2, <2>3
<1>9. ASSUME NEW output \in Outputs, InvokeReturns(output) PROVE MissedIsLast'
  BY <1>9, <1>2 DEF InvokeReturns, Log, After, EventKinds, input
<1>10. ASSUME NEW class \in Raised \cup {"RuntimeError"}, InvokeRaises(class) PROVE MissedIsLast'
  BY <1>10, <1>2 DEF InvokeRaises, Log, After, EventKinds, input
<1>11. CASE StepFinished
  BY <1>11, <1>2 DEF StepFinished, Log, After, input
<1>12. CASE StepFinishedHookFails
  BY <1>12, <1>2 DEF StepFinishedHookFails, FailByHook, Log, After, input
<1>13. CASE WorkflowFinished
  BY <1>13, <1>a, MissedIsKept DEF WorkflowFinished, Log, After, input
<1>14. CASE WorkflowFinishedHookFails
  BY <1>14, <1>a, MissedIsKept DEF WorkflowFinishedHookFails, Log, After, input
<1>15. ASSUME NEW class \in Raised, Interrupt(class) PROVE MissedIsLast'
  BY <1>15, <1>a, MissedIsKept DEF Interrupt, Escape, Log, After, input
<1> QED
  BY <1>1, <1>3, <1>4, <1>5, <1>6, <1>7, <1>8, <1>9, <1>10, <1>11, <1>12, <1>13, <1>14, <1>15
     DEF Next, Done

-------------------------------------------------------------------------------
(* The events in their order.                                               *)

\* The entry of the last event the first hook was called with.
IsLastSeen(k) == k \in Seen /\ \A j \in Seen : j <= k

\* What the first hook has seen at each place of the body. Without a hook it is nothing.
LastSeen ==
  /\ pc \in {"validate", "workflowStarted"} => Seen = {} /\ current = 1
  /\ pc \in {"loop", "stepStarted"} /\ NumHooks > 0 =>
       \E k : /\ IsLastSeen(k)
              /\ \/ log[k].kind = "WorkflowStarted" /\ current = 1
                 \/ /\ log[k].kind = "StepFinished"
                    /\ log[k].outcome = "succeeded"
                    /\ log[k].step < current
  /\ pc \in {"approve", "invoke", "stepFinished"} /\ NumHooks > 0 =>
       \E k : IsLastSeen(k) /\ log[k].kind = "StepStarted" /\ log[k].step = current
  /\ pc \in {"buildResult", "workflowFinished"} /\ NumHooks > 0 =>
       \E k : /\ IsLastSeen(k)
              /\ \/ log[k].kind = "StepFinished"
                 \/ /\ log[k].kind = "StepStarted"
                    /\ Last(executed).error = HookError("stepStarted")
  /\ pc \notin {"return", "done"} => \A k \in Seen : log[k].kind # "WorkflowFinished"

OInv == EventOrder /\ LastSeen

\* An event is seen when a hook was called with it.
LEMMA SeenAppended ==
  ASSUME TypeOK, NEW e, log' = Append(log, e)
  PROVE  /\ Seen' = Seen \cup (IF e.kind \in EventKinds /\ e.count >= 1 THEN {Len(log) + 1} ELSE {})
         /\ log'[Len(log) + 1] = e
         /\ \A k \in Seen : k \in Nat /\ k < Len(log) + 1 /\ log'[k] = log[k]
<1> DEFINE n == Len(log)
<1>1. /\ n \in Nat
      /\ DOMAIN log = 1..n
      /\ DOMAIN log' = 1..n + 1
      /\ log'[n + 1] = e
      /\ \A k \in 1..n : log'[k] = log[k]
  BY LogAppended
<1> HIDE DEF n
<1>2. \A k : k \in Seen' <=> k \in Seen \/ (k = n + 1 /\ e.kind \in EventKinds /\ e.count >= 1)
  BY <1>1 DEF Seen
<1>3. \A k \in Seen : k \in Nat /\ k < n + 1 /\ log'[k] = log[k]
  BY <1>1 DEF Seen
<1>4. Seen' = Seen \cup (IF e.kind \in EventKinds /\ e.count >= 1 THEN {n + 1} ELSE {})
  BY <1>2
<1> QED
  BY <1>1, <1>3, <1>4 DEF n

\* What is known of the events when none is added.
SeenKept ==
  /\ Seen' = Seen
  /\ \A k \in Seen : log'[k] = log[k]

LEMMA NoEventSeen ==
  ASSUME TypeOK, \/ log' = log
                 \/ \E e : log' = Append(log, e) /\ ~(e.kind \in EventKinds /\ e.count >= 1)
  PROVE  SeenKept
<1>1. CASE log' = log
  BY <1>1 DEF Seen, SeenKept
<1>2. ASSUME NEW e, log' = Append(log, e), ~(e.kind \in EventKinds /\ e.count >= 1)
      PROVE  SeenKept
  BY <1>2, SeenAppended DEF SeenKept
<1> QED
  BY <1>1, <1>2

\* The order stays as long as the results do, or the end of the run is not told yet.
LEMMA OrderKept ==
  ASSUME EventOrder, SeenKept,
         executed' = executed \/ \A k \in Seen : log[k].kind # "WorkflowFinished"
  PROVE  EventOrder'
BY DEF EventOrder, SeenKept, MayFollow, HookError, Error

\* An event comes last, behind one that it may follow.
LEMMA OrderExtended ==
  ASSUME TypeOK, EventOrder, NEW e, log' = Append(log, e), e.kind \in EventKinds, e.count >= 1,
         NEW n, n = Len(log) + 1,
         \/ executed' = executed
         \/ e.kind # "WorkflowFinished" /\ \A k \in Seen : log[k].kind # "WorkflowFinished",
         \/ Seen = {} /\ e.kind = "WorkflowStarted"
         \/ \E k : IsLastSeen(k) /\ MayFollow(e, log[k])
  PROVE  /\ EventOrder'
         /\ IsLastSeen(n)'
         /\ log'[n] = e
         /\ Seen' = Seen \cup {n}
         /\ \A k \in Seen : log'[k] = log[k]
<1>1. /\ Seen' = Seen \cup {n}
      /\ log'[n] = e
      /\ \A k \in Seen : k \in Nat /\ k < n /\ log'[k] = log[k]
  BY SeenAppended
<1>2. n \in Nat
  BY LogAppended
<1>3. ASSUME NEW f, NEW before, MayFollow(f, before),
             executed' = executed \/ f.kind # "WorkflowFinished"
      PROVE  MayFollow(f, before)'
  BY <1>3 DEF MayFollow, HookError, Error
<1>4. ASSUME NEW k \in Seen', \A j \in Seen' : k <= j
      PROVE  log'[k].kind = "WorkflowStarted"
  <2>1. CASE k \in Seen
    BY <2>1, <1>1, <1>4 DEF EventOrder
  <2>2. CASE k = n
    <3>1. Seen = {}
      BY <2>2, <1>1, <1>2, <1>4
    <3>2. e.kind = "WorkflowStarted"
      BY <3>1 DEF IsLastSeen
    <3> QED
      BY <2>2, <3>2, <1>1
  <2> QED
    BY <2>1, <2>2, <1>1
<1>5. ASSUME NEW j \in Seen', NEW k \in Seen', j < k, \A m \in Seen' : m <= j \/ k <= m,
             NEW f, NEW before, f = log'[k], before = log'[j]
      PROVE  MayFollow(f, before)'
  <2>1. CASE k \in Seen
    <3>1. j \in Seen
      BY <2>1, <1>1, <1>2, <1>5
    <3>2. MayFollow(log[k], log[j])
      BY <2>1, <3>1, <1>1, <1>5 DEF EventOrder
    <3>3. f = log[k] /\ before = log[j]
      BY <2>1, <3>1, <1>1, <1>5
    <3>4. executed' = executed \/ f.kind # "WorkflowFinished"
      BY <2>1, <3>3
    <3> QED
      BY <3>2, <3>3, <3>4, <1>3
  <2>2. CASE k = n
    <3>1. j \in Seen
      BY <2>2, <1>1, <1>2, <1>5
    <3>2. PICK l : IsLastSeen(l) /\ MayFollow(e, log[l])
      BY <3>1
    <3>3. l = j
      BY <2>2, <3>1, <3>2, <1>1, <1>2, <1>5 DEF IsLastSeen
    <3>4. f = e /\ before = log[l]
      BY <2>2, <3>1, <3>3, <1>1, <1>5
    <3> QED
      BY <3>2, <3>4, <1>3
  <2> QED
    BY <2>1, <2>2, <1>1
<1>6. EventOrder'
  <2>1. ASSUME NEW k \in Seen' PROVE (\A j \in Seen' : k <= j) => log'[k].kind = "WorkflowStarted"
    BY <1>4
  <2>2. ASSUME NEW j \in Seen', NEW k \in Seen', j < k, \A m \in Seen' : m <= j \/ k <= m
        PROVE  MayFollow(log[k], log[j])'
    <3>1. PICK f, before : f = log'[k] /\ before = log'[j]
      OBVIOUS
    <3>2. MayFollow(f, before)'
      BY <1>5, <2>2, <3>1
    <3> QED
      BY <3>1, <3>2 DEF MayFollow, HookError, Error
  <2> QED
    BY <2>1, <2>2 DEF EventOrder
<1>7. IsLastSeen(n)'
  BY <1>1, <1>2 DEF IsLastSeen
<1> QED
  BY <1>1, <1>6, <1>7

\* A step of the body that tells the hooks nothing, or that no hook hears.
LEMMA NothingSeenAdded ==
  ASSUME TypeOK, OInv, SeenKept, UNCHANGED <<arguments, current, executed>>,
         \/ pc' = "done"
         \/ pc' = pc
         \/ pc = "validate" /\ pc' = "workflowStarted"
         \/ pc = "loop" /\ pc' = "stepStarted"
         \/ pc = "loop" /\ pc' = "buildResult" /\ current # 1
         \/ pc \in {"approve", "invoke"} /\ pc' \in {"invoke", "stepFinished"}
         \/ pc = "buildResult" /\ pc' = "workflowFinished"
         \/ pc = "workflowFinished" /\ pc' = "return"
  PROVE  OInv'
<1>1. EventOrder'
  BY OrderKept DEF OInv
<1>2. \A k : IsLastSeen(k)' <=> IsLastSeen(k)
  BY DEF IsLastSeen, SeenKept
<1>3. \A k : IsLastSeen(k) => log'[k] = log[k]
  BY DEF IsLastSeen, SeenKept
<1>4. NumHooks' = NumHooks
  BY DEF NumHooks
<1>5. LastSeen'
  BY <1>2, <1>3, <1>4 DEF OInv, LastSeen, SeenKept, HookError, Error
<1> QED
  BY <1>1, <1>5 DEF OInv

\* Without a hook no event is seen.
LEMMA UnseenWithoutHooks ==
  ASSUME TypeOK, OInv, SeenKept, NumHooks = 0, arguments' = arguments,
         pc' \notin {"validate", "workflowStarted"},
         pc \in {"return", "done"} => pc' \in {"return", "done"},
         executed' = executed \/ \A k \in Seen : log[k].kind # "WorkflowFinished"
  PROVE  OInv'
<1>1. EventOrder'
  BY OrderKept DEF OInv
<1>2. LastSeen'
  BY DEF OInv, LastSeen, SeenKept, NumHooks
<1> QED
  BY <1>1, <1>2 DEF OInv

LEMMA NextOInv == IInv /\ RInv /\ OInv /\ [Next]_vars => OInv'
<1> SUFFICES ASSUME IInv, RInv, OInv, [Next]_vars PROVE OInv'
  OBVIOUS
<1>a. /\ TypeOK
      /\ Control
      /\ NumHooks \in Nat
      /\ current \in Nat
  BY HooksCounted DEF IInv, TypeOK
<1>b. EventOrder /\ LastSeen
  BY DEF OInv
<1>1. CASE RejectInput \/ AcceptInput \/ RejectMethod \/ EnterStep \/ BuildResult \/ Return
           \/ UNCHANGED vars
  <2>1. /\ log' = log
        /\ UNCHANGED <<arguments, current, executed>>
        /\ \/ pc' = "done"
           \/ pc' = pc
           \/ pc = "validate" /\ pc' = "workflowStarted"
           \/ pc = "loop" /\ pc' = "stepStarted"
           \/ pc = "buildResult" /\ pc' = "workflowFinished"
    BY <1>1
       DEF RejectInput, AcceptInput, RejectMethod, EnterStep, BuildResult, Return, Escape, vars, input
  <2> QED
    BY <2>1, <1>a, NoEventSeen, NothingSeenAdded
<1>2. CASE LeaveLoop
  <2>1. Len(wf.steps) \in Nat \ {0}
    BY <1>2, <1>a, DefinitionOfRun, StepsAreNumbered, ExecutorAssumption
       DEF LeaveLoop, Control, ValidWorkflowDefinition, TypeOK, IsWorkflowDefinition
  <2>2. current # 1
    BY <1>2, <2>1, <1>a DEF LeaveLoop
  <2> QED
    BY <1>2, <2>2, <1>a, NoEventSeen, NothingSeenAdded DEF LeaveLoop, input
<1>3. ASSUME UNCHANGED <<arguments, current, executed>>, pc \in {"approve", "invoke"},
             pc' \in {"invoke", "stepFinished"},
             log' = log \/ \E e : log' = Append(log, e) /\ e.kind \notin EventKinds
      PROVE  OInv'
  BY <1>3, <1>a, NoEventSeen, NothingSeenAdded
<1>4. CASE Approve
  BY <1>4, <1>3 DEF Approve, Log, EventKinds, input
<1>5. CASE ApprovalFails
  <2>1. /\ UNCHANGED <<arguments, current, executed>>
        /\ pc = "approve"
        /\ pc' = "stepFinished"
        /\ log' = log \/ \E o : Log("approve", current, 0, o)
    BY <1>5 DEF ApprovalFails, input
  <2>2. log' = log \/ \E e : log' = Append(log, e) /\ e.kind \notin EventKinds
    <3>1. ASSUME NEW o, Log("approve", current, 0, o)
          PROVE  \E e : log' = Append(log, e) /\ e.kind \notin EventKinds
      BY <3>1 DEF Log, EventKinds
    <3> QED
      BY <2>1, <3>1
  <2> QED
    BY <2>1, <2>2, <1>3
<1>6. ASSUME NEW output \in Outputs, InvokeReturns(output) PROVE OInv'
  BY <1>6, <1>3 DEF InvokeReturns, Log, EventKinds, input
<1>7. ASSUME NEW class \in Raised \cup {"RuntimeError"}, InvokeRaises(class) PROVE OInv'
  BY <1>7, <1>3 DEF InvokeRaises, RetryFrom, Log, EventKinds, input
<1>8. ASSUME NEW class \in Raised, Interrupt(class) PROVE OInv'
  BY <1>8, <1>a, NoEventSeen, NothingSeenAdded DEF Interrupt, Escape, Log, EventKinds, input
\* The events.
<1>9. CASE WorkflowStarted
  <2>1. PICK e : /\ log' = Append(log, e)
                 /\ e.kind = "WorkflowStarted"
                 /\ e.count = NumHooks
    BY <1>9 DEF WorkflowStarted, Log
  <2>2. /\ pc = "workflowStarted"
        /\ pc' = "loop"
        /\ UNCHANGED <<arguments, current, executed>>
        /\ Seen = {}
    BY <1>9, <1>b DEF WorkflowStarted, LastSeen, input
  <2>3. CASE NumHooks = 0
    BY <2>1, <2>2, <2>3, <1>a, NoEventSeen, UnseenWithoutHooks
  <2>4. CASE NumHooks > 0
    <3>0. PICK n : n = Len(log) + 1
      OBVIOUS
    <3>1. EventOrder' /\ IsLastSeen(n)' /\ log'[n] = e /\ Seen' = {n}
      BY <2>1, <2>2, <2>4, <3>0, <1>a, <1>b, OrderExtended DEF EventKinds
    <3>2. current' = 1
      BY <1>9, <2>2, <1>b DEF WorkflowStarted, LastSeen
    <3>3. LastSeen'
      BY <2>1, <2>2, <3>1, <3>2 DEF LastSeen
    <3> QED
      BY <3>1, <3>3 DEF OInv
  <2> QED
    BY <2>3, <2>4, <1>a
<1>10. CASE WorkflowStartedHookFails
  <2>1. PICK e : /\ log' = Append(log, e)
                 /\ e.kind = "WorkflowStarted"
                 /\ e.count >= 1
    BY <1>10, <1>a DEF WorkflowStartedHookFails, Log
  <2>2. /\ pc = "workflowStarted"
        /\ pc' = "return"
        /\ executed' = executed
        /\ Seen = {}
    BY <1>10, <1>b DEF WorkflowStartedHookFails, LastSeen
  <2>3. PICK n : n = Len(log) + 1
    OBVIOUS
  <2>4. EventOrder'
    BY <2>1, <2>2, <2>3, <1>a, <1>b, OrderExtended DEF EventKinds
  <2> QED
    BY <2>2, <2>4 DEF OInv, LastSeen
\* An event of the visit comes behind the one seen last.
<1>11. ASSUME NEW e, log' = Append(log, e), e.kind \in {"StepStarted", "StepFinished"}, e.step = current,
              e.count = NumHooks \/ e.count \in 1..NumHooks, arguments' = arguments,
              \/ e.kind = "StepStarted" /\ pc = "stepStarted" /\ pc' \in {"approve", "invoke"}
                   /\ UNCHANGED <<executed, current>>
              \/ e.kind = "StepStarted" /\ pc = "stepStarted" /\ pc' = "buildResult"
                   /\ Last(executed').error = HookError("stepStarted")
              \/ e.kind = "StepFinished" /\ pc = "stepFinished" /\ pc' = "buildResult"
              \/ e.kind = "StepFinished" /\ pc = "stepFinished" /\ pc' = "loop"
                   /\ e.outcome = "succeeded" /\ current < current',
              e.count >= 1 \/ NumHooks = 0
       PROVE  OInv'
  <2>1. CASE e.count >= 1
    <3>0. PICK n : n = Len(log) + 1
      OBVIOUS
    <3>1. NumHooks > 0
      BY <2>1, <1>11, <1>a
    <3>2. PICK k : IsLastSeen(k) /\ MayFollow(e, log[k])
      <4>1. CASE pc = "stepStarted"
        BY <4>1, <3>1, <1>11, <1>b DEF LastSeen, MayFollow
      <4>2. CASE pc = "stepFinished"
        BY <4>2, <3>1, <1>11, <1>b DEF LastSeen, MayFollow
      <4> QED
        BY <4>1, <4>2, <1>11
    <3>3. \A j \in Seen : log[j].kind # "WorkflowFinished"
      BY <1>11, <1>b DEF LastSeen
    <3>4. /\ EventOrder'
          /\ IsLastSeen(n)'
          /\ log'[n] = e
          /\ Seen' = Seen \cup {n}
          /\ \A j \in Seen : log'[j] = log[j]
      BY <2>1, <3>0, <3>2, <3>3, <1>11, <1>a, <1>b, OrderExtended DEF EventKinds
    <3>5. \A j \in Seen' : log'[j].kind # "WorkflowFinished"
      BY <3>3, <3>4, <1>11
    <3>6. LastSeen'
      BY <3>4, <3>5, <1>11 DEF LastSeen, HookError, Error
    <3> QED
      BY <3>4, <3>6 DEF OInv
  <2>2. CASE NumHooks = 0
    <3>1. ~(e.count >= 1)
      BY <2>2, <1>11
    <3>2. \A k \in Seen : log[k].kind # "WorkflowFinished"
      BY <1>11, <1>b DEF LastSeen
    <3> QED
      BY <2>2, <3>1, <3>2, <1>11, <1>a, NoEventSeen, UnseenWithoutHooks
  <2> QED
    BY <2>1, <2>2, <1>11
<1>12. CASE StepStarted
  <2>1. PICK e : /\ log' = Append(log, e)
                 /\ e.kind = "StepStarted"
                 /\ e.step = current
                 /\ e.count = NumHooks
    BY <1>12 DEF StepStarted, Log
  <2> QED
    BY <1>12, <2>1, <1>a, <1>11 DEF StepStarted, input
<1>13. CASE StepStartedHookFails
  <2> DEFINE r == Result("failed", 0, None, HookError(pc), None)
  <2>1. PICK e : /\ log' = Append(log, e)
                 /\ e.kind = "StepStarted"
                 /\ e.step = current
                 /\ e.count \in 1..NumHooks
    BY <1>13 DEF StepStartedHookFails, Log
  <2>2. /\ pc = "stepStarted"
        /\ pc' = "buildResult"
        /\ UNCHANGED <<wf, arguments>>
        /\ executed' = Put(executed, r)
    BY <1>13 DEF StepStartedHookFails, FailByHook, input
  <2>3. HookError(pc) \in Errors
    BY HookErrorTyped, <1>a DEF TypeOK
  <2>4. current \in DOMAIN wf.steps
    BY <2>2, <1>a DEF Control, Visiting
  <2>5. r \in StepResults /\ Settled(r) /\ r.step = current
    BY <2>3, <2>4, <1>a, FailureSettled DEF Settled
  <2>6. r.error = HookError("stepStarted")
    BY <2>2 DEF Result
  <2> HIDE DEF r
  <2>7. Last(executed') = r
    BY <2>2, <2>4, <2>5, <1>a, RecordingKeeps DEF RInv, Before, Visiting, Settled
  <2> QED
    BY <2>1, <2>2, <2>6, <2>7, <1>a, <1>11
<1>14. CASE StepFinished
  <2>1. PICK r : r = stepResult
    OBVIOUS
  <2>2. Settled(r) /\ pc = "stepFinished" /\ r.step = current
    BY <1>14, <2>1, <1>a DEF StepFinished, Control
  <2>3. PICK e : /\ log' = Append(log, e)
                 /\ e.kind = "StepFinished"
                 /\ e.step = current
                 /\ e.count = NumHooks
                 /\ e.outcome = r.status
    BY <1>14, <2>1 DEF StepFinished, Log
  <2>4. arguments' = arguments
    BY <1>14 DEF StepFinished, input
  <2>5. CASE LeavesLoop(r)
    <3>1. pc' = "buildResult"
      BY <1>14, <2>1, <2>5 DEF StepFinished
    <3> QED
      BY <2>2, <2>3, <2>4, <3>1, <1>a, <1>11
  <2>6. CASE ~LeavesLoop(r)
    <3>1. pc' = "loop" /\ current' = NextIndex(r)
      BY <1>14, <2>1, <2>6 DEF StepFinished
    <3>2. r.status = "succeeded"
      BY <2>2, <2>6 DEF LeavesLoop, Settled
    <3>3. current < NextIndex(r)
      BY <2>2, <2>6, <1>a DEF NextIndex, LeavesLoop, Settled
    <3> QED
      BY <2>2, <2>3, <2>4, <3>1, <3>2, <3>3, <1>a, <1>11
  <2> QED
    BY <2>5, <2>6
<1>15. CASE StepFinishedHookFails
  <2>1. PICK e : /\ log' = Append(log, e)
                 /\ e.kind = "StepFinished"
                 /\ e.step = current
                 /\ e.count \in 1..NumHooks
    BY <1>15 DEF StepFinishedHookFails, Log
  <2>2. pc = "stepFinished" /\ pc' = "buildResult" /\ arguments' = arguments
    BY <1>15 DEF StepFinishedHookFails, FailByHook, input
  <2> QED
    BY <2>1, <2>2, <1>a, <1>11
<1>16. CASE WorkflowFinished \/ WorkflowFinishedHookFails
  <2>1. PICK e : /\ log' = Append(log, e)
                 /\ e.kind = "WorkflowFinished"
                 /\ e.count = NumHooks \/ e.count \in 1..NumHooks
    <3>1. CASE WorkflowFinished
      BY <3>1 DEF WorkflowFinished, Log
    <3>2. CASE WorkflowFinishedHookFails
      BY <3>2 DEF WorkflowFinishedHookFails, Log
    <3> QED
      BY <1>16, <3>1, <3>2
  <2>2. /\ pc = "workflowFinished"
        /\ pc' = "return"
        /\ UNCHANGED <<arguments, current, executed>>
    BY <1>16 DEF WorkflowFinished, WorkflowFinishedHookFails, input
  <2>3. CASE e.count >= 1
    <3>1. NumHooks > 0
      BY <2>1, <2>3, <1>a
    <3>2. PICK k : IsLastSeen(k) /\ MayFollow(e, log[k])
      BY <2>1, <2>2, <3>1, <1>b DEF LastSeen, MayFollow
    <3>3. PICK n : n = Len(log) + 1
      OBVIOUS
    <3>4. EventOrder'
      BY <2>1, <2>2, <2>3, <3>2, <3>3, <1>a, <1>b, OrderExtended DEF EventKinds
    <3> QED
      BY <2>2, <3>4 DEF OInv, LastSeen
  <2>4. CASE ~(e.count >= 1)
    BY <2>1, <2>2, <2>4, <1>a, NoEventSeen, NothingSeenAdded
  <2> QED
    BY <2>3, <2>4
<1> QED
  BY <1>1, <1>2, <1>4, <1>5, <1>6, <1>7, <1>8, <1>9, <1>10, <1>12, <1>13, <1>14, <1>15, <1>16
     DEF Next, Done

-------------------------------------------------------------------------------
(* What leaves a run.                                                       *)

\* The call that was made last when the loop is at its head: an event that the hooks
\* have been told of.
Told ==
  /\ log[Len(log)].kind = IF executed = <<>> THEN "WorkflowStarted" ELSE "StepFinished"
  /\ log[Len(log)].count = NumHooks

LeavesInv ==
  /\ pc = "validate" => log = <<>>
  /\ pc = "loop" => Told
  /\ ExceptionsBecomeResults

LEMMA PutIsNotEmpty ==
  ASSUME NEW dict, NEW r, dict \in Seq(StepResults)
  PROVE  Put(dict, r) # <<>>
<1>1. CASE \E k \in DOMAIN dict : dict[k].step = r.step
  <2>1. PICK k \in DOMAIN dict : dict[k].step = r.step
    BY <1>1
  <2>2. k \in DOMAIN Put(dict, r)
    BY <1>1 DEF Put
  <2> QED
    BY <2>2
<1>2. CASE ~ \E k \in DOMAIN dict : dict[k].step = r.step
  BY <1>2 DEF Put
<1> QED
  BY <1>1, <1>2

\* A step that goes on inside of run, to no place from which an exception may leave it.
LEMMA StaysInside ==
  ASSUME pc' \notin {"validate", "loop"}, boundary' = None \/ boundary'.how # "escaped"
  PROVE  LeavesInv'
BY DEF LeavesInv, ExceptionsBecomeResults, Escaped

LEMMA NextLeaves == IInv /\ RInv /\ LeavesInv /\ [Next]_vars => LeavesInv'
<1> SUFFICES ASSUME IInv, RInv, LeavesInv, [Next]_vars PROVE LeavesInv'
  OBVIOUS
<1>1. TypeOK /\ (pc # "done" => boundary = None)
  BY DEF IInv, RInv, Ended
<1>2. CASE RejectInput
  <2>1. /\ log' = <<>> /\ pc' = "done"
    BY <1>2 DEF RejectInput, Escape, LeavesInv
  <2> QED
    BY <2>1 DEF LeavesInv, ExceptionsBecomeResults
<1>3. CASE WorkflowStarted
  <2>1. /\ pc' = "loop" /\ executed' = executed /\ executed = <<>> /\ arguments' = arguments
        /\ log' = Append(log, [kind |-> "WorkflowStarted", step |-> 0, count |-> NumHooks,
                               outcome |-> "running"])
        /\ boundary' = None
    BY <1>1, <1>3 DEF WorkflowStarted, Log, RInv, Accounted, input
  <2>2. Told'
    BY <1>1, <2>1, LogAppended DEF Told, NumHooks
  <2> QED
    BY <2>1, <2>2 DEF LeavesInv, ExceptionsBecomeResults, Escaped
<1>4. CASE RejectMethod
  <2>1. /\ pc = "loop" /\ pc' = "done" /\ UNCHANGED <<wf, arguments, current, executed, log>>
        /\ ~Usable(wf.steps[current].method)
    BY <1>4 DEF RejectMethod, Escape, input, Step
  <2>2. Told /\ \A k \in DOMAIN executed : executed[k].status = "succeeded"
    BY <2>1 DEF LeavesInv, RInv, Accounted, Before
  <2> QED
    BY <2>1, <2>2 DEF LeavesInv, ExceptionsBecomeResults, Told, NumHooks
<1>5. CASE StepFinished
  <2>1. /\ executed' = Put(executed, stepResult) /\ arguments' = arguments
        /\ \E outcome : log' = Append(log, [kind |-> "StepFinished", step |-> current,
                                            count |-> NumHooks, outcome |-> outcome])
        /\ boundary' = None
        /\ pc' # "validate"
    BY <1>1, <1>5 DEF StepFinished, Log, input
  <2>2. executed' # <<>>
    BY <1>1, <2>1, PutIsNotEmpty DEF TypeOK
  <2>3. Told'
    BY <1>1, <2>1, <2>2, LogAppended DEF Told, NumHooks
  <2> QED
    BY <2>1, <2>3 DEF LeavesInv, ExceptionsBecomeResults, Escaped
<1>6. ASSUME NEW class \in Raised, Interrupt(class)
      PROVE  LeavesInv'
  <2>1. pc' = "done" /\ boundary'.cause.class = class /\ ~IsException(class)
    BY <1>6 DEF Interrupt, Escape, Error
  <2> QED
    BY <2>1 DEF LeavesInv, ExceptionsBecomeResults
<1>7. CASE Return
  <2>1. pc' = "done" /\ boundary'.how # "escaped"
    BY <1>7 DEF Return
  <2> QED
    BY <2>1, StaysInside
<1>8. ASSUME NEW output \in Outputs, InvokeReturns(output)
      PROVE  LeavesInv'
  <2>1. pc' = "stepFinished" /\ boundary' = None
    BY <1>1, <1>8 DEF InvokeReturns
  <2> QED
    BY <2>1, StaysInside
<1>9. ASSUME NEW class \in Raised \cup {"RuntimeError"}, InvokeRaises(class)
      PROVE  LeavesInv'
  <2>1. pc' \notin {"validate", "loop"} /\ boundary' = None
    BY <1>1, <1>9 DEF InvokeRaises, RetryFrom
  <2> QED
    BY <2>1, StaysInside
<1>10. CASE \/ AcceptInput \/ WorkflowStartedHookFails \/ LeaveLoop \/ EnterStep
            \/ StepStarted \/ StepStartedHookFails \/ Approve \/ ApprovalFails
            \/ StepFinishedHookFails \/ BuildResult \/ WorkflowFinished
            \/ WorkflowFinishedHookFails
  <2>1. pc' \notin {"validate", "loop"} /\ boundary' = None
    BY <1>1, <1>10 DEF AcceptInput, WorkflowStartedHookFails, LeaveLoop, EnterStep, StepStarted,
       StepStartedHookFails, Approve, ApprovalFails, StepFinishedHookFails, BuildResult,
       WorkflowFinished, WorkflowFinishedHookFails, FailByHook
  <2> QED
    BY <2>1, StaysInside
<1>11. CASE UNCHANGED vars
  BY <1>11 DEF vars, LeavesInv, Told, ExceptionsBecomeResults, Escaped, NumHooks
<1> QED
  BY <1>2, <1>3, <1>4, <1>5, <1>6, <1>7, <1>8, <1>9, <1>10, <1>11 DEF Next, Done

-------------------------------------------------------------------------------
(* Theorems.                                                                *)

\* HInv holds throughout a run.
THEOREM HistoryInvariance == Spec => []HInv
<1>1. IInv /\ RInv /\ HInv /\ [Next]_vars => HInv'
  BY NextHInv
<1> QED
  BY <1>1, InitHInv, Invariance, ReportInvariance, PTL DEF Spec

\* No step that requires an approval is ever invoked without it, and none is asked for
\* twice, whatever the retries. (ApprovalGuardsInvocation)
THEOREM ApprovalIsGuarded == Spec => []ApprovalGuardsInvocation
<1>1. HInv => ApprovalGuardsInvocation
  BY DEF HInv, StepLogs, StepLog, Approved, ExecutedLog, ResultLog, ApprovalGuardsInvocation
<1> QED
  BY <1>1, HistoryInvariance, PTL

\* The attempts of a step are those its retry policy allows, for every policy.
\* (RetriesFollowPolicy)
THEOREM RetriesAreFollowed == Spec => []RetriesFollowPolicy
<1>1. HInv => RetriesFollowPolicy
  BY DEF HInv, StepLogs, StepLog, Repeatable, ExecutedLog, ResultLog, RetriesFollowPolicy
<1> QED
  BY <1>1, HistoryInvariance, PTL

\* The result accounts for everything that ran, routed or not. (ResultAccountsForTheRun)
THEOREM ResultAccounts == Spec => []ResultAccountsForTheRun
<1>1. HInv => ResultAccountsForTheRun
  BY DEF HInv
<1> QED
  BY <1>1, HistoryInvariance, PTL

\* However many hooks there are, an event that one of them missed is the end of the
\* run's user code. (MissedEventEndsTheRun)
THEOREM MissedEventEnds == Spec => []MissedEventEndsTheRun
<1>1. Init => MissedIsLast
  BY DEF Init, MissedIsLast, Missed, MissedEventEndsTheRun
<1>2. IInv /\ MissedIsLast /\ [Next]_vars => MissedIsLast'
  BY NextMissed
<1>3. MissedIsLast => MissedEventEndsTheRun
  BY DEF MissedIsLast
<1> QED
  BY <1>1, <1>2, <1>3, Invariance, PTL DEF Spec

\* However many hooks there are, the first one sees every run as one well-formed
\* sequence of events. (EventOrder)
THEOREM EventsInOrder == Spec => []EventOrder
<1>1. Init => OInv
  BY DEF Init, OInv, EventOrder, LastSeen, Seen
<1>2. IInv /\ RInv /\ OInv /\ [Next]_vars => OInv'
  BY NextOInv
<1>3. OInv => EventOrder
  BY DEF OInv
<1> QED
  BY <1>1, <1>2, <1>3, Invariance, ReportInvariance, PTL DEF Spec

\* Whatever hooks, handlers and steps raise: an Exception that leaves run was raised by
\* one of its two rejections, and between two steps. (ExceptionsBecomeResults)
THEOREM ExceptionsStayInside == Spec => []ExceptionsBecomeResults
<1>1. Init => LeavesInv
  BY DEF Init, LeavesInv, ExceptionsBecomeResults, Escaped
<1>2. IInv /\ RInv /\ LeavesInv /\ [Next]_vars => LeavesInv'
  BY NextLeaves
<1>3. LeavesInv => ExceptionsBecomeResults
  BY DEF LeavesInv
<1> QED
  BY <1>1, <1>2, <1>3, Invariance, ReportInvariance, PTL DEF Spec
===============================================================================
