------------------------------ MODULE TimesProofs ------------------------------
(***************************************************************************)
(* The times of a run for every workflow, every clock and every behaviour  *)
(* of the user code.                                                       *)
(***************************************************************************)
EXTENDS Times, ExecutorProofs

Timed(s) == s.duration = DurationMs(s.start, s.finish)

\* What was read, where the body needs it.
Clocked ==
  /\ clock \in Nat
  /\ setBack \in BOOLEAN
  /\ runStart \in Nat \cup {None}
  /\ stepStart \in Nat \cup {None}
  /\ pending \in Timings \cup {None}
  /\ times \in Seq(Timings)
  /\ runTimes \in Timings \cup {None}
  /\ pc \notin {"validate", "done"} => runStart # None
  /\ pc \in Visiting => stepStart # None
  /\ pc = "stepFinished" => pending # None

\* Every result has its times.
Kept ==
  /\ Len(times) = Len(executed)
  /\ result # None <=> runTimes # None
  /\ pending # None => Timed(pending)
  /\ \A k \in DOMAIN times : Timed(times[k])
  /\ runTimes # None => Timed(runTimes) /\ runTimes.start = runStart

\* Where a list of times that starts at from ends.
End(seq, from) == IF seq = <<>> THEN from ELSE seq[Len(seq)].finish

InOrder(seq, from) ==
  \A k \in DOMAIN seq :
    /\ seq[k].start <= seq[k].finish
    /\ (IF k = 1 THEN from ELSE seq[k-1].finish) <= seq[k].start
    /\ seq[k].finish <= End(seq, from)

\* g sums up the durations, as TotalMs does.
IsTotal(g, seq) ==
  g = [n \in 0..Len(seq) |-> IF n = 0 THEN 0 ELSE g[n-1] + seq[n].duration]

\* The list leaves room for the durations in it.
Roomy(seq, from) ==
  \E g \in [0..Len(seq) -> Nat] :
    IsTotal(g, seq) /\ g[Len(seq)] * TicksPerMs <= End(seq, from) - from

Packed(seq, from) ==
  /\ from <= End(seq, from)
  /\ InOrder(seq, from)
  /\ Roomy(seq, from)

\* The readings lie in the order of the calls of _utc_now.
Ordered ==
  ~setBack /\ runStart # None =>
    /\ Packed(times, runStart)
    /\ End(times, runStart) <= clock
    /\ pc \in Visiting => End(times, runStart) <= stepStart /\ stepStart <= clock
    /\ pc = "stepFinished" =>
         pending.start = stepStart /\ stepStart <= pending.finish /\ pending.finish <= clock
    /\ runTimes # None => End(times, runStart) <= runTimes.finish

TInv == Clocked /\ Kept /\ Ordered

-------------------------------------------------------------------------------
(* Durations.                                                               *)

LEMMA DivisionBounds ==
  ASSUME NEW x \in Nat, NEW d \in Nat, d > 0
  PROVE  /\ x \div d \in Nat
         /\ (x \div d) * d <= x
         /\ x < (x \div d + 1) * d
OBVIOUS

LEMMA ProductsCompare ==
  ASSUME NEW a \in Nat, NEW b \in Nat, NEW d \in Nat, d > 0, a * d <= b * d
  PROVE  a <= b
OBVIOUS

LEMMA ProductOfSum ==
  ASSUME NEW a \in Nat, NEW b \in Nat, NEW d \in Nat
  PROVE  (a + b) * d = a * d + b * d
OBVIOUS

\* _duration_ms is never negative and takes off a millisecond at most.
LEMMA DurationBounds ==
  ASSUME NEW start \in Nat, NEW finish \in Nat
  PROVE  /\ DurationMs(start, finish) \in Nat
         /\ finish <= start => DurationMs(start, finish) = 0
         /\ finish >= start =>
              /\ DurationMs(start, finish) * TicksPerMs <= finish - start
              /\ finish - start <= (DurationMs(start, finish) + 1) * TicksPerMs
<1>1. TicksPerMs \in Nat /\ TicksPerMs > 0 /\ Short \subseteq Nat \ {0}
  BY TimesAssumption
<1> DEFINE span == finish - start
           ms == span \div TicksPerMs
<1>2. DurationMs(start, finish) =
        IF finish < start THEN 0
        ELSE IF ms * TicksPerMs = span /\ ms \in Short THEN ms - 1
        ELSE ms
  BY DEF DurationMs
<1>3. CASE finish >= start
  <2>1. span \in Nat
    BY <1>3
  <2> HIDE DEF span
  <2>2. ms \in Nat /\ ms * TicksPerMs <= span /\ span < (ms + 1) * TicksPerMs
    BY <1>1, <2>1, DivisionBounds
  <2>3. span = 0 => ms = 0
    BY <1>1
  <2> HIDE DEF ms
  <2>4. (ms + 1) * TicksPerMs = ms * TicksPerMs + TicksPerMs /\ ms * TicksPerMs \in Nat
    BY <1>1, <2>2, ProductOfSum
  <2>5. CASE ms * TicksPerMs = span /\ ms \in Short
    <3>1. ms - 1 \in Nat /\ ms # 0
      BY <1>1, <2>2, <2>5
    <3>2. DurationMs(start, finish) = ms - 1
      BY <1>2, <1>3, <2>5
    <3>3. ((ms - 1) + 1) * TicksPerMs = (ms - 1) * TicksPerMs + TicksPerMs
      BY <1>1, <3>1, ProductOfSum
    <3>4. (ms - 1) * TicksPerMs \in Nat /\ (ms - 1) + 1 = ms
      BY <1>1, <2>2, <3>1
    <3>5. /\ (ms - 1) * TicksPerMs <= span
          /\ span <= ((ms - 1) + 1) * TicksPerMs
      BY <1>1, <2>4, <2>5, <3>3, <3>4
    <3>6. ~(finish <= start)
      <4>1. finish <= start => span = 0
        BY <1>3 DEF span
      <4> QED
        BY <2>3, <3>1, <4>1
    <3> QED
      BY <3>1, <3>2, <3>5, <3>6 DEF span
  <2>6. CASE ~(ms * TicksPerMs = span /\ ms \in Short)
    <3>1. DurationMs(start, finish) = ms
      BY <1>2, <1>3, <2>6
    <3>2. span <= (ms + 1) * TicksPerMs
      BY <1>1, <2>1, <2>2, <2>4
    <3>3. finish <= start => span = 0
      BY <1>3 DEF span
    <3> QED
      BY <2>2, <2>3, <3>1, <3>2, <3>3 DEF span
  <2> QED
    BY <2>5, <2>6
<1>4. CASE ~(finish >= start)
  <2>1. DurationMs(start, finish) = 0
    BY <1>2, <1>4
  <2> QED
    BY <1>4, <2>1
<1> QED
  BY <1>3, <1>4

LEMMA SpanTimed ==
  ASSUME NEW start \in Nat, NEW finish \in Nat
  PROVE  /\ Span(start, finish) \in Timings
         /\ Timed(Span(start, finish))
         /\ Span(start, finish).start = start
         /\ Span(start, finish).finish = finish
BY DurationBounds DEF Span, Timings, Timed

-------------------------------------------------------------------------------
(* Lists of times.                                                          *)

LEMMA EndTyped ==
  ASSUME NEW seq \in Seq(Timings), NEW from \in Nat
  PROVE  End(seq, from) \in Nat
<1>1. CASE seq = <<>>
  BY <1>1 DEF End
<1>2. CASE seq # <<>>
  <2>1. seq[Len(seq)] \in Timings
    BY <1>2
  <2> QED
    BY <1>2, <2>1 DEF End, Timings
<1> QED
  BY <1>1, <1>2

LEMMA EmptyPacked ==
  ASSUME NEW from \in Nat
  PROVE  Packed(<<>>, from) /\ End(<<>>, from) = from
<1>1. End(<<>>, from) = from
  BY DEF End
<1>2. InOrder(<<>>, from)
  BY DEF InOrder
<1>3. Roomy(<<>>, from)
  <2> DEFINE g == [n \in 0..0 |-> 0]
  <2>1. g \in [0..Len(<<>>) -> Nat]
    OBVIOUS
  <2>2. IsTotal(g, <<>>)
    BY DEF IsTotal
  <2>3. g[Len(<<>>)] * TicksPerMs <= End(<<>>, from) - from
    BY <1>1, TimesAssumption
  <2> QED
    BY <2>1, <2>2, <2>3 DEF Roomy
<1> QED
  BY <1>1, <1>2, <1>3 DEF Packed

\* A visit that starts after the last one ended takes its room behind it.
LEMMA PackedGrows ==
  ASSUME NEW seq \in Seq(Timings), NEW from \in Nat, Packed(seq, from),
         NEW s \in Timings, Timed(s), End(seq, from) <= s.start, s.start <= s.finish
  PROVE  Packed(Append(seq, s), from) /\ End(Append(seq, s), from) = s.finish
<1> DEFINE n == Len(seq)
           all == Append(seq, s)
<1>1. /\ n \in Nat
      /\ all \in Seq(Timings)
      /\ Len(all) = n + 1
      /\ DOMAIN seq = 1..n
      /\ DOMAIN all = 1..n + 1
      /\ all[n + 1] = s
      /\ \A k \in 1..n : all[k] = seq[k]
  OBVIOUS
<1>2. s.start \in Nat /\ s.finish \in Nat /\ s.duration \in Nat
  BY DEF Timings
<1>3. \A k \in 1..n : seq[k].start \in Nat /\ seq[k].finish \in Nat /\ seq[k].duration \in Nat
  <2>1. \A k \in 1..n : seq[k] \in Timings
    BY <1>1
  <2> QED
    BY <2>1 DEF Timings
<1>4. End(all, from) = s.finish
  <2>1. all # <<>>
    BY <1>1
  <2> QED
    BY <1>1, <2>1 DEF End
<1>5. End(seq, from) \in Nat /\ from <= End(seq, from)
  BY EndTyped DEF Packed
<1>6. from <= End(all, from)
  BY <1>2, <1>4, <1>5
<1>7. InOrder(all, from)
  <2> SUFFICES ASSUME NEW k \in 1..n + 1
               PROVE  /\ all[k].start <= all[k].finish
                      /\ (IF k = 1 THEN from ELSE all[k-1].finish) <= all[k].start
                      /\ all[k].finish <= End(all, from)
    BY <1>1 DEF InOrder
  <2>1. CASE k \in 1..n
    <3>1. /\ seq[k].start <= seq[k].finish
          /\ (IF k = 1 THEN from ELSE seq[k-1].finish) <= seq[k].start
          /\ seq[k].finish <= End(seq, from)
      BY <1>1, <2>1 DEF Packed, InOrder
    <3>2. all[k] = seq[k] /\ (k # 1 => all[k-1] = seq[k-1])
      BY <1>1, <2>1
    <3>3. seq[k].finish <= End(all, from)
      BY <1>2, <1>3, <1>4, <1>5, <2>1, <3>1
    <3> QED
      BY <3>1, <3>2, <3>3
  <2>2. CASE k = n + 1 /\ n = 0
    BY <1>1, <1>2, <1>4, <1>5, <2>2
  <2>3. CASE k = n + 1 /\ n # 0
    <3>1. k # 1 /\ all[k-1] = seq[n] /\ End(seq, from) = seq[n].finish
      <4>1. k - 1 = n /\ n \in 1..n /\ seq # <<>>
        BY <1>1, <2>3
      <4> QED
        BY <1>1, <2>3, <4>1 DEF End
    <3>2. all[k] = s
      BY <1>1, <2>3
    <3> HIDE DEF all
    <3> QED
      BY <1>2, <1>4, <3>1, <3>2
  <2> QED
    BY <1>1, <2>1, <2>2, <2>3
<1>8. Roomy(all, from)
  <2>1. PICK g \in [0..n -> Nat] :
          IsTotal(g, seq) /\ g[n] * TicksPerMs <= End(seq, from) - from
    BY DEF Packed, Roomy
  <2> DEFINE h == [i \in 0..n + 1 |-> IF i \in 0..n THEN g[i] ELSE g[n] + s.duration]
  <2>2. g[n] \in Nat /\ h \in [0..n + 1 -> Nat] /\ h[n + 1] = g[n] + s.duration
    BY <1>1, <1>2
  <2>3. ASSUME NEW i \in 0..n + 1
        PROVE  h[i] = IF i = 0 THEN 0 ELSE h[i-1] + all[i].duration
    <3>1. CASE i \in 0..n
      <4>1. g[i] = IF i = 0 THEN 0 ELSE g[i-1] + seq[i].duration
        BY <2>1, <3>1 DEF IsTotal
      <4>2. h[i] = g[i] /\ (i # 0 => h[i-1] = g[i-1] /\ all[i] = seq[i])
        BY <1>1, <3>1
      <4> QED
        BY <4>1, <4>2
    <3>2. CASE i = n + 1
      <4>1. i # 0 /\ i - 1 = n /\ h[i-1] = g[n] /\ all[i] = s
        BY <1>1, <3>2
      <4> QED
        BY <2>2, <3>2, <4>1
    <3> QED
      BY <1>1, <3>1, <3>2
  <2>4. IsTotal(h, all)
    BY <1>1, <2>3, Zenon DEF IsTotal
  <2>5. h[n + 1] * TicksPerMs <= End(all, from) - from
    <3>1. TicksPerMs \in Nat
      BY TimesAssumption
    <3>2. h[n + 1] * TicksPerMs = g[n] * TicksPerMs + s.duration * TicksPerMs
      BY <1>2, <2>2, <3>1, ProductOfSum
    <3>3. s.duration * TicksPerMs <= s.finish - s.start
      BY <1>2, DurationBounds DEF Timed
    <3>4. g[n] * TicksPerMs \in Nat /\ s.duration * TicksPerMs \in Nat
      BY <1>2, <2>2, <3>1
    <3> HIDE DEF h
    <3> QED
      BY <1>2, <1>4, <1>5, <2>1, <3>2, <3>3, <3>4
  <2> QED
    BY <1>1, <2>2, <2>4, <2>5 DEF Roomy
<1> QED
  BY <1>4, <1>6, <1>7, <1>8 DEF Packed

\* There is one such sum.
LEMMA OneTotal ==
  ASSUME NEW seq \in Seq(Timings), NEW g, NEW h, IsTotal(g, seq), IsTotal(h, seq)
  PROVE  g[Len(seq)] = h[Len(seq)]
<1> DEFINE n == Len(seq)
           Differs == {i \in 0..n : g[i] # h[i]}
<1>1. n \in Nat
  OBVIOUS
<1>2. \A i \in 0..n : /\ g[i] = IF i = 0 THEN 0 ELSE g[i-1] + seq[i].duration
                      /\ h[i] = IF i = 0 THEN 0 ELSE h[i-1] + seq[i].duration
  BY Zenon DEF IsTotal
<1>3. ASSUME Differs # {} PROVE FALSE
  <2>1. Differs \in SUBSET Nat
    BY <1>1
  <2>2. PICK i \in Differs : \A j \in Differs : i <= j
    BY <1>3, <2>1, LeastMember
  <2>3. i # 0 /\ i \in 0..n
    BY <1>2, <2>2
  <2>4. i - 1 \in 0..n /\ ~(i <= i - 1)
    BY <1>1, <2>3
  <2>5. g[i-1] = h[i-1]
    BY <2>2, <2>4
  <2> QED
    BY <1>2, <2>2, <2>3, <2>5
<1> QED
  BY <1>1, <1>3

-------------------------------------------------------------------------------
(* What the steps do to the run.                                            *)

LEMMA StepsOfTheRun == [TNext]_tvars => [Next]_vars
BY DEF TNext, tvars, Accepts, EndsRun, Enters, EndsVisit, FailsVisit, Records, GoesOn, Next, Done

\* The steps that record a result add one to executed_results.
LEMMA OneMore ==
  ASSUME IInv, RInv, pc \in Visiting, NEW r \in StepResults, r.step = current,
         executed' = Put(executed, r)
  PROVE  Len(executed') = Len(executed) + 1
<1>1. executed \in Seq(StepResults) /\ current \in Nat
  BY DEF IInv, TypeOK
<1>2. \A k \in DOMAIN executed : executed[k].step < current
  BY DEF RInv, Accounted, Before
<1>3. \A k \in DOMAIN executed : executed[k].step \in Nat
  <2>1. \A k \in DOMAIN executed : executed[k] \in StepResults
    BY <1>1
  <2> QED
    BY <2>1 DEF StepResults
<1>4. \A k \in DOMAIN executed : executed[k].step # r.step
  BY <1>1, <1>2, <1>3
<1> QED
  BY <1>1, <1>4, PutAppends

LEMMA AcceptsEffect ==
  ASSUME IInv, RInv, NEW t, Accepts(t)
  PROVE  /\ pc = "validate" /\ pc' = "workflowStarted"
         /\ executed = <<>> /\ executed' = <<>> /\ result' = result
BY DEF Accepts, AcceptInput, RInv, Accounted

LEMMA EndsRunEffect ==
  ASSUME IInv, IInv', NEW t, EndsRun(t)
  PROVE  /\ pc \notin {"validate", "done"} /\ pc' \notin Visiting \cup {"validate", "done"}
         /\ executed' = executed /\ result' # None
BY DEF EndsRun, BuildResult, WorkflowStartedHookFails, WorkflowFinishedHookFails, IInv, Control,
       Visiting

LEMMA EntersEffect ==
  ASSUME NEW t, Enters(t)
  PROVE  /\ pc = "loop" /\ pc' = "stepStarted"
         /\ executed' = executed /\ result' = result
BY DEF Enters, EnterStep

LEMMA EndsVisitEffect ==
  ASSUME NEW t, EndsVisit(t)
  PROVE  /\ pc \in Visiting /\ pc' = "stepFinished"
         /\ executed' = executed /\ result' = result
BY DEF EndsVisit, ApprovalFails, InvokeReturns, InvokeRaises, Visiting

LEMMA FailsVisitEffect ==
  ASSUME IInv, RInv, NEW t, FailsVisit(t)
  PROVE  /\ pc \in Visiting /\ pc' = "buildResult"
         /\ Len(executed') = Len(executed) + 1 /\ result' = result
<1>1. CASE StepStartedHookFails
  <2> DEFINE r == Result("failed", 0, None, HookError(pc), None)
  <2>1. r \in StepResults /\ r.step = current
    <3>1. HookError(pc) \in Errors
      BY <1>1, HookErrorTyped DEF IInv, TypeOK
    <3> QED
      BY <3>1, ResultTyped DEF IInv, Result
  <2> QED
    BY <1>1, <2>1, OneMore DEF StepStartedHookFails, FailByHook, Visiting
<1>2. CASE StepFinishedHookFails
  <2> DEFINE r == FailedByHook(stepResult)
  <2>1. stepResult \in StepResults /\ stepResult.step = current
    BY <1>2 DEF StepFinishedHookFails, IInv, Control, Settled
  <2>2. HookError(pc) \in Errors
    BY HookErrorTyped DEF IInv, TypeOK
  <2>3. r \in StepResults /\ r.step = current
    BY <2>1, <2>2 DEF FailedByHook, StepResults
  <2> QED
    BY <1>2, <2>3, OneMore DEF StepFinishedHookFails, FailByHook, Visiting
<1> QED
  BY <1>1, <1>2 DEF FailsVisit

LEMMA RecordsEffect ==
  ASSUME IInv, RInv, Records
  PROVE  /\ pc = "stepFinished" /\ pc' \notin Visiting \cup {"validate", "done"}
         /\ Len(executed') = Len(executed) + 1 /\ result' = result
<1>1. stepResult \in StepResults /\ stepResult.step = current /\ pc = "stepFinished"
  BY DEF Records, StepFinished, IInv, Control, Settled
<1> QED
  BY <1>1, OneMore DEF Records, StepFinished, Visiting

\* What goes on where no clock is read.
LEMMA GoesOnEffect ==
  ASSUME GoesOn \/ UNCHANGED tvars
  PROVE  /\ UNCHANGED <<now, readings, executed, result>>
         /\ pc' \notin {"validate", "done"} => pc \notin {"validate", "done"}
         /\ pc' \in Visiting => pc \in Visiting
         /\ pc' = "stepFinished" => pc = "stepFinished"
<1>1. CASE UNCHANGED tvars
  BY <1>1 DEF tvars, vars
<1>2. CASE GoesOn
  <2>1. UNCHANGED <<now, readings>>
    BY <1>2 DEF GoesOn
  <2>2. CASE RejectInput \/ WorkflowStarted \/ LeaveLoop \/ RejectMethod
    BY <2>1, <2>2 DEF RejectInput, WorkflowStarted, LeaveLoop, RejectMethod, Escape, Visiting
  <2>3. CASE StepStarted \/ Approve
    BY <2>1, <2>3 DEF StepStarted, Approve, Visiting
  <2>4. CASE \E class \in Raised \cup {"RuntimeError"} : InvokeRaises(class) /\ pc' = "invoke"
    BY <2>1, <2>4 DEF InvokeRaises, Visiting
  <2>5. CASE WorkflowFinished \/ Return \/ \E class \in Raised : Interrupt(class)
    BY <2>1, <2>5 DEF WorkflowFinished, Return, Interrupt, Escape, Visiting
  <2>6. CASE Done
    BY <2>1, <2>6 DEF Done, vars
  <2> QED
    BY <1>2, <2>2, <2>3, <2>4, <2>5, <2>6 DEF GoesOn
<1> QED
  BY <1>1, <1>2

-------------------------------------------------------------------------------
(* Every result has its times.                                              *)

LEMMA InitTInv == TInit => TInv
<1> SUFFICES ASSUME TInit PROVE TInv
  OBVIOUS
<1>1. pc = "validate" /\ executed = <<>> /\ result = None
  BY DEF TInit, Init
<1>2. Clocked
  <2>1. clock \in Nat /\ times \in Seq(Timings)
    BY TimesAssumption DEF TInit
  <2>2. /\ setBack \in BOOLEAN
        /\ runStart = None /\ stepStart = None /\ pending = None /\ runTimes = None
    BY DEF TInit
  <2> QED
    BY <1>1, <2>1, <2>2 DEF Clocked, Visiting
<1>3. Kept
  BY <1>1 DEF TInit, Kept
<1>4. Ordered
  BY DEF TInit, Ordered
<1> QED
  BY <1>2, <1>3, <1>4 DEF TInv

\* A clock that was not set back goes on.
LEMMA ReadingsGoOn ==
  ASSUME Clocked, NEW t \in 0..MaxClock, Read(t)
  PROVE  /\ t \in Nat /\ clock' = t /\ setBack' \in BOOLEAN
         /\ ~setBack' => ~setBack /\ clock <= t
<1>1. clock \in Nat /\ t \in Nat
  BY TimesAssumption DEF Clocked
<1>2. clock' = t /\ setBack' = (setBack \/ t < clock)
  BY DEF Read
<1>3. setBack' \in BOOLEAN
  BY <1>2, Zenon
<1>4. ASSUME ~setBack' PROVE ~setBack /\ ~(t < clock)
  BY <1>2, <1>4, Zenon
<1>5. ~(t < clock) => clock <= t
  BY <1>1
<1> QED
  BY <1>1, <1>2, <1>3, <1>4, <1>5

LEMMA SpanReal ==
  ASSUME NEW start \in Nat, NEW finish \in Nat
  PROVE  /\ Span(start, finish) # None
         /\ Span(start, finish) \in Timings \cup {None}
BY SpanTimed, TimesAssumption

LEMMA NatReal ==
  ASSUME NEW t \in Nat
  PROVE  t # None
BY TimesAssumption

LEMMA AcceptsKeeps ==
  ASSUME IInv, RInv, TInv, NEW t \in 0..MaxClock, Accepts(t)
  PROVE  TInv'
<1>1. /\ pc = "validate" /\ pc' = "workflowStarted"
      /\ executed = <<>> /\ executed' = <<>> /\ result' = result
  BY AcceptsEffect
<1>2. /\ t \in Nat /\ clock' = t /\ setBack' \in BOOLEAN
      /\ ~setBack' => ~setBack /\ clock <= t
  BY ReadingsGoOn DEF Accepts, TInv
<1>3. runStart' = t /\ UNCHANGED <<stepStart, pending, times, runTimes>>
  BY DEF Accepts
<1>4. times = <<>> /\ runTimes = None
  <2>1. Len(times) = Len(executed) /\ times \in Seq(Timings)
    BY DEF TInv, Kept, Clocked
  <2>2. result = None
    BY <1>1 DEF IInv, Control, Before
  <2> QED
    BY <1>1, <2>1, <2>2 DEF TInv, Kept
<1>5. Clocked'
  BY <1>1, <1>2, <1>3, NatReal DEF TInv, Clocked, Visiting
<1>6. Kept'
  BY <1>1, <1>3, <1>4 DEF TInv, Kept
<1>7. Ordered'
  <2>1. Packed(<<>>, t) /\ End(<<>>, t) = t
    BY <1>2, EmptyPacked
  <2> QED
    BY <1>1, <1>2, <1>3, <1>4, <2>1 DEF Ordered, Visiting
<1> QED
  BY <1>5, <1>6, <1>7 DEF TInv

LEMMA EndsRunKeeps ==
  ASSUME IInv, IInv', TInv, NEW t \in 0..MaxClock, EndsRun(t)
  PROVE  TInv'
<1>1. /\ pc \notin {"validate", "done"} /\ pc' \notin Visiting \cup {"validate", "done"}
      /\ executed' = executed /\ result' # None
  BY EndsRunEffect
<1>2. /\ t \in Nat /\ clock' = t /\ setBack' \in BOOLEAN
      /\ ~setBack' => ~setBack /\ clock <= t
  BY ReadingsGoOn DEF EndsRun, TInv
<1>3. runTimes' = Span(runStart, t) /\ UNCHANGED <<runStart, stepStart, pending, times>>
  BY DEF EndsRun, Closes
<1>4. runStart \in Nat /\ runStart # None /\ clock \in Nat /\ times \in Seq(Timings)
  BY <1>1 DEF TInv, Clocked
<1>5. /\ runTimes' \in Timings \cup {None} /\ runTimes' # None /\ Timed(runTimes')
      /\ runTimes'.start = runStart /\ runTimes'.finish = t
  BY <1>2, <1>3, <1>4, SpanTimed, SpanReal
<1>6. Clocked'
  BY <1>1, <1>2, <1>3, <1>5 DEF TInv, Clocked, Visiting
<1>7. Kept'
  BY <1>1, <1>3, <1>5 DEF TInv, Kept, Timed
<1>8. Ordered'
  <2>1. End(times, runStart) \in Nat
    BY <1>4, EndTyped
  <2>2. ~setBack' => Packed(times, runStart) /\ End(times, runStart) <= t
    BY <1>2, <1>4, <2>1 DEF TInv, Ordered
  <2> QED
    BY <1>1, <1>2, <1>3, <1>5, <2>2 DEF Ordered, Visiting
<1> QED
  BY <1>6, <1>7, <1>8 DEF TInv

LEMMA EntersKeeps ==
  ASSUME IInv, TInv, NEW t \in 0..MaxClock, Enters(t)
  PROVE  TInv'
<1>1. /\ pc = "loop" /\ pc' = "stepStarted"
      /\ executed' = executed /\ result' = result
  BY EntersEffect
<1>2. /\ t \in Nat /\ clock' = t /\ setBack' \in BOOLEAN
      /\ ~setBack' => ~setBack /\ clock <= t
  BY ReadingsGoOn DEF Enters, TInv
<1>3. stepStart' = t /\ UNCHANGED <<runStart, pending, times, runTimes>>
  BY DEF Enters
<1>4. runStart \in Nat /\ runStart # None /\ clock \in Nat /\ times \in Seq(Timings)
  BY <1>1 DEF TInv, Clocked
<1>5. runTimes = None
  BY <1>1 DEF IInv, Control, Before, TInv, Kept
<1>6. Clocked'
  BY <1>1, <1>2, <1>3, NatReal DEF TInv, Clocked, Visiting
<1>7. Kept'
  BY <1>1, <1>3 DEF TInv, Kept, Timed
<1>8. Ordered'
  <2>1. End(times, runStart) \in Nat
    BY <1>4, EndTyped
  <2>2. ~setBack' => Packed(times, runStart) /\ End(times, runStart) <= t
    BY <1>2, <1>4, <2>1 DEF TInv, Ordered
  <2> QED
    BY <1>1, <1>2, <1>3, <1>5, <2>2 DEF Ordered, Visiting
<1> QED
  BY <1>6, <1>7, <1>8 DEF TInv

LEMMA EndsVisitKeeps ==
  ASSUME IInv, TInv, NEW t \in 0..MaxClock, EndsVisit(t)
  PROVE  TInv'
<1>1. /\ pc \in Visiting /\ pc' = "stepFinished"
      /\ executed' = executed /\ result' = result
  BY EndsVisitEffect
<1>2. /\ t \in Nat /\ clock' = t /\ setBack' \in BOOLEAN
      /\ ~setBack' => ~setBack /\ clock <= t
  BY ReadingsGoOn DEF EndsVisit, TInv
<1>3. pending' = Span(stepStart, t) /\ UNCHANGED <<runStart, stepStart, times, runTimes>>
  BY DEF EndsVisit, TimesVisit
<1>4. /\ runStart \in Nat /\ runStart # None /\ clock \in Nat /\ times \in Seq(Timings)
      /\ stepStart \in Nat
  BY <1>1 DEF TInv, Clocked, Visiting
<1>5. runTimes = None
  BY <1>1 DEF IInv, Control, Before, TInv, Kept
<1>6. /\ pending' \in Timings \cup {None} /\ pending' # None /\ Timed(pending')
      /\ pending'.start = stepStart /\ pending'.finish = t
  BY <1>2, <1>3, <1>4, SpanTimed, SpanReal
<1>7. Clocked'
  BY <1>1, <1>2, <1>3, <1>4, <1>6, NatReal DEF TInv, Clocked, Visiting
<1>8. Kept'
  BY <1>1, <1>3, <1>6 DEF TInv, Kept, Timed
<1>9. Ordered'
  <2>1. End(times, runStart) \in Nat
    BY <1>4, EndTyped
  <2>2. ~setBack' => /\ Packed(times, runStart) /\ End(times, runStart) <= t
                     /\ End(times, runStart) <= stepStart /\ stepStart <= t
    BY <1>1, <1>2, <1>4, <2>1 DEF TInv, Ordered
  <2> QED
    BY <1>1, <1>2, <1>3, <1>5, <1>6, <2>2 DEF Ordered, Visiting
<1> QED
  BY <1>7, <1>8, <1>9 DEF TInv

\* A visit's times go behind those of the visits before it.
LEMMA RecordingGrows ==
  ASSUME TInv, NEW s \in Timings, Timed(s), times' = Append(times, s),
         Len(executed') = Len(executed) + 1
  PROVE  /\ times' \in Seq(Timings)
         /\ Len(times') = Len(executed')
         /\ \A k \in DOMAIN times' : Timed(times'[k])
<1>1. /\ times \in Seq(Timings) /\ Len(times) = Len(executed)
      /\ \A k \in DOMAIN times : Timed(times[k])
  BY DEF TInv, Clocked, Kept
<1>2. Len(times') = Len(times) + 1 /\ times' \in Seq(Timings)
  BY <1>1
<1>3. ASSUME NEW k \in DOMAIN times' PROVE Timed(times'[k])
  <2>1. CASE k = Len(times) + 1
    BY <1>1, <2>1
  <2>2. CASE k # Len(times) + 1
    <3>1. k \in DOMAIN times /\ times'[k] = times[k]
      BY <1>1, <1>2, <2>2
    <3> QED
      BY <1>1, <3>1
  <2> QED
    BY <2>1, <2>2
<1> QED
  BY <1>1, <1>2, <1>3

LEMMA FailsVisitKeeps ==
  ASSUME IInv, RInv, TInv, NEW t \in 0..MaxClock, FailsVisit(t)
  PROVE  TInv'
<1>1. /\ pc \in Visiting /\ pc' = "buildResult"
      /\ Len(executed') = Len(executed) + 1 /\ result' = result
  BY FailsVisitEffect
<1>2. /\ t \in Nat /\ clock' = t /\ setBack' \in BOOLEAN
      /\ ~setBack' => ~setBack /\ clock <= t
  BY ReadingsGoOn DEF FailsVisit, TInv
<1>3. /\ times' = Append(times, Span(stepStart, t))
      /\ UNCHANGED <<runStart, stepStart, pending, runTimes>>
  BY DEF FailsVisit, TimesVisit
<1>4. /\ runStart \in Nat /\ runStart # None /\ clock \in Nat /\ times \in Seq(Timings)
      /\ stepStart \in Nat
  BY <1>1 DEF TInv, Clocked, Visiting
<1>5. runTimes = None
  BY <1>1 DEF IInv, Control, Before, TInv, Kept
<1> DEFINE s == Span(stepStart, t)
<1>6. s \in Timings /\ Timed(s) /\ s.start = stepStart /\ s.finish = t
  BY <1>2, <1>4, SpanTimed
<1> HIDE DEF s
<1>7. /\ times' \in Seq(Timings)
      /\ Len(times') = Len(executed')
      /\ \A k \in DOMAIN times' : Timed(times'[k])
  BY <1>1, <1>3, <1>6, RecordingGrows DEF s
<1>8. Clocked'
  BY <1>1, <1>2, <1>3, <1>7 DEF TInv, Clocked, Visiting
<1>9. Kept'
  BY <1>1, <1>3, <1>7 DEF TInv, Kept, Timed
<1>10. Ordered'
  <2>1. End(times, runStart) \in Nat
    BY <1>4, EndTyped
  <2>2. ~setBack' => /\ Packed(times, runStart)
                     /\ End(times, runStart) <= stepStart /\ stepStart <= t
    BY <1>1, <1>2, <1>4, <2>1 DEF TInv, Ordered
  <2>3. ~setBack' => Packed(Append(times, s), runStart) /\ End(Append(times, s), runStart) = t
    BY <1>4, <1>6, <2>2, PackedGrows
  <2>4. times' = Append(times, s)
    BY <1>3 DEF s
  <2> QED
    BY <1>1, <1>2, <1>3, <1>5, <2>3, <2>4 DEF Ordered, Visiting
<1> QED
  BY <1>8, <1>9, <1>10 DEF TInv

LEMMA RecordsKeeps ==
  ASSUME IInv, RInv, TInv, Records
  PROVE  TInv'
<1>1. /\ pc = "stepFinished" /\ pc' \notin Visiting \cup {"validate", "done"}
      /\ Len(executed') = Len(executed) + 1 /\ result' = result
  BY RecordsEffect
<1>2. /\ times' = Append(times, pending)
      /\ UNCHANGED <<clock, setBack, runStart, stepStart, pending, runTimes>>
  BY DEF Records, now
<1>3. /\ runStart \in Nat /\ runStart # None /\ clock \in Nat /\ times \in Seq(Timings)
      /\ stepStart \in Nat /\ pending \in Timings /\ Timed(pending)
  BY <1>1 DEF TInv, Clocked, Kept, Visiting
<1>4. runTimes = None
  BY <1>1 DEF IInv, Control, Before, Visiting, TInv, Kept
<1>5. /\ times' \in Seq(Timings)
      /\ Len(times') = Len(executed')
      /\ \A k \in DOMAIN times' : Timed(times'[k])
  BY <1>1, <1>2, <1>3, RecordingGrows
<1>6. Clocked'
  BY <1>1, <1>2, <1>5 DEF TInv, Clocked, Visiting
<1>7. Kept'
  BY <1>1, <1>2, <1>5 DEF TInv, Kept, Timed
<1>8. Ordered'
  <2>1. ~setBack => /\ Packed(times, runStart) /\ End(times, runStart) <= stepStart
                    /\ pending.start = stepStart /\ stepStart <= pending.finish
                    /\ pending.finish <= clock
    BY <1>1, <1>3 DEF TInv, Ordered, Visiting
  <2>2. ~setBack => /\ Packed(Append(times, pending), runStart)
                    /\ End(Append(times, pending), runStart) = pending.finish
    BY <1>3, <2>1, PackedGrows
  <2> QED
    BY <1>1, <1>2, <1>4, <2>1, <2>2 DEF Ordered, Visiting
<1> QED
  BY <1>6, <1>7, <1>8 DEF TInv

LEMMA GoesOnKeeps ==
  ASSUME TInv, GoesOn \/ UNCHANGED tvars
  PROVE  TInv'
<1>1. /\ UNCHANGED <<clock, setBack, runStart, stepStart, pending, times, runTimes>>
      /\ UNCHANGED <<executed, result>>
      /\ pc' \notin {"validate", "done"} => pc \notin {"validate", "done"}
      /\ pc' \in Visiting => pc \in Visiting
      /\ pc' = "stepFinished" => pc = "stepFinished"
  BY GoesOnEffect DEF now, readings
<1>2. Clocked'
  BY <1>1 DEF TInv, Clocked, Visiting
<1>3. Kept'
  BY <1>1 DEF TInv, Kept, Timed
<1>4. Ordered'
  BY <1>1 DEF TInv, Ordered, Visiting
<1> QED
  BY <1>2, <1>3, <1>4 DEF TInv

LEMMA NextTInv == IInv /\ RInv /\ IInv' /\ TInv /\ [TNext]_tvars => TInv'
<1> SUFFICES ASSUME IInv, RInv, IInv', TInv, [TNext]_tvars PROVE TInv'
  OBVIOUS
<1>1. ASSUME NEW t \in 0..MaxClock,
             Accepts(t) \/ EndsRun(t) \/ Enters(t) \/ EndsVisit(t) \/ FailsVisit(t)
      PROVE  TInv'
  BY <1>1, AcceptsKeeps, EndsRunKeeps, EntersKeeps, EndsVisitKeeps, FailsVisitKeeps
<1>2. CASE Records
  BY <1>2, RecordsKeeps
<1>3. CASE GoesOn \/ UNCHANGED tvars
  BY <1>3, GoesOnKeeps
<1> QED
  BY <1>1, <1>2, <1>3 DEF TNext

-------------------------------------------------------------------------------
(* Theorems.                                                                *)

\* The run that is timed is a run of Executor: reading the clock changes nothing. (the
\* calls of _utc_now in run)
THEOREM TimedRunIsARun == TSpec => Spec
<1>1. TInit => Init
  BY DEF TInit
<1> QED
  BY <1>1, StepsOfTheRun, PTL DEF TSpec, Spec

\* TInv holds throughout a run.
THEOREM TimesInvariance == TSpec => []TInv
<1>1. TSpec => []IInv /\ []RInv
  BY TimedRunIsARun, Invariance, ReportInvariance, PTL
<1> QED
  BY <1>1, InitTInv, NextTInv, PTL DEF TSpec

\* Every result is timed once and its duration is what lies between its two times, less
\* up to a millisecond, whatever the clock does and however floats are rounded.
\* (DurationsAgree)
THEOREM DurationsAlwaysAgree == TSpec => []DurationsAgree
<1>1. TInv => DurationsAgree
  <2> SUFFICES ASSUME TInv PROVE DurationsAgree
    OBVIOUS
  <2>1. ASSUME NEW s \in Timings, Timed(s)
        PROVE  /\ s.duration >= 0
               /\ s.finish <= s.start => s.duration = 0
               /\ s.finish >= s.start =>
                    /\ s.duration * TicksPerMs <= s.finish - s.start
                    /\ s.finish - s.start <= (s.duration + 1) * TicksPerMs
    <3>1. s.start \in Nat /\ s.finish \in Nat /\ s.duration \in Nat
      BY DEF Timings
    <3> QED
      <4>1. s.duration = DurationMs(s.start, s.finish)
        BY <2>1 DEF Timed
      <4>2. /\ DurationMs(s.start, s.finish) \in Nat
            /\ s.finish <= s.start => DurationMs(s.start, s.finish) = 0
            /\ s.finish >= s.start =>
                 /\ DurationMs(s.start, s.finish) * TicksPerMs <= s.finish - s.start
                 /\ s.finish - s.start <= (DurationMs(s.start, s.finish) + 1) * TicksPerMs
        BY <3>1, DurationBounds
      <4>3. s.duration >= 0
        BY <3>1
      <4> QED
        BY <4>1, <4>2, <4>3
  <2>2. ASSUME NEW s \in Spans PROVE s \in Timings /\ Timed(s)
    <3>1. CASE s \in Range(times)
      <4>1. PICK k \in DOMAIN times : s = times[k]
        BY <3>1 DEF Range
      <4> QED
        BY <4>1 DEF TInv, Clocked, Kept
    <3>2. CASE s = runTimes /\ runTimes # None
      BY <3>2 DEF TInv, Clocked, Kept
    <3> QED
      BY <3>1, <3>2 DEF Spans
  <2> QED
    BY <2>1, <2>2 DEF DurationsAgree, TInv, Kept
<1> QED
  BY <1>1, TimesInvariance, PTL

\* While the clock goes on, the visits lie one after the other inside of the run and
\* leave room for the sum of their durations, however floats are rounded.
\* (VisitsLieInTheRun)
THEOREM VisitsAlwaysLieInTheRun == TSpec => []VisitsLieInTheRun
<1>1. TInv => VisitsLieInTheRun
  <2> SUFFICES ASSUME TInv, ~setBack, runTimes # None
               PROVE  /\ runTimes.start <= runTimes.finish
                      /\ \A k \in DOMAIN times :
                           /\ times[k].start <= times[k].finish
                           /\ (IF k = 1 THEN runTimes.start ELSE times[k-1].finish)
                                <= times[k].start
                           /\ times[k].finish <= runTimes.finish
                      /\ TotalMs[Len(times)] * TicksPerMs <= runTimes.finish - runTimes.start
                      /\ TotalMs[Len(times)] <= runTimes.duration + 1
    BY DEF VisitsLieInTheRun
  <2>1. runTimes \in Timings /\ Timed(runTimes) /\ runTimes.start = runStart
    BY DEF TInv, Clocked, Kept
  <2>2. /\ runStart \in Nat /\ runTimes.finish \in Nat /\ runTimes.duration \in Nat
        /\ times \in Seq(Timings)
    BY <2>1 DEF Timings, TInv, Clocked
  <2>3. Packed(times, runStart) /\ End(times, runStart) <= runTimes.finish
    BY <2>2, NatReal DEF TInv, Ordered
  <2>4. End(times, runStart) \in Nat /\ runStart <= End(times, runStart)
    BY <2>2, <2>3, EndTyped DEF Packed
  <2>5. runTimes.start <= runTimes.finish
    BY <2>1, <2>2, <2>3, <2>4
  <2>6. ASSUME NEW k \in DOMAIN times
        PROVE  /\ times[k].start <= times[k].finish
               /\ (IF k = 1 THEN runTimes.start ELSE times[k-1].finish) <= times[k].start
               /\ times[k].finish <= runTimes.finish
    <3>1. times[k] \in Timings
      BY <2>2
    <3>2. times[k].finish \in Nat
      BY <3>1 DEF Timings
    <3>3. /\ times[k].start <= times[k].finish
          /\ (IF k = 1 THEN runStart ELSE times[k-1].finish) <= times[k].start
          /\ times[k].finish <= End(times, runStart)
      BY <2>3 DEF Packed, InOrder
    <3> QED
      BY <2>1, <2>2, <2>3, <2>4, <3>2, <3>3
  <2>7. /\ TotalMs[Len(times)] * TicksPerMs <= runTimes.finish - runTimes.start
        /\ TotalMs[Len(times)] <= runTimes.duration + 1
    <3>1. PICK g \in [0..Len(times) -> Nat] :
            /\ IsTotal(g, times)
            /\ g[Len(times)] * TicksPerMs <= End(times, runStart) - runStart
      BY <2>3 DEF Packed, Roomy
    <3>2. IsTotal(TotalMs, times)
      BY <3>1, Zenon DEF IsTotal, TotalMs
    <3>3. TotalMs[Len(times)] = g[Len(times)]
      BY <2>2, <3>1, <3>2, OneTotal
    <3>4. TicksPerMs \in Nat /\ TicksPerMs > 0 /\ g[Len(times)] \in Nat
      BY <2>2, <3>1, TimesAssumption
    <3>5. runTimes.finish - runStart <= (runTimes.duration + 1) * TicksPerMs
      BY <2>1, <2>2, <2>5, DurationBounds DEF Timed
    <3>6. g[Len(times)] * TicksPerMs \in Nat /\ (runTimes.duration + 1) * TicksPerMs \in Nat
      BY <2>2, <3>4
    <3>7. g[Len(times)] * TicksPerMs <= runTimes.finish - runStart
      BY <2>2, <2>3, <2>4, <3>1, <3>6
    <3>8. g[Len(times)] * TicksPerMs <= (runTimes.duration + 1) * TicksPerMs
      BY <2>2, <3>5, <3>6, <3>7
    <3>9. g[Len(times)] <= runTimes.duration + 1
      <4>1. runTimes.duration + 1 \in Nat
        BY <2>2
      <4> QED
        BY <3>4, <3>8, <4>1, ProductsCompare
    <3> QED
      BY <2>1, <3>3, <3>7, <3>9
  <2> QED
    BY <2>5, <2>6, <2>7
<1> QED
  BY <1>1, TimesInvariance, PTL
===============================================================================
