---------------------------------- MODULE Times ----------------------------------
(***************************************************************************)
(* The times of a run: started_at, finished_at and duration_ms of its       *)
(* result and of its steps (_utc_now, _duration_ms, runtime/executor.py).   *)
(* The clock is the wall clock: it may stand still between two readings,    *)
(* and somebody may set it back.  Executor's actions are unchanged, but     *)
(* those that read the clock.                                              *)
(***************************************************************************)
EXTENDS Executor, SequencesExt

CONSTANTS
  TicksPerMs,  \* the resolution of the clock
  Short,       \* the numbers of milliseconds that come out one less
  MaxClock     \* bounds the clock

\* What datetime and int() give a result.
Timings == [start : Nat, finish : Nat, duration : Nat]

ASSUME TimesAssumption ==
  /\ TicksPerMs \in Nat \ {0}
  /\ Short \subseteq Nat \ {0}
  /\ MaxClock \in Nat
  /\ None \notin Nat \cup Timings

VARIABLES
  clock,      \* the last reading
  setBack,    \* whether the clock was ever set back
  runStart,   \* workflow_started_at
  stepStart,  \* step_started_at of the visit
  pending,    \* the times of stepResult
  times,      \* the times of the results in executed, in the same order
  runTimes    \* the times of the result, or None

now == <<clock, setBack>>
readings == <<runStart, stepStart, pending, times, runTimes>>
tvars == <<vars, now, readings>>

\* int(total_seconds() * 1000) in floats, which cuts off what is not a whole
\* millisecond. The product can be less than the exact one by less than a tick, so that
\* only a whole number can lose its last millisecond (1.001 s give 1000, 1.002 s give
\* 1002); which ones do depends on nothing but the number. A negative one gives 0.
DurationMs(start, finish) ==
  LET ms == (finish - start) \div TicksPerMs
  IN  IF finish < start THEN 0
      ELSE IF ms * TicksPerMs = finish - start /\ ms \in Short THEN ms - 1
      ELSE ms

Span(start, finish) ==
  [start |-> start, finish |-> finish, duration |-> DurationMs(start, finish)]

\* _utc_now returns t.
Read(t) ==
  /\ clock' = t
  /\ setBack' = (setBack \/ t < clock)

TInit ==
  /\ Init
  /\ clock \in 0..MaxClock
  /\ setBack = FALSE
  /\ runStart = None
  /\ stepStart = None
  /\ pending = None
  /\ times = <<>>
  /\ runTimes = None

-------------------------------------------------------------------------------

Accepts(t) ==
  /\ AcceptInput
  /\ Read(t)
  /\ runStart' = t
  /\ UNCHANGED <<stepStart, pending, times, runTimes>>

\* (a mutant) The duration of the result built before stays.
KeepsDuration(t) == runTimes' = [Span(runStart, t) EXCEPT !.duration =
                                   IF runTimes = None THEN @ ELSE runTimes.duration]

Closes(t) == runTimes' = Span(runStart, t)

\* A result is built, or fails when it was built.
EndsRun(t) ==
  /\ BuildResult \/ WorkflowStartedHookFails \/ WorkflowFinishedHookFails
  /\ Read(t)
  /\ Closes(t)
  /\ UNCHANGED <<runStart, stepStart, pending, times>>

Enters(t) ==
  /\ EnterStep
  /\ Read(t)
  /\ stepStart' = t
  /\ UNCHANGED <<runStart, pending, times, runTimes>>

\* (a mutant) The visit's times start with the run's.
TimesVisitFromRun(t) == Span(runStart, t)

TimesVisit(t) == Span(stepStart, t)

\* The visit ends before the hooks are told.
EndsVisit(t) ==
  /\ \/ ApprovalFails
     \/ \E output \in Outputs : InvokeReturns(output)
     \/ \E class \in Raised \cup {"RuntimeError"} : InvokeRaises(class) /\ pc' = "stepFinished"
  /\ Read(t)
  /\ pending' = TimesVisit(t)
  /\ UNCHANGED <<runStart, stepStart, times, runTimes>>

\* A visit that its hooks end is timed by their failure.
FailsVisit(t) ==
  /\ StepStartedHookFails \/ StepFinishedHookFails
  /\ Read(t)
  /\ times' = Append(times, TimesVisit(t))
  /\ UNCHANGED <<runStart, stepStart, pending, runTimes>>

Records ==
  /\ StepFinished
  /\ times' = Append(times, pending)
  /\ UNCHANGED <<now, runStart, stepStart, pending, runTimes>>

\* sleep_for_retry and the rest read no clock.
GoesOn ==
  /\ \/ RejectInput
     \/ WorkflowStarted
     \/ LeaveLoop
     \/ RejectMethod
     \/ StepStarted
     \/ Approve
     \/ \E class \in Raised \cup {"RuntimeError"} : InvokeRaises(class) /\ pc' = "invoke"
     \/ WorkflowFinished
     \/ Return
     \/ \E class \in Raised : Interrupt(class)
     \/ Done
  /\ UNCHANGED <<now, readings>>

TNext ==
  \/ \E t \in 0..MaxClock :
       Accepts(t) \/ EndsRun(t) \/ Enters(t) \/ EndsVisit(t) \/ FailsVisit(t)
  \/ Records
  \/ GoesOn

TSpec == TInit /\ [][TNext]_tvars

-------------------------------------------------------------------------------

Spans == Range(times) \cup ({runTimes} \ {None})

\* Every result is timed once, and its duration goes with its two times also when a
\* hook that failed afterwards changed them: it is what lies between them, less up to a
\* millisecond, and zero when the clock was set back. (_duration_ms, and the three places
\* that overwrite finished_at)
DurationsAgree ==
  /\ Len(times) = Len(executed)
  /\ result # None <=> runTimes # None
  /\ \A s \in Spans :
       /\ s.duration >= 0
       /\ s.finish <= s.start => s.duration = 0
       /\ s.finish >= s.start =>
            /\ s.duration * TicksPerMs <= s.finish - s.start
            /\ s.finish - s.start <= (s.duration + 1) * TicksPerMs

\* The sum of the durations of the first n visits.
TotalMs[n \in 0..Len(times)] ==
  IF n = 0 THEN 0 ELSE TotalMs[n-1] + times[n].duration

\* While nobody sets the clock back, the visits lie one after the other inside of the
\* run, and their durations add up to no more than its time, which is no more than a
\* millisecond above its duration: visits of 1000 and 1 ms fit in a run of 1.001 s,
\* whose duration is 1000. (the order of the readings in run: before the hooks of a
\* start, before those of a finish)
VisitsLieInTheRun ==
  ~setBack /\ runTimes # None =>
    /\ runTimes.start <= runTimes.finish
    /\ \A k \in DOMAIN times :
         /\ times[k].start <= times[k].finish
         /\ (IF k = 1 THEN runTimes.start ELSE times[k-1].finish) <= times[k].start
         /\ times[k].finish <= runTimes.finish
    /\ TotalMs[Len(times)] * TicksPerMs <= runTimes.finish - runTimes.start
    /\ TotalMs[Len(times)] <= runTimes.duration + 1
===============================================================================
