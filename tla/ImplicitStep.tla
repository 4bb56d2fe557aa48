--------------------------- MODULE ImplicitStep ---------------------------
(***************************************************************************)
(* The implicit timestep of one process kernel: the attempt to advance it  *)
(* (Richards_PK::AdvanceStep over BDF1_TI::AdvanceStep), the timestep      *)
(* controllers that turn the course of the attempt into the size of the    *)
(* next one, and the history of solutions behind the predictor.            *)
(*                                                                         *)
(* The driver takes what the kernel asks for or, because of an event, any  *)
(* smaller step.  The nonlinear solver converges, or not, as it likes.     *)
(* Sizes are integers; a factor rounds down.                               *)
(***************************************************************************)
EXTENDS Integers

CONSTANTS
  Kinds,        \* "timestep controller type"s a run may have
  Start, Horizon,   \* times
  FirstStep,    \* timestep of the time period
  InitialStep,  \* "initial timestep" of the controller, or Unset
  DtMin, DtMax, \* "min timestep", "max timestep"
  Reduction,    \* the reduction factor is 1 / Reduction; 1 is accepted
  Increase, MaxIncrease,   \* "timestep increase factor" and its largest value
  GrowthWait,   \* "growth wait after fail"
  CountBefore,  \* "count before increasing increase factor"
  FixedStep,    \* "timestep" of the fixed controller
  MaxLag,       \* "max preconditioner lag iterations"
  MaxRestarts   \* bound

Unset == -1
Recoverable == {"standard", "smarter", "adaptive"}

ASSUME StepAssumption ==
  /\ Kinds \subseteq Recoverable \cup {"fixed"}
  /\ Start \in Nat /\ Horizon \in Nat /\ Start < Horizon
  /\ FirstStep \in Nat \ {0} /\ InitialStep \in Nat \cup {Unset}
  /\ DtMin \in Nat \ {0} /\ DtMax \in Nat /\ DtMin <= DtMax
  /\ Reduction \in Nat \ {0}
  /\ Increase \in Nat \ {0} /\ MaxIncrease \in Nat \ {0}
  /\ GrowthWait \in Nat /\ CountBefore \in Nat
  /\ FixedStep \in Nat \ {0} /\ MaxLag \in Nat /\ MaxRestarts \in Nat

Smaller(a, b) == IF a < b THEN a ELSE b
Larger(a, b) == IF a > b THEN a ELSE b

-----------------------------------------------------------------------------
VARIABLES
  pc,        \* "ready", "advanced", "crashed", "done"
  time,      \* S_->get_time()
  kind,      \* of the controller
  asked,     \* Richards_PK::dt_ when the driver reads it
  dtNext,    \* dt_next_
  fresh,     \* num_itrs_ = 0
  times,     \* SolutionHistory::times_: the newest, and the one before
  seq,       \* accepted steps since the history was flushed
  lag,       \* pc_lag
  internal,  \* dt_internal_ of a recoverable controller
  smart,     \* counters of the smarter controller
  last,      \* history: the last attempt
  spoken,    \* history: has the present controller made a recommendation?
  saved,     \* the step in the checkpoint file
  restarts   \* bound

pk == <<asked, dtNext, fresh>>
bdf == <<times, seq, lag>>
controller == <<internal, smart, spoken>>
vars == <<pc, time, kind, pk, bdf, controller, last, saved, restarts>>

\* What the solver can come back with: the iterations against "min iterations"
\* and "max iterations" ("none" when it fails or a CutTimestep is thrown), and
\* what the PK says of the solution.  After a failure it looks at u_prev.
Outcomes == [its : {"few", "some", "many"}, valid : BOOLEAN]
              \cup {[its |-> "none", valid |-> TRUE]}
Failed(o) == o.its = "none" \/ ~o.valid

Counters == [increase : Nat \ {0}, increases : Nat, lastFail : Nat, wait : Nat]
NewCounters == [increase |-> Increase, increases |-> 0, lastFail |-> 0, wait |-> GrowthWait]

TypeOK ==
  /\ pc \in {"ready", "advanced", "crashed", "done"}
  /\ time \in Start .. Horizon /\ kind \in Kinds
  /\ asked \in Nat \ {0} /\ dtNext \in Nat \ {0} /\ fresh \in BOOLEAN
  /\ times \in [1 .. 2 -> Nat] /\ seq \in Nat /\ lag \in 0 .. MaxLag
  /\ internal \in Nat \cup {Unset} /\ smart \in Counters /\ spoken \in BOOLEAN
  /\ last \in [dt : Nat, asked : Nat, its : {"few", "some", "many", "none"},
               valid : BOOLEAN, guided : BOOLEAN]
  /\ saved \in Nat \ {0} /\ restarts \in 0 .. MaxRestarts

-----------------------------------------------------------------------------
(* The controllers: getTimestep_                                           *)

\* Faulty: a step the PK rejects is not reduced.
StandardAcceptsInvalid(dt, o) ==
  IF o.its \in {"none", "many"} THEN dt \div Reduction
  ELSE IF o.its = "few" THEN dt * Increase ELSE dt

Standard(dt, o) ==
  IF o.its \in {"none", "many"} \/ ~o.valid THEN dt \div Reduction
  ELSE IF o.its = "few" THEN dt * Increase ELSE dt

\* The error estimate gives a factor between 0.1 and 4.
Adaptive(dt, o) ==
  IF o.its \in {"none", "many"} \/ ~o.valid THEN {dt \div Reduction}
  ELSE (dt \div 10) .. (4 * dt)

FirstIncrease == Smaller(Increase, MaxIncrease)

SmarterFails ==
  [increase |-> FirstIncrease, increases |-> 0, lastFail |-> 0,
   wait |-> IF smart.increases > 0 THEN smart.wait + 1 ELSE smart.wait]

SmarterGoesOn(grows, resets) ==
  LET n == smart.increases + 1
  IN [lastFail |-> smart.lastFail + 1,
      wait |-> IF smart.increases > 0 THEN GrowthWait ELSE smart.wait,
      increases |-> IF grows THEN n ELSE IF resets THEN 0 ELSE smart.increases,
      increase |-> IF grows /\ n > CountBefore THEN Smaller(smart.increase * Increase, MaxIncrease)
                   ELSE IF resets THEN FirstIncrease ELSE smart.increase]

\* The counters after an attempt, and the size the smarter controller wants.
Smarter(dt, o) ==
  LET few == o.its = "few" /\ o.valid
      wait == IF smart.increases > 0 THEN GrowthWait ELSE smart.wait
      grows == few /\ smart.lastFail + 1 > wait
      after == IF o.its = "none" THEN SmarterFails ELSE SmarterGoesOn(grows, ~few)
  IN [counters |-> after,
      dt |-> IF o.its \in {"none", "many"} \/ ~o.valid THEN dt \div Reduction
             ELSE IF grows THEN dt * after.increase ELSE dt]

Wanted(dt, o) ==
  CASE kind = "standard" -> {Standard(dt, o)}
    [] kind = "smarter"  -> {Smarter(dt, o).dt}
    [] kind = "adaptive" -> Adaptive(dt, o)
    [] kind = "fixed"    -> {FixedStep}

\* Faulty: the recommendation made before the event is not kept.
RecommendedForgets(dt, wanted) == Smaller(DtMax, wanted)

\* TimestepControllerRecoverable::getTimestep: a step that was cut short by the
\* driver, and went well, does not lower the recommendation.
Recommended(dt, wanted) ==
  LET kept == IF dt <= internal /\ dt <= wanted /\ wanted < internal THEN internal ELSE wanted
  IN Smaller(DtMax, kept)

\* getTimestep throws TimestepCrash.
Crashes(o, rec) == IF kind = "fixed" THEN Failed(o) ELSE rec < DtMin

-----------------------------------------------------------------------------
(* One attempt                                                             *)

\* SetInitialState, on the first attempt: two entries, one of them a derivative.
Flushed(dt) == IF fresh THEN <<time, time>> ELSE times

\* Faulty: every attempt is recorded in the history.
RecordedAlways(dt, o) == <<dt + Flushed(dt)[1], Flushed(dt)[1]>>

\* CommitSolution and RecordSolution.
Recorded(dt, o) ==
  IF Failed(o) THEN Flushed(dt) ELSE <<dt + Flushed(dt)[1], Flushed(dt)[1]>>

\* The preconditioner lag after an attempt with recommendation rec.
Lag(dt, o, rec) ==
  LET now == IF fresh THEN 0 ELSE lag
  IN CASE o.its = "none" -> 0
       [] o.its # "none" /\ rec > dt -> Smaller(now + 1, MaxLag)
       [] o.its # "none" /\ rec < dt -> Larger(now - 1, 0)
       [] OTHER -> now

\* Faulty: after a failed attempt the kernel asks for the same step again.
AskedAgain(dt, o, rec) == IF Failed(o) THEN dt ELSE Larger(rec, asked)

\* Richards_PK::dt_ when AdvanceStep returns.
AskedAfter(dt, o, rec) ==
  IF ~Failed(o) /\ dt <= asked /\ dt <= rec /\ rec < asked THEN asked ELSE rec

\* AdvanceStep(time, time + dt) comes out as o; the controller says rec.
Attempt(dt, o, rec) ==
  /\ pc = "ready"
  /\ dt <= asked /\ time + dt <= Horizon
  /\ last' = [dt |-> dt, asked |-> asked, its |-> o.its, valid |-> o.valid,
              guided |-> spoken]
  /\ smart' = IF kind = "smarter" THEN Smarter(dt, o).counters ELSE smart
  /\ UNCHANGED <<time, kind, saved, restarts>>
  /\ IF Crashes(o, rec)
     THEN /\ pc' = "crashed"
          /\ times' = Flushed(dt) /\ fresh' = FALSE
          /\ seq' = IF fresh THEN 0 ELSE seq
          /\ lag' = IF fresh THEN 0 ELSE lag
          /\ UNCHANGED <<asked, dtNext, internal, spoken>>
     ELSE /\ pc' = IF Failed(o) THEN "ready" ELSE "advanced"
          /\ times' = Recorded(dt, o) /\ fresh' = FALSE
          /\ seq' = (IF fresh THEN 0 ELSE seq) + (IF Failed(o) THEN 0 ELSE 1)
          /\ lag' = Lag(dt, o, rec)
          /\ dtNext' = rec /\ asked' = AskedAfter(dt, o, rec)
          /\ internal' = IF kind \in Recoverable THEN rec ELSE internal
          /\ spoken' = TRUE

Advance ==
  \E dt \in 1 .. Smaller(asked, Horizon - time), o \in Outcomes :
    \E wanted \in Wanted(dt, o) :
      Attempt(dt, o, IF kind = "fixed" THEN wanted ELSE Recommended(dt, wanted))

\* The driver calls Richards_PK::CommitStep, then moves the time.
Commit ==
  /\ pc = "advanced"
  /\ time' = time + last.dt
  /\ pc' = IF time' = Horizon THEN "done" ELSE "ready"
  /\ asked' = dtNext /\ saved' = dtNext
  /\ UNCHANGED <<kind, dtNext, fresh, bdf, controller, last, restarts>>

\* The run is started again from the file written after the last accepted step,
\* with the step in it, dt, which an event may have cut.  Initialize makes a new
\* integrator and controller after the file has been read: their history,
\* counters and recommendation are new.
Restart ==
  /\ pc \in {"ready", "crashed"} /\ restarts < MaxRestarts
  /\ pc' = "ready"
  /\ \E dt \in 1 .. saved : asked' = dt /\ dtNext' = dt
  /\ fresh' = TRUE /\ times' = <<0, 0>> /\ seq' = 0 /\ lag' = 0
  /\ internal' = InitialStep /\ smart' = NewCounters /\ spoken' = FALSE
  /\ restarts' = restarts + 1
  /\ UNCHANGED <<time, kind, last, saved>>

Init ==
  /\ pc = "ready" /\ time = Start /\ kind \in Kinds
  /\ asked = FirstStep /\ dtNext = FirstStep /\ fresh = TRUE
  /\ times = <<0, 0>> /\ seq = 0 /\ lag = 0
  /\ internal = InitialStep /\ smart = NewCounters /\ spoken = FALSE
  /\ last = [dt |-> 0, asked |-> 0, its |-> "some", valid |-> TRUE,
             guided |-> FALSE]
  /\ saved = FirstStep /\ restarts = 0

Next == Advance \/ Commit \/ Restart
Spec == Init /\ [][Next]_vars

\* The loop of the driver goes on as long as it can; a restart is the user's.
FairSpec == Spec /\ WF_vars(Advance \/ Commit)

-----------------------------------------------------------------------------
(* Properties                                                              *)

\* The history behind the predictor is that of the steps that were accepted:
\* its newest time is the one the field in State has, and its other time is
\* where the step to it began, or, when nothing was accepted since the history
\* was flushed, the same.  A failed attempt, a flush on a first attempt that
\* fails, or a restart leaves nothing behind.
HistoryIsOfAcceptedSteps ==
  /\ pc = "advanced" => seq > 0 /\ times[1] = time + last.dt /\ times[2] = time
  /\ pc = "ready" /\ ~fresh =>
       /\ times[1] = time
       /\ IF seq = 0 THEN times[2] = time ELSE times[2] < time

\* "can recover the preferred dt from arbitrarily small steps introduced by
\* events": when the solver had no trouble, the step asked for next is no
\* smaller than the one asked for before the driver cut it, however small the
\* cut step was.  The controller must have made that recommendation itself, and
\* the adaptive controller has its error estimate, which may want less.
RecoversAfterEvent ==
  [][pc = "advanced" /\ kind # "adaptive" /\ last.guided /\ last.its \in {"few", "some"}
       => asked' >= last.asked]_vars

\* An attempt that repeats a failed one is shorter, whatever the controller and
\* whether the solver or the PK rejected the step, if the factor reduces.  The
\* controllers accept a factor of 1 too; then the failed step is asked for again
\* or, when the driver had cut it, even the longer one asked for before.
RetryShrinks ==
  [][Reduction > 1 /\ pc = "ready" /\ spoken /\ Failed(last) /\ restarts' = restarts
       => last'.dt < last.dt]_vars

\* However the solver behaves, the run arrives at its end or gives up, if the
\* factor reduces; a step that fails for a factor of 1 is repeated for ever.
Terminates == Reduction > 1 => <>[](pc \in {"crashed", "done"})

\* The inductive invariant behind these: what the driver reads is what the
\* controller said, and what it said is less than a failed step (if the factor
\* reduces) and no less than what it said before a step that went well.
AttemptShape ==
  pc = "advanced" => /\ ~fresh /\ spoken /\ ~Failed(last)
                     /\ last.dt > 0 /\ time + last.dt <= Horizon
AsksAsTold ==
  spoken => /\ ~fresh
            /\ kind \in Recoverable => dtNext = internal /\ internal <= DtMax
            /\ kind = "fixed" => dtNext = FixedStep
            /\ pc = "ready" => asked = dtNext
AsksLess == Reduction > 1 /\ pc = "ready" /\ spoken /\ Failed(last) => dtNext < last.dt
AsksNoLess ==
  pc = "advanced" /\ kind # "adaptive" /\ last.guided /\ last.its \in {"few", "some"}
    => dtNext >= last.asked
IInv == TypeOK /\ HistoryIsOfAcceptedSteps /\ AttemptShape /\ AsksAsTold /\ AsksLess /\ AsksNoLess
=============================================================================
