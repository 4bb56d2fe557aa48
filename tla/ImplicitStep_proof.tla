------------------------- MODULE ImplicitStep_proof -------------------------
(***************************************************************************)
(* Proofs about ImplicitStep, for every choice of sizes, factors, limits   *)
(* and controllers.  What a controller may say is settled first, for one   *)
(* attempt; IInv then follows action by action.                            *)
(***************************************************************************)
EXTENDS ImplicitStep, TLAPS

LEMMA Reduced ==
  ASSUME NEW d \in Nat \ {0}, NEW r \in Nat \ {0}
  PROVE  d \div r \in Nat /\ (r > 1 => d \div r < d)
  OBVIOUS

LEMMA Increased ==
  ASSUME NEW d \in Nat, NEW f \in Nat \ {0}
  PROVE  d * f \in Nat /\ d * f >= d
  OBVIOUS

LEMMA IncreasedIsPositive ==
  ASSUME NEW d \in Nat \ {0}, NEW f \in Nat \ {0}
  PROVE  d * f \in Nat \ {0}
  OBVIOUS

\* The counters of the smarter controller keep their types.
LEMMA SmarterCounters ==
  ASSUME smart \in Counters, NEW d \in Nat \ {0}, NEW o \in Outcomes
  PROVE  Smarter(d, o).counters \in Counters
<1> USE StepAssumption
<1>1. FirstIncrease \in Nat \ {0}
  BY DEF FirstIncrease, Smaller
<1>2. SmarterFails \in Counters
  BY <1>1 DEF SmarterFails, Counters
<1>3. ASSUME NEW g \in BOOLEAN, NEW r \in BOOLEAN
      PROVE  SmarterGoesOn(g, r) \in Counters
  <2>1. Smaller(smart.increase * Increase, MaxIncrease) \in Nat \ {0}
    BY IncreasedIsPositive DEF Smaller, Counters
  <2> QED
    BY <1>1, <2>1 DEF SmarterGoesOn, Counters
<1> QED
  BY <1>2, <1>3 DEF Smarter, Outcomes

\* What a recoverable controller wants is a size; less than a step that failed,
\* if the factor reduces, and, but for the error estimate, no less than one that went well.
LEMMA WantedSizes ==
  ASSUME smart \in Counters, kind \in Recoverable,
         NEW d \in Nat \ {0}, NEW o \in Outcomes, NEW w \in Wanted(d, o)
  PROVE  /\ w \in Nat
         /\ Reduction > 1 /\ Failed(o) => w < d
         /\ kind # "adaptive" /\ ~Failed(o) /\ o.its \in {"few", "some"} => w >= d
<1> USE StepAssumption
<1>1. d \div Reduction \in Nat /\ (Reduction > 1 => d \div Reduction < d)
  BY Reduced
<1>2. d * Increase \in Nat /\ d * Increase >= d
  BY Increased
<1>3. CASE kind = "standard"
  <2>1. w = Standard(d, o)
    BY <1>3 DEF Wanted
  <2> QED
    BY <1>1, <1>2, <1>3, <2>1 DEF Standard, Failed, Outcomes
<1>4. CASE kind = "smarter"
  <2>1. w = Smarter(d, o).dt
    BY <1>4 DEF Wanted
  <2>2. Smarter(d, o).counters.increase \in Nat \ {0}
    BY SmarterCounters DEF Counters
  <2>3. d * Smarter(d, o).counters.increase \in Nat /\ d * Smarter(d, o).counters.increase >= d
    BY <2>2, Increased
  <2>4. w \in {d \div Reduction, d * Smarter(d, o).counters.increase, d}
    BY <2>1 DEF Smarter
  <2>5. Failed(o) => w = d \div Reduction
    BY <2>1 DEF Smarter, Failed, Outcomes
  <2>6. ~Failed(o) /\ o.its \in {"few", "some"}
          => w \in {d * Smarter(d, o).counters.increase, d}
    BY <2>1 DEF Smarter, Failed, Outcomes
  <2> QED
    BY <1>1, <2>3, <2>4, <2>5, <2>6
<1>5. CASE kind = "adaptive"
  <2>1. w \in Adaptive(d, o)
    BY <1>5 DEF Wanted
  <2>2. d \div 10 \in Nat
    OBVIOUS
  <2> QED
    BY <1>1, <1>5, <2>1, <2>2 DEF Adaptive, Failed, Outcomes
<1> QED
  BY <1>3, <1>4, <1>5 DEF Recoverable

\* What the controller of either sort says when it does not give up.
LEMMA Saying ==
  ASSUME IInv, pc = "ready", NEW d \in Nat \ {0}, NEW o \in Outcomes, d <= asked,
         NEW w \in Wanted(d, o), NEW rec, ~Crashes(o, rec),
         rec = IF kind = "fixed" THEN w ELSE Recommended(d, w)
  PROVE  /\ rec \in Nat \ {0}
         /\ Reduction > 1 /\ Failed(o) => rec < d
         /\ kind \in Recoverable => rec <= DtMax
         /\ kind = "fixed" => rec = FixedStep
         /\ spoken /\ kind # "adaptive" /\ ~Failed(o) /\ o.its \in {"few", "some"}
              => rec >= asked
<1> USE StepAssumption
<1>1. kind \in Recoverable \cup {"fixed"} /\ smart \in Counters
  BY DEF IInv, TypeOK
<1>2. asked \in Nat /\ internal \in Nat \cup {Unset}
  BY DEF IInv, TypeOK
<1>3. CASE kind = "fixed"
  <2>1. w = FixedStep /\ rec = w /\ ~Failed(o)
    BY <1>3 DEF Wanted, Crashes
  <2>2. spoken => asked = FixedStep
    BY <1>3 DEF IInv, AsksAsTold
  <2> QED
    BY <1>3, <2>1, <2>2 DEF Recoverable
<1>4. CASE kind \in Recoverable
  <2>1. kind # "fixed" /\ rec = Recommended(d, w) /\ ~(rec < DtMin)
    BY <1>4 DEF Recoverable, Crashes
  <2>2. /\ w \in Nat
        /\ Reduction > 1 /\ Failed(o) => w < d
        /\ kind # "adaptive" /\ ~Failed(o) /\ o.its \in {"few", "some"} => w >= d
    BY <1>1, <1>4, WantedSizes
  <2>3. spoken => asked = internal /\ internal <= DtMax
    BY <1>4 DEF IInv, AsksAsTold
  <2>4. rec \in Int /\ rec <= DtMax
    BY <1>2, <2>1, <2>2 DEF Recommended, Smaller, Unset
  <2>5. Reduction > 1 /\ Failed(o) => rec < d
    BY <1>2, <2>1, <2>2 DEF Recommended, Smaller, Unset
  <2>6. spoken /\ kind # "adaptive" /\ ~Failed(o) /\ o.its \in {"few", "some"} => rec >= asked
    BY <1>2, <2>1, <2>2, <2>3 DEF Recommended, Smaller, Unset
  <2> QED
    BY <1>4, <2>1, <2>4, <2>5, <2>6
<1> QED
  BY <1>1, <1>3, <1>4

\* An attempt, failed or not, keeps the invariant.
LEMMA AdvanceInv == IInv /\ Advance => IInv'
<1> SUFFICES ASSUME IInv, Advance PROVE IInv'
  OBVIOUS
<1> USE StepAssumption
<1>1. /\ pc \in {"ready", "advanced", "crashed", "done"}
      /\ time \in Start .. Horizon /\ kind \in Kinds
      /\ asked \in Nat \ {0} /\ dtNext \in Nat \ {0} /\ fresh \in BOOLEAN
      /\ times \in [1 .. 2 -> Nat] /\ seq \in Nat /\ lag \in 0 .. MaxLag
      /\ internal \in Nat \cup {Unset} /\ smart \in Counters /\ spoken \in BOOLEAN
      /\ saved \in Nat \ {0} /\ restarts \in 0 .. MaxRestarts
  BY DEF IInv, TypeOK
<1>a. PICK d \in 1 .. Smaller(asked, Horizon - time), o \in Outcomes :
        \E w \in Wanted(d, o) :
          Attempt(d, o, IF kind = "fixed" THEN w ELSE Recommended(d, w))
  BY DEF Advance
<1>2. PICK w \in Wanted(d, o) :
        Attempt(d, o, IF kind = "fixed" THEN w ELSE Recommended(d, w))
  BY <1>a
<1>3. PICK rec : rec = IF kind = "fixed" THEN w ELSE Recommended(d, w)
  OBVIOUS
<1>4. Attempt(d, o, rec)
  BY <1>2, <1>3
<1>5. d \in Nat \ {0} /\ d <= asked /\ time + d <= Horizon /\ time \in Nat
  BY <1>1, <1>4 DEF Smaller, Attempt
<1>6. /\ pc = "ready"
      /\ last' = [dt |-> d, asked |-> asked, its |-> o.its, valid |-> o.valid,
                  guided |-> spoken]
      /\ smart' = IF kind = "smarter" THEN Smarter(d, o).counters ELSE smart
      /\ time' = time /\ kind' = kind /\ saved' = saved /\ restarts' = restarts
      /\ fresh' = FALSE
  BY <1>4 DEF Attempt
<1>7. smart' \in Counters
  BY <1>1, <1>5, <1>6, SmarterCounters
<1>8. /\ o.its \in {"few", "some", "many", "none"} /\ o.valid \in BOOLEAN
      /\ Failed(last)' = Failed(o)
      /\ last' \in [dt : Nat, asked : Nat, its : {"few", "some", "many", "none"},
                    valid : BOOLEAN, guided : BOOLEAN]
  <2>1. o.its \in {"few", "some", "many", "none"} /\ o.valid \in BOOLEAN
    <3>1. CASE o \in [its : {"few", "some", "many"}, valid : BOOLEAN]
      BY <3>1
    <3>2. CASE o = [its |-> "none", valid |-> TRUE]
      BY <3>2, Zenon
    <3> QED
      BY <3>1, <3>2 DEF Outcomes
  <2>2. last' \in [dt : Nat, asked : Nat, its : {"few", "some", "many", "none"},
                   valid : BOOLEAN, guided : BOOLEAN]
    BY <1>1, <1>5, <1>6, <2>1
  <2>3. Failed(last)' = Failed(o)
    BY <1>6 DEF Failed
  <2> QED
    BY <2>1, <2>2, <2>3
<1>9. /\ Flushed(d) \in [1 .. 2 -> Nat] /\ Flushed(d)[1] = time
      /\ fresh => Flushed(d)[2] = time
      /\ ~fresh => Flushed(d) = times
  <2>1. CASE fresh
    BY <1>5, <2>1 DEF Flushed
  <2>2. CASE ~fresh
    BY <1>1, <1>6, <2>2 DEF Flushed, IInv, HistoryIsOfAcceptedSteps
  <2> QED
    BY <2>1, <2>2
<1>10. CASE Crashes(o, rec)
  <2>1. /\ pc' = "crashed" /\ times' = Flushed(d)
        /\ seq' = (IF fresh THEN 0 ELSE seq) /\ lag' = (IF fresh THEN 0 ELSE lag)
        /\ UNCHANGED <<asked, dtNext, internal, spoken>>
    BY <1>4, <1>10 DEF Attempt
  <2>2. seq' \in Nat /\ lag' \in 0 .. MaxLag
    BY <1>1, <2>1
  <2>4. TypeOK'
    BY <1>1, <1>6, <1>7, <1>8, <1>9, <2>1, <2>2 DEF TypeOK
  <2>3. AsksAsTold'
    BY <1>6, <2>1 DEF IInv, AsksAsTold
  <2> QED
    BY <2>1, <2>3, <2>4
       DEF IInv, HistoryIsOfAcceptedSteps, AttemptShape, AsksLess, AsksNoLess
<1>11. CASE ~Crashes(o, rec)
  <2>1. /\ pc' = (IF Failed(o) THEN "ready" ELSE "advanced")
        /\ times' = Recorded(d, o)
        /\ seq' = (IF fresh THEN 0 ELSE seq) + (IF Failed(o) THEN 0 ELSE 1)
        /\ lag' = Lag(d, o, rec)
        /\ dtNext' = rec /\ asked' = AskedAfter(d, o, rec)
        /\ internal' = (IF kind \in Recoverable THEN rec ELSE internal)
        /\ spoken' = TRUE
    BY <1>4, <1>11 DEF Attempt
  <2>2. /\ rec \in Nat \ {0}
        /\ Reduction > 1 /\ Failed(o) => rec < d
        /\ kind \in Recoverable => rec <= DtMax
        /\ kind = "fixed" => rec = FixedStep
        /\ spoken /\ kind # "adaptive" /\ ~Failed(o) /\ o.its \in {"few", "some"}
             => rec >= asked
    BY <1>3, <1>5, <1>6, <1>11, Saying
  <2>3. asked' \in Nat \ {0} /\ (Failed(o) => asked' = rec)
    BY <1>1, <1>5, <2>1, <2>2 DEF AskedAfter
  <2>4. lag' \in 0 .. MaxLag
    BY <1>1, <1>5, <2>1, <2>2 DEF Lag, Smaller, Larger
  <2>5. /\ times' \in [1 .. 2 -> Nat]
        /\ Failed(o) => times' = Flushed(d)
        /\ ~Failed(o) => times'[1] = time + d /\ times'[2] = time
    BY <1>5, <1>9, <2>1 DEF Recorded
  <2>6. seq' \in Nat /\ (~Failed(o) => seq' > 0) /\ (Failed(o) => seq' = IF fresh THEN 0 ELSE seq)
    BY <1>1, <2>1
  <2>7. TypeOK'
    BY <1>1, <1>6, <1>7, <1>8, <2>1, <2>2, <2>3, <2>4, <2>5, <2>6 DEF TypeOK
  <2>8. HistoryIsOfAcceptedSteps'
    BY <1>6, <1>9, <2>1, <2>5, <2>6 DEF IInv, HistoryIsOfAcceptedSteps
  <2>9. AttemptShape'
    BY <1>5, <1>6, <1>8, <2>1 DEF AttemptShape
  <2>10. AsksAsTold'
    BY <1>6, <2>1, <2>2, <2>3 DEF AsksAsTold
  <2>11. AsksLess'
    BY <1>6, <1>8, <2>1, <2>2 DEF AsksLess
  <2>12. AsksNoLess'
    BY <1>6, <2>1, <2>2 DEF AsksNoLess
  <2> QED
    BY <2>7, <2>8, <2>9, <2>10, <2>11, <2>12 DEF IInv
<1> QED
  BY <1>10, <1>11

LEMMA CommitInv == IInv /\ Commit => IInv'
<1> SUFFICES ASSUME IInv, Commit PROVE IInv'
  OBVIOUS
<1> USE StepAssumption
<1>1. /\ time' = time + last.dt
      /\ pc' \in {"ready", "done"}
      /\ asked' = dtNext /\ saved' = dtNext
      /\ UNCHANGED <<kind, dtNext, fresh, times, seq, lag, internal, smart, spoken, last, restarts>>
  BY DEF Commit, bdf, controller
<1>2. /\ spoken /\ ~Failed(last) /\ last.dt > 0 /\ time + last.dt <= Horizon
      /\ seq > 0 /\ times[1] = time + last.dt /\ times[2] = time
  BY DEF IInv, Commit, AttemptShape, HistoryIsOfAcceptedSteps
<1>3. time' \in Start .. Horizon /\ time' > time /\ time \in Nat
  BY <1>1, <1>2 DEF IInv, TypeOK
<1>4. TypeOK'
  BY <1>1, <1>3 DEF IInv, TypeOK
<1>5. HistoryIsOfAcceptedSteps'
  BY <1>1, <1>2, <1>3 DEF HistoryIsOfAcceptedSteps
<1>6. AsksAsTold' /\ AsksLess'
  BY <1>1, <1>2 DEF IInv, AsksAsTold, AsksLess, Failed
<1> QED
  BY <1>1, <1>4, <1>5, <1>6 DEF IInv, AttemptShape, AsksNoLess

LEMMA RestartInv == IInv /\ Restart => IInv'
<1> SUFFICES ASSUME IInv, Restart PROVE IInv'
  OBVIOUS
<1> USE StepAssumption
<1>1. TypeOK
  BY DEF IInv
<1>2. PICK d \in 1 .. saved : asked' = d /\ dtNext' = d
  BY DEF Restart
<1>3. NewCounters \in Counters
  BY DEF NewCounters, Counters
<1>4. <<0, 0>> \in [1 .. 2 -> Nat]
  OBVIOUS
<1>5. TypeOK'
  <2>1. restarts' \in 0 .. MaxRestarts /\ lag' \in 0 .. MaxLag
    BY <1>1 DEF Restart, TypeOK
  <2>2. asked' \in Nat \ {0} /\ dtNext' \in Nat \ {0} /\ seq' \in Nat
    BY <1>1, <1>2 DEF Restart, TypeOK
  <2>3. /\ pc' \in {"ready", "advanced", "crashed", "done"} /\ spoken' \in BOOLEAN
        /\ fresh' \in BOOLEAN /\ times' \in [1 .. 2 -> Nat] /\ smart' \in Counters
    BY <1>3, <1>4, Zenon DEF Restart
  <2>4. /\ time' = time /\ kind' = kind /\ last' = last /\ saved' = saved
        /\ internal' \in Nat \cup {Unset}
    BY DEF Restart
  <2> QED
    BY <1>1, <2>1, <2>2, <2>3, <2>4 DEF TypeOK
<1> QED
  BY <1>5 DEF IInv, Restart, HistoryIsOfAcceptedSteps, AttemptShape, AsksAsTold, AsksLess,
     AsksNoLess

LEMMA InitInv == Init => IInv
<1> SUFFICES ASSUME Init PROVE IInv
  OBVIOUS
<1> USE StepAssumption
<1>1. NewCounters \in Counters
  BY DEF NewCounters, Counters
<1>2. <<0, 0>> \in [1 .. 2 -> Nat]
  OBVIOUS
<1>3. [dt |-> 0, asked |-> 0, its |-> "some", valid |-> TRUE, guided |-> FALSE]
        \in [dt : Nat, asked : Nat, its : {"few", "some", "many", "none"},
             valid : BOOLEAN, guided : BOOLEAN]
  OBVIOUS
<1>4. TypeOK
  <2>1. time \in Start .. Horizon /\ lag \in 0 .. MaxLag /\ restarts \in 0 .. MaxRestarts
    BY DEF Init
  <2>2. /\ asked \in Nat \ {0} /\ dtNext \in Nat \ {0} /\ saved \in Nat \ {0}
        /\ internal \in Nat \cup {Unset} /\ seq \in Nat
    BY DEF Init
  <2>3. /\ pc \in {"ready", "advanced", "crashed", "done"} /\ kind \in Kinds
        /\ fresh \in BOOLEAN /\ spoken \in BOOLEAN
        /\ times \in [1 .. 2 -> Nat] /\ smart \in Counters
    BY <1>1, <1>2, Zenon DEF Init
  <2> QED
    BY <1>3, <2>1, <2>2, <2>3, Zenon DEF Init, TypeOK
<1> QED
  BY <1>4 DEF IInv, Init, HistoryIsOfAcceptedSteps, AttemptShape, AsksAsTold, AsksLess, AsksNoLess

LEMMA StutterInv == IInv /\ UNCHANGED vars => IInv'
  BY DEF IInv, vars, pk, bdf, controller, TypeOK, HistoryIsOfAcceptedSteps, AttemptShape,
     AsksAsTold, AsksLess, AsksNoLess, Failed

LEMMA Inductive == Spec => []IInv
<1>1. IInv /\ [Next]_vars => IInv'
  BY AdvanceInv, CommitInv, RestartInv, StutterInv DEF Next
<1> QED
  BY InitInv, <1>1, PTL DEF Spec

\* The variables keep their types: in particular every step asked for is
\* positive, and the preconditioner lag keeps its bound.
THEOREM TypeCorrect == Spec => []TypeOK
<1>1. IInv => TypeOK
  BY DEF IInv
<1> QED
  BY Inductive, <1>1, PTL

\* The history of the integrator is that of the accepted steps.
THEOREM HistoryKept == Spec => []HistoryIsOfAcceptedSteps
<1>1. IInv => HistoryIsOfAcceptedSteps
  BY DEF IInv
<1> QED
  BY Inductive, <1>1, PTL

\* A step cut short by an event does not lower what the kernel asks for.
THEOREM Recovers == Spec => RecoversAfterEvent
<1>1. ASSUME IInv, [Next]_vars
      PROVE  [pc = "advanced" /\ kind # "adaptive" /\ last.guided /\ last.its \in {"few", "some"}
                => asked' >= last.asked]_vars
  <2> SUFFICES ASSUME pc = "advanced", kind # "adaptive", last.guided,
                      last.its \in {"few", "some"}, ~UNCHANGED vars
               PROVE  asked' >= last.asked
    OBVIOUS
  <2>1. Commit
    BY <1>1 DEF Next, Advance, Attempt, Restart
  <2> QED
    BY <1>1, <2>1 DEF Commit, IInv, AsksNoLess
<1> QED
  BY Inductive, <1>1, PTL DEF Spec, RecoversAfterEvent

\* A failed step is not tried again at its size, for every factor that reduces.
THEOREM Shrinks == Spec => RetryShrinks
<1>1. ASSUME IInv, [Next]_vars
      PROVE  [Reduction > 1 /\ pc = "ready" /\ spoken /\ Failed(last) /\ restarts' = restarts
                => last'.dt < last.dt]_vars
  <2> SUFFICES ASSUME Reduction > 1, pc = "ready", spoken, Failed(last), restarts' = restarts,
                      ~UNCHANGED vars
               PROVE  last'.dt < last.dt
    OBVIOUS
  <2>1. Advance
    BY <1>1 DEF Next, Commit, Restart, IInv, TypeOK
  <2>2. PICK d \in 1 .. Smaller(asked, Horizon - time) : last'.dt = d /\ d <= asked
    BY <2>1 DEF Advance, Attempt
  <2>3. asked = dtNext /\ dtNext < last.dt
    BY <1>1 DEF IInv, AsksAsTold, AsksLess
  <2>4. asked \in Nat /\ last.dt \in Nat /\ d \in Int
    BY <1>1 DEF IInv, TypeOK
  <2> QED
    BY <2>2, <2>3, <2>4
<1> QED
  BY Inductive, <1>1, PTL DEF Spec, RetryShrinks

-----------------------------------------------------------------------------
(* Why the run ends.  The liveness itself is left to TLC; the two facts it *)
(* rests on, a quantity that every step lowers and a next step wherever    *)
(* the run has not ended, are stated of the steps.                         *)

\* How far an attempt is from being made or given up.
Phase == CASE pc = "ready" -> 2 [] pc = "advanced" -> 1 [] OTHER -> 0

\* A step makes one of the bounded number of restarts; or moves the time towards
\* the horizon; or gets further with the attempt; or is a failed attempt, after
\* which the kernel asks for less if the factor reduces.
UsesUp ==
  \/ restarts' > restarts
  \/ /\ restarts' = restarts
     /\ \/ time' > time
        \/ /\ time' = time
           /\ Phase' < Phase \/ (Phase' = Phase /\ asked' < asked)

UsesUpBounds == restarts \in 0 .. MaxRestarts /\ time \in Start .. Horizon
                  /\ Phase \in 0 .. 2 /\ asked \in Nat \ {0}

\* The run has somewhere to go, and an attempt has an outcome.
Short == pc \in {"ready", "crashed"} => time < Horizon
MayAdvance ==
  \E dt \in 1 .. Smaller(asked, Horizon - time), o \in Outcomes : Wanted(dt, o) # {}

\* What a step may not do for nothing: all but fail for a factor of 1.
Useful == Reduction > 1 \/ ~Failed(last)'

LEMMA AdvanceUsesUp == IInv /\ Advance /\ Useful => UsesUp
<1> SUFFICES ASSUME IInv, Advance, Useful PROVE UsesUp
  OBVIOUS
<1>1. PICK d \in 1 .. Smaller(asked, Horizon - time), o \in Outcomes :
        \E w \in Wanted(d, o) :
          Attempt(d, o, IF kind = "fixed" THEN w ELSE Recommended(d, w))
  BY DEF Advance
<1>2. PICK w \in Wanted(d, o) :
        Attempt(d, o, IF kind = "fixed" THEN w ELSE Recommended(d, w))
  BY <1>1
<1> DEFINE rec == IF kind = "fixed" THEN w ELSE Recommended(d, w)
<1>3. /\ pc = "ready" /\ time' = time /\ restarts' = restarts /\ d <= asked
      /\ Crashes(o, rec) => pc' = "crashed"
      /\ ~Crashes(o, rec) => /\ pc' = IF Failed(o) THEN "ready" ELSE "advanced"
                             /\ asked' = AskedAfter(d, o, rec)
  BY <1>2 DEF Attempt
<1>4. asked \in Nat /\ d \in Nat \ {0}
  BY DEF IInv, TypeOK
<1>5. CASE Crashes(o, rec)
  BY <1>3, <1>5 DEF UsesUp, Phase
<1>6. CASE ~Crashes(o, rec) /\ ~Failed(o)
  BY <1>3, <1>6 DEF UsesUp, Phase
<1>7. CASE ~Crashes(o, rec) /\ Failed(o)
  <2> HIDE DEF rec
  <2>1. Failed(last)'
    BY <1>2, <1>7 DEF Attempt, Failed
  <2>3. Reduction > 1
    BY <2>1 DEF Useful
  <2>4. rec \in Nat \ {0} /\ rec < d
    BY <1>3, <1>4, <1>7, <2>3, Saying DEF rec
  <2>2. asked' = rec
    BY <1>3, <1>7 DEF AskedAfter
  <2> QED
    BY <1>3, <1>4, <1>7, <2>4, <2>2 DEF UsesUp, Phase
<1> QED
  BY <1>5, <1>6, <1>7

\* Every step of a run but an attempt that fails for a factor of 1 uses something
\* up, and what is used up is bounded: with a factor that reduces only finitely
\* many steps are made, however the solver behaves.
THEOREM EveryStepUsesUp == Spec => []UsesUpBounds /\ [][Useful => UsesUp]_vars
<1>1. IInv => UsesUpBounds
  BY DEF IInv, TypeOK, UsesUpBounds, Phase
<1>2. IInv /\ [Next]_vars => [Useful => UsesUp]_vars
  <2> SUFFICES ASSUME IInv, Next, Useful PROVE UsesUp
    OBVIOUS
  <2>1. CASE Advance
    BY <2>1, AdvanceUsesUp
  <2>2. CASE Commit
    <3>1. /\ time' = time + last.dt /\ restarts' = restarts
          /\ time \in Nat /\ last.dt \in Nat /\ last.dt > 0
      BY <2>2, StepAssumption DEF Commit, IInv, TypeOK, AttemptShape
    <3> QED
      BY <3>1 DEF UsesUp
  <2>3. CASE Restart
    BY <2>3 DEF Restart, IInv, TypeOK, UsesUp
  <2> QED
    BY <2>1, <2>2, <2>3 DEF Next
<1> QED
  BY Inductive, <1>1, <1>2, PTL DEF Spec

\* As long as the run is ready there is a step it can attempt, whatever has been
\* cut or refused before: nothing but its end or a crash stops it.
THEOREM ReadyMayAdvance == Spec => [](pc = "ready" => MayAdvance)
<1> USE StepAssumption
<1>1. Init => Short
  BY DEF Init, Short
<1>2. IInv /\ Short /\ [Next]_vars => Short'
  <2> SUFFICES ASSUME IInv, Short, [Next]_vars PROVE Short'
    OBVIOUS
  <2>1. CASE Advance
    BY <2>1 DEF Advance, Attempt, Short
  <2>2. CASE Commit
    <3>1. time' = time + last.dt /\ time + last.dt <= Horizon
          /\ pc' = (IF time' = Horizon THEN "done" ELSE "ready")
          /\ time \in Nat /\ last.dt \in Nat
      BY <2>2 DEF Commit, IInv, TypeOK, AttemptShape
    <3> QED
      BY <3>1 DEF Short
  <2>3. CASE Restart
    BY <2>3 DEF Restart, Short
  <2>4. CASE UNCHANGED vars
    BY <2>4 DEF vars, Short
  <2> QED
    BY <2>1, <2>2, <2>3, <2>4 DEF Next
<1>3. IInv /\ Short => (pc = "ready" => MayAdvance)
  <2> SUFFICES ASSUME IInv, Short, pc = "ready" PROVE MayAdvance
    OBVIOUS
  <2>1. 1 \in 1 .. Smaller(asked, Horizon - time)
    BY DEF IInv, TypeOK, Short, Smaller
  <2> DEFINE o == [its |-> "none", valid |-> TRUE]
  <2>2. o \in Outcomes /\ o.its = "none"
    BY DEF Outcomes
  <2>3. kind \in {"standard", "smarter", "adaptive", "fixed"}
    BY DEF IInv, TypeOK, Recoverable
  <2>4. Wanted(1, o) # {}
    <3> HIDE DEF o
    <3> QED
      BY <2>2, <2>3 DEF Wanted, Adaptive
  <2> QED
    BY <2>1, <2>2, <2>4 DEF MayAdvance
<1> QED
  BY Inductive, <1>1, <1>2, <1>3, PTL DEF Spec
=============================================================================
