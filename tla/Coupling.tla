------------------------------ MODULE Coupling ------------------------------
(***************************************************************************)
(* The couplers of two process kernels (src/src/pks/mpc_pk) under the      *)
(* driver's "advance, then commit or try again with a smaller step".       *)
(*                                                                         *)
(* What a PK computes is abstracted to the time its fields belong to: an   *)
(* implicit PK solves from its previous fields (prev_water_storage ...),   *)
(* so its new fields are at prev + dt; a PK that steps its own fields in   *)
(* place has them at content + dt.  Beside the fields an implicit PK keeps *)
(* the clock of its BDF history, which advances at every successful solve  *)
(* and is the time its boundary conditions and sources are taken at.       *)
(*                                                                         *)
(* Chemistry is solved cell by cell and has fields of its own, minerals    *)
(* and what is sorbed or exchanged.  A cell that has reacted keeps them    *)
(* when a later cell fails, and nobody puts them back; the concentrations  *)
(* are handed over only after a success.                                   *)
(***************************************************************************)
EXTENDS Integers

CONSTANTS
  Kinds,      \* the couplers to look at
  End,        \* the time the driver runs to
  Dts,        \* steps a PK may ask for
  MinSub,     \* min_dt_ of the subcycling couplers
  MaxItrs,    \* max_itrs_ of the sequential coupler
  MaxTime     \* bound on the times of fields and histories

Couplers ==
  {"strong", "weak", "fracture", "sequential", "mechanics_flow", "flow_mechanics",
   "shallow_water", "subcycled", "reactive"}

ASSUME CouplingAssumption ==
  /\ Kinds \subseteq Couplers
  /\ End \in Nat
  /\ Dts \subseteq Nat \ {0}
  /\ MinSub \in Nat \ {0}
  /\ MaxItrs \in Nat \ {0}
  /\ MaxTime \in Nat

PKs == {1, 2}

VARIABLES
  kind,      \* which coupler this is
  pc,        \* what it does next
  time,      \* S_->get_time(), the initial time of a step
  final,     \* final time of the step that is tried
  inter,     \* intermediate time
  dt,        \* the driver's step
  content,   \* the time each PK's fields belong to
  prev,      \* ... its previous fields
  bdf,       \* MostRecentTime of its BDF history
  want,      \* what its get_dt returns
  shifted,   \* prev_water_storage carries the terms of CommitSequentialStep
  minerals,  \* the time chemistry's own fields belong to, in its first cell
  repeated,  \* history: how long that cell reacted in attempts that failed
  saved,     \* the StateArchive of a coupler
  itr,       \* num_itrs_
  done,      \* dt_done
  next,      \* dt_next
  cut        \* cfl_ of the shallow water coupler is 1 / cut

fields == <<content, prev, bdf, shifted>>
chemistry == <<minerals, repeated>>
local == <<saved, itr, done, next, cut>>
vars == <<kind, pc, time, final, inter, dt, fields, chemistry, want, local>>

Sequential == {"sequential", "mechanics_flow", "flow_mechanics"}
Archived == {"mechanics_flow", "flow_mechanics"}
Subcycled == {"subcycled", "reactive"}

\* PK_MPC::CommitStep commits all; the throwing coupler has committed its master.
Committed == IF kind = "reactive" THEN {2} ELSE PKs

\* ReactiveTransport_PK and ShallowWater_PK change their fields in place ...
InPlace(p) ==
  \/ kind = "reactive" /\ p = 2
  \/ kind = "shallow_water" /\ p = 1

\* ... transport beside shallow water is explicit and cannot fail.
Explicit(p) == kind = "shallow_water" /\ p = 2
HasBdf(p) == ~InPlace(p) /\ ~Explicit(p)

Labels == {"driver", "pk1", "pk2", "slave", "success", "fail", "thrown", "end"}

TypeOK ==
  /\ kind \in Kinds
  /\ pc \in Labels
  /\ time \in Nat /\ final \in Nat /\ inter \in Nat /\ dt \in Nat
  /\ content \in [PKs -> Nat] /\ prev \in [PKs -> Nat] /\ bdf \in [PKs -> Nat]
  /\ want \in [PKs -> Nat]
  /\ shifted \in BOOLEAN
  /\ minerals \in Nat /\ repeated \in Nat
  /\ saved \in [PKs -> Nat]
  /\ itr \in 0 .. MaxItrs
  /\ done \in Nat /\ next \in Nat /\ cut \in Nat \ {0}

Least(a, b) == IF a < b THEN a ELSE b

Init ==
  /\ kind \in Kinds
  /\ pc = "driver"
  /\ time = 0 /\ final = 0 /\ inter = 0
  /\ dt \in {Least(d, End) : d \in Dts}
  /\ content = [p \in PKs |-> 0] /\ prev = content /\ bdf = content /\ saved = content
  /\ want = [p \in PKs |-> dt]
  /\ shifted = FALSE
  /\ minerals = 0 /\ repeated = 0
  /\ itr = 0 /\ done = 0 /\ next = 0 /\ cut = 1

-----------------------------------------------------------------------------
(* AdvanceStep and CommitStep of one PK over a step of length d            *)

\* Faulty: every solve starts from the present fields.
SolvedFromContent(c, p, d) == [c EXCEPT ![p] = @ + d]

\* The fields after a success ...
Solved(c, p, d) == [c EXCEPT ![p] = (IF InPlace(p) THEN @ ELSE prev[p]) + d]

\* ... and bdf1_dae_->CommitSolution, which AdvanceStep itself calls.
Ticked(p, d) == IF HasBdf(p) THEN [bdf EXCEPT ![p] = @ + d] ELSE bdf

\* The next step is what the timestep controller and the physics make of it.
AsksForAny(p) == \E w \in Dts : want' = [want EXCEPT ![p] = w]

\* After a failure an implicit PK has its fields back from the archive and asks
\* for less; below dt_min the controller throws (0).
AsksForLess(p, d) ==
  \E w \in Dts \cup {0} : w < d /\ want' = [want EXCEPT ![p] = w]

\* CommitStep: the previous fields become the present ones.
Commit(P, c) == [p \in PKs |-> IF p \in P THEN c[p] ELSE prev[p]]

-----------------------------------------------------------------------------
(* The driver                                                              *)

\* get_dt of the coupler ...
GetDt == IF kind \in Subcycled THEN want[1] ELSE Least(want[1], want[2]) \div cut

\* ... which the driver limits to what is left, and refuses below min_dt_.
TakeDt(now) ==
  /\ dt' = Least(GetDt, End - now)
  /\ pc' = IF GetDt = 0 THEN "thrown" ELSE "driver"

StartStep ==
  /\ pc = "driver"
  /\ time < End
  /\ \A p \in PKs : content[p] <= MaxTime /\ bdf[p] <= MaxTime
  /\ pc' = "pk1"
  /\ final' = time + dt
  /\ inter' = time
  /\ saved' = content
  /\ itr' = 0
  /\ UNCHANGED <<kind, chemistry, time, dt, fields, want, done, next, cut>>

\* The step is accepted: CommitStep, advance_time, get_dt.
AcceptStep ==
  /\ pc = "success"
  /\ time' = final
  /\ prev' = Commit(Committed, content)
  /\ shifted' = FALSE
  /\ TakeDt(final)
  /\ UNCHANGED <<kind, chemistry, final, inter, content, bdf, want, local>>

\* ... or refused: get_dt, and nothing else.
RefuseStep ==
  /\ pc = "fail"
  /\ TakeDt(time)
  /\ UNCHANGED <<kind, chemistry, time, final, inter, fields, want, local>>

Finish ==
  /\ pc = "driver"
  /\ time >= End
  /\ pc' = "end"
  /\ UNCHANGED <<kind, chemistry, time, final, inter, dt, fields, want, local>>

-----------------------------------------------------------------------------
(* The first PK                                                            *)

\* Faulty: the history is not committed.
SolveTogetherUncommitted ==
  /\ pc = "pk1"
  /\ kind = "strong"
  /\ content' = Solved(Solved(content, 1, dt), 2, dt)
  /\ \E w \in Dts : want' = [p \in PKs |-> w]
  /\ pc' = "success"
  /\ UNCHANGED <<kind, chemistry, time, final, inter, dt, prev, bdf, shifted, local>>

\* PK_MPCStrong: one solve, one history for both.
SolveTogether ==
  /\ pc = "pk1"
  /\ kind = "strong"
  /\ content' = Solved(Solved(content, 1, dt), 2, dt)
  /\ bdf' = [p \in PKs |-> bdf[p] + dt]
  /\ \E w \in Dts : want' = [p \in PKs |-> w]
  /\ pc' = "success"
  /\ UNCHANGED <<kind, chemistry, time, final, inter, dt, prev, shifted, local>>

\* PK_MPCWeak and PK_MPCSequential
FirstSolved ==
  /\ pc = "pk1"
  /\ kind \in {"weak"} \cup Sequential
  /\ content' = Solved(content, 1, dt)
  /\ bdf' = Ticked(1, dt)
  /\ AsksForAny(1)
  /\ pc' = "pk2"
  /\ UNCHANGED <<kind, chemistry, time, final, inter, dt, prev, shifted, local>>

\* MechanicsFlowMatrixFracture_PK commits the first PK at once.
FirstCommitted ==
  /\ pc = "pk1"
  /\ kind = "fracture"
  /\ content' = Solved(content, 1, dt)
  /\ prev' = Commit({1}, content')
  /\ bdf' = Ticked(1, dt)
  /\ AsksForAny(1)
  /\ pc' = "pk2"
  /\ UNCHANGED <<kind, chemistry, time, final, inter, dt, shifted, local>>

\* Faulty: no Restore when transport's step is too small.
ShallowUnrestored ==
  /\ pc = "pk1"
  /\ kind = "shallow_water"
  /\ AsksForAny(1)
  /\ content' = Solved(content, 1, dt)
  /\ \/ cut' = 1 /\ pc' = "pk2"
     \/ cut' = 2 * cut /\ pc' = "fail"
  /\ UNCHANGED <<kind, chemistry, time, final, inter, dt, prev, bdf, shifted>>
  /\ UNCHANGED <<saved, itr, done, next>>

\* Faulty: cfl_ is not cut.
ShallowUncut ==
  /\ pc = "pk1"
  /\ kind = "shallow_water"
  /\ AsksForAny(1)
  /\ \/ content' = Solved(content, 1, dt) /\ cut' = 1 /\ pc' = "pk2"
     \/ content' = [content EXCEPT ![1] = saved[1]] /\ cut' = cut /\ pc' = "fail"
  /\ UNCHANGED <<kind, chemistry, time, final, inter, dt, prev, bdf, shifted>>
  /\ UNCHANGED <<saved, itr, done, next>>

\* ShallowWaterTransport_PK: the new flow may leave transport too small a
\* stable step, then it is restored.
ShallowSolved ==
  /\ pc = "pk1"
  /\ kind = "shallow_water"
  /\ AsksForAny(1)
  /\ \/ /\ content' = Solved(content, 1, dt)
        /\ cut' = 1
        /\ pc' = "pk2"
     \/ /\ content' = [content EXCEPT ![1] = saved[1]]
        /\ cut' = 2 * cut
        /\ pc' = "fail"
  /\ UNCHANGED <<kind, chemistry, time, final, inter, dt, prev, bdf, shifted>>
  /\ UNCHANGED <<saved, itr, done, next>>

\* The first PK fails; shallow water cuts cfl_ and may ask for any smaller step.
FirstFails ==
  /\ pc = "pk1"
  /\ IF kind = "shallow_water"
     THEN /\ \E w \in Dts : w <= want[1] /\ want' = [want EXCEPT ![1] = w]
          /\ cut' = 2 * cut
     ELSE /\ IF kind = "strong"
             THEN \E w \in Dts \cup {0} : w < dt /\ want' = [p \in PKs |-> w]
             ELSE AsksForLess(1, dt)
          /\ cut' = cut
  /\ pc' = IF want'[1] = 0 THEN "thrown" ELSE "fail"
  /\ content' = IF kind \in Archived THEN saved ELSE content
  /\ UNCHANGED <<kind, chemistry, time, final, inter, dt, prev, bdf, shifted>>
  /\ UNCHANGED <<saved, itr, done, next>>

-----------------------------------------------------------------------------
(* The second PK, once or in the iterations of PK_MPCSequential            *)

SecondSolved ==
  /\ pc = "pk2"
  /\ kind \notin Sequential
  /\ content' = Solved(content, 2, dt)
  /\ bdf' = Ticked(2, dt)
  /\ AsksForAny(2)
  /\ pc' = "success"
  /\ UNCHANGED <<kind, chemistry, time, final, inter, dt, prev, shifted, local>>

\* Faulty: no set_dt when the iterations do not converge ...
IterateWithoutSetDt(converged) ==
  /\ pc = "pk2"
  /\ kind \in Sequential
  /\ LET lost == ~converged /\ itr + 1 = MaxItrs
     IN /\ converged => itr > 0
        /\ bdf' = Ticked(2, dt)
        /\ shifted' = (shifted \/ kind = "flow_mechanics")
        /\ itr' = itr + 1
        /\ content' = IF lost /\ kind \in Archived THEN saved ELSE Solved(content, 2, dt)
        /\ AsksForAny(2)
        /\ pc' = IF lost THEN "fail" ELSE IF converged THEN "success" ELSE "pk1"
  /\ UNCHANGED <<kind, chemistry, time, final, inter, dt, prev, saved, done, next, cut>>

\* CommitSequentialStep changes prev_water_storage in FlowMechanics_PK.  The
\* error is known from the second iteration on; without convergence both PKs
\* are told to try half the step.
Iterate(converged) ==
  /\ pc = "pk2"
  /\ kind \in Sequential
  /\ LET solved == Solved(content, 2, dt)
         lost == ~converged /\ itr + 1 = MaxItrs
     IN /\ converged => itr > 0
        /\ bdf' = Ticked(2, dt)
        /\ shifted' = (shifted \/ kind = "flow_mechanics")
        /\ itr' = itr + 1
        /\ content' = IF lost /\ kind \in Archived THEN saved ELSE solved
        /\ IF lost THEN want' = [p \in PKs |-> dt \div 2] ELSE AsksForAny(2)
        /\ pc' = IF lost THEN "fail" ELSE IF converged THEN "success" ELSE "pk1"
  /\ UNCHANGED <<kind, chemistry, time, final, inter, dt, prev, saved, done, next, cut>>

SecondFails ==
  /\ pc = "pk2"
  /\ ~Explicit(2)
  /\ AsksForLess(2, dt)
  /\ pc' = IF want'[2] = 0 THEN "thrown" ELSE "fail"
  /\ content' = IF kind \in Archived THEN saved ELSE content
  /\ UNCHANGED <<kind, chemistry, time, final, inter, dt, prev, bdf, shifted, local>>

-----------------------------------------------------------------------------
(* Subcycling: PK_MPCSubcycled, and FlowReactiveTransport_PK and           *)
(* SurfaceSubsurface_PK ("reactive")                                       *)

\* The master's step is committed before the slave begins.
MasterSolved ==
  /\ pc = "pk1"
  /\ kind \in Subcycled
  /\ content' = Solved(content, 1, dt)
  /\ prev' = Commit({1}, content')
  /\ bdf' = Ticked(1, dt)
  /\ AsksForAny(1)
  /\ inter' = time
  /\ done' = 0
  /\ next' = IF kind = "reactive" THEN Least(want[2], dt) ELSE want[2]
  /\ pc' = "slave"
  /\ UNCHANGED <<kind, chemistry, time, final, dt, shifted, saved, itr, cut>>

\* Do not overstep.
Substep == Least(next, final - time - done)

\* After a substep the plain coupler asks the slave for the next one, and gives
\* up below min_dt_; the slave's controller may throw before ...
PlainNext(covered) ==
  /\ next' = want'[2]
  /\ pc' = IF want'[2] = 0 THEN "thrown"
           ELSE IF time + covered = final THEN "success"
           ELSE IF want'[2] < MinSub THEN "fail" ELSE "slave"

\* ... the others throw.
ThrowingNext(covered, n) ==
  /\ next' = n
  /\ pc' = IF n < MinSub THEN "thrown"
           ELSE IF time + covered = final THEN "success" ELSE "slave"

\* Faulty: the intermediate time is that of the substep's beginning.
SlaveSolvedBehind ==
  /\ pc = "slave"
  /\ content' = Solved(content, 2, Substep)
  /\ bdf' = Ticked(2, Substep)
  /\ done' = done + Substep
  /\ minerals' = IF kind = "reactive" THEN minerals + Substep ELSE minerals
  /\ inter' = time + done
  /\ AsksForAny(2)
  /\ IF kind = "reactive" THEN ThrowingNext(done', want'[2]) ELSE PlainNext(done')
  /\ prev' = Commit(IF pc' = "success" /\ kind = "subcycled" THEN PKs ELSE {2}, content')
  /\ UNCHANGED <<kind, repeated, time, final, dt, shifted, saved, itr, cut>>

\* The plain coupler sets the intermediate time before the slave's step.
SlaveSolved ==
  /\ pc = "slave"
  /\ content' = Solved(content, 2, Substep)
  /\ bdf' = Ticked(2, Substep)
  /\ done' = done + Substep
  /\ minerals' = IF kind = "reactive" THEN minerals + Substep ELSE minerals
  /\ inter' = time + done'
  /\ AsksForAny(2)
  /\ IF kind = "reactive" THEN ThrowingNext(done', want'[2]) ELSE PlainNext(done')
  /\ prev' = Commit(IF pc' = "success" /\ kind = "subcycled" THEN PKs ELSE {2}, content')
  /\ UNCHANGED <<kind, repeated, time, final, dt, shifted, saved, itr, cut>>

\* The first cell has reacted when another one fails, or is the one that fails.
ReactsInVain(d) ==
  \E lost \in {0, d} : minerals' = minerals + lost /\ repeated' = repeated + lost

SlaveFails ==
  /\ pc = "slave"
  /\ IF kind = "reactive"
     THEN /\ ThrowingNext(done, Substep \div 2)
          /\ ReactsInVain(Substep)
          /\ UNCHANGED <<inter, want>>
     ELSE /\ inter' = time + done + Substep
          /\ AsksForLess(2, Substep)
          /\ PlainNext(done)
          /\ UNCHANGED chemistry
  /\ UNCHANGED <<kind, time, final, dt, fields, saved, itr, done, cut>>

-----------------------------------------------------------------------------
AdvanceStep ==
  \/ SolveTogether \/ FirstSolved \/ FirstCommitted \/ ShallowSolved \/ FirstFails
  \/ SecondSolved \/ (\E c \in BOOLEAN : Iterate(c)) \/ SecondFails
  \/ MasterSolved \/ SlaveSolved \/ SlaveFails

Next == StartStep \/ AcceptStep \/ RefuseStep \/ Finish \/ AdvanceStep

Spec == Init /\ [][Next]_vars

\* One thread that does not stop halfway.
FairSpec == Spec /\ WF_vars(Next)

-----------------------------------------------------------------------------
(* Properties                                                              *)

\* Couplers that commit a PK, or change what it starts from, although the step
\* may still fail.
Spoiling == {"fracture", "flow_mechanics", "subcycled"}

\* What a PK steps from belongs to time t.
StartsFrom(p, t) == IF InPlace(p) THEN content[p] = t ELSE prev[p] = t

\* Before every attempt at a step, a repeated one too, each PK starts from the
\* fields of the present time: what was overwritten has been backed up.
\* PK.hh: CommitStep "is called after ALL PKs have successfully advanced their
\* steps, so information needed to back up can be overwritten".
AttemptStartsClean ==
  pc = "driver" => ~shifted /\ \A p \in PKs : StartsFrom(p, time)

\* Chemistry's own fields of a cell are ahead of time t by what the cell reacted
\* in attempts that failed, and by nothing else.
ReactedTo(t) == kind = "reactive" => minerals = t + repeated

\* The same for the couplers that keep to it.  Reactive transport keeps to it in
\* the concentrations; chemistry's own fields are not restored, and the next
\* attempt starts with all that was reacted in vain.
OthersStartClean ==
  kind \notin Spoiling => AttemptStartsClean /\ (pc = "driver" => ReactedTo(time))

\* When a step has succeeded, each PK's fields belong to its end: after all
\* failures, iterations and substeps no interval was integrated twice or left
\* out, but in chemistry's own fields: there the cells before the one that failed
\* have reacted over the failed substep and again over its repetition.
NothingIntegratedTwice ==
  pc = "success" /\ kind \notin Spoiling =>
    ReactedTo(final) /\ \A p \in PKs : content[p] = final

\* Each substep of the slave starts where the one before it ended, and State's
\* intermediate time, which transport interpolates the water content with, is
\* that of its concentrations, before and after a failed substep.  Chemistry's
\* own fields are ahead by the substeps that failed.
SubstepsTile ==
  pc = "slave" /\ kind = "reactive" =>
    /\ content[2] = time + done
    /\ ReactedTo(time + done)
    /\ inter = time + done
    /\ time + done < final

\* A refused step is tried again with a smaller one, so that the driver cannot
\* repeat it for ever.
RetryIsShorter ==
  [][kind \notin {"subcycled", "shallow_water"} /\ pc = "fail" /\ pc' = "driver" => dt' < dt]_vars

\* The run comes to its end or to an exception, however often steps fail.
Terminates == <>(pc \in {"end", "thrown"})

\* PK.hh: "Advance PK from time t_old to time t_new".  The time an implicit PK
\* advances from is the one of its BDF history.
AdvancesFromOldTime ==
  pc = "driver" => \A p \in PKs : HasBdf(p) => bdf[p] = time

\* It is so where no solve is repeated after a success: with one solve for both
\* PKs, and with a slave that is subcycled.
UnrepeatedSolvesKeepTime == kind \in {"strong", "reactive"} => AdvancesFromOldTime

-----------------------------------------------------------------------------
(* The inductive invariant behind the safety properties                    *)

Safe == kind \notin Spoiling

Trying == {"pk1", "pk2", "slave", "success"}

\* A step that is tried is not empty, and ends at final.
StepShape ==
  /\ time + dt <= End
  /\ pc = "driver" /\ time < End => dt > 0
  /\ pc \in {"pk1", "pk2"} => itr < MaxItrs
  /\ pc \in Trying => dt > 0 /\ final = time + dt
  /\ pc = "slave" => kind \in Subcycled /\ time + done < final
  /\ pc = "pk2" => kind \notin Subcycled \cup {"strong"}

\* Until the step is accepted or given up, everybody can go back to time ...
CanGoBack ==
  Safe =>
    /\ ~shifted
    /\ pc \in {"driver", "pk1", "fail"} => \A p \in PKs : StartsFrom(p, time)
    /\ pc = "pk1" /\ kind = "shallow_water" => saved[1] = time
    /\ pc = "pk2" => \A p \in PKs : InPlace(p) \/ prev[p] = time

\* ... and who has finished is at final.
Finished ==
  Safe =>
    /\ pc = "pk2" => content[1] = final
    /\ pc = "slave" => content[1] = final /\ content[2] = time + done /\ inter = time + done
    /\ pc = "success" => \A p \in PKs : content[p] = final
    /\ pc \in {"slave", "success"} /\ kind = "reactive" => prev[1] = final

\* A cell reacts whenever the concentrations move, and in vain.
Reacted == ReactedTo(content[2])

\* The histories of the couplers that do not repeat a solve.
Clocks ==
  kind \in {"strong", "reactive"} =>
    \A p \in PKs : HasBdf(p) =>
      bdf[p] = IF pc \in {"slave", "success"} THEN final
               ELSE IF pc \in {"driver", "pk1", "fail"} THEN time ELSE bdf[p]

\* After a refusal somebody asks for less.
AsksLess ==
  /\ kind # "shallow_water" => cut = 1
  /\ pc = "fail" /\ kind \notin {"subcycled", "shallow_water"} =>
       /\ want[1] < dt \/ (want[2] < dt /\ kind \notin Subcycled)

IInv == TypeOK /\ StepShape /\ CanGoBack /\ Finished /\ Reacted /\ Clocks /\ AsksLess
=============================================================================
