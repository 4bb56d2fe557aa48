--------------------------- MODULE TransportStep ---------------------------
(***************************************************************************)
(* Explicit transport that subcycles inside a step of flow: the loop of    *)
(* TransportExplicit_PK::AdvanceStep under FlowReactiveTransport_PK, with  *)
(* transport alone, with its own subcycling on or off, or with             *)
(* ReactiveTransport_PK as the slave.                                      *)
(*                                                                         *)
(* Flow changes the water content linearly within a step, so a water       *)
(* content is represented by the time it belongs to, and interpolating two *)
(* of them is interpolating their times.  Concentrations are recovered     *)
(* from masses by dividing by a water content: what is kept of them is the *)
(* content they were last divided by.  Mass is kept if the next substep    *)
(* multiplies them by the same.  Half a substep is rounded down to ticks.  *)
(***************************************************************************)
EXTENDS Integers

CONSTANTS
  Kinds,       \* slaves of the coupler to look at
  Horizon,     \* the time the driver runs to
  FlowSteps,   \* steps flow may take
  Stable,      \* results of StableTimeStep: they depend on the flow field
  SlaveSteps,  \* what get_dt of a slave that does not subcycle may return
  MinSub       \* min_dt_ of the coupler

\* Transport with "transport subcycling", transport without it, and transport
\* with chemistry.
Slaves == {"transport", "unsubcycled", "reactive"}

ASSUME TransportAssumption ==
  /\ Kinds \subseteq Slaves
  /\ Horizon \in Nat
  /\ FlowSteps \subseteq Nat \ {0}
  /\ Stable \subseteq Nat \ {0}
  /\ SlaveSteps \subseteq Nat \ {0}
  /\ MinSub \in Nat \ {0}

VARIABLES
  kind,      \* which slave this is
  pc,        \* what is done next
  time,      \* S_->get_time(), S_->initial_time()
  dt,        \* dt of the driver: S_->final_time() is time + dt
  done,      \* dt_done of the coupler
  next,      \* dt_next of the coupler
  inter,     \* S_->intermediate_time()
  wc, wcPrev,   \* water_content and prev_water_content, as State holds them
  held,      \* the content that State's concentrations were divided by
  tcc,       \* ... and those in the loop (tcc, after its last pass tcc_tmp)
  stable,    \* dt_original
  interp,    \* interpolate_wc
  shift,     \* dt_shift
  sum,       \* dt_sum
  cycle,     \* dt_cycle
  physics,   \* t_physics_
  boundary,  \* twice the time at which boundary conditions were computed
  buffer,    \* wc_subcycle_start, wc_subcycle_end
  swap,      \* the first buffer holds the initial content
  start, end \* the contents behind wc_start and wc_end

coupler == <<kind, time, dt, done, next, inter>>
contents == <<wc, wcPrev, held>>
loop == <<tcc, stable, interp, shift, sum, cycle, physics, boundary, buffer, swap, start, end>>
vars == <<pc, coupler, contents, loop>>

Buffers == {"start", "end"}
Labels == {"flow", "slave", "cycle", "chemistry", "accepted", "thrown", "done"}

TypeOK ==
  /\ kind \in Kinds /\ pc \in Labels
  /\ time \in Nat /\ dt \in Nat /\ done \in Nat /\ next \in Nat /\ inter \in Nat
  /\ wc \in Nat /\ wcPrev \in Nat /\ held \in Int /\ tcc \in Int
  /\ stable \in Nat /\ interp \in BOOLEAN /\ shift \in Nat
  /\ sum \in Nat /\ cycle \in Nat /\ physics \in Nat /\ boundary \in Nat
  /\ buffer \in [Buffers -> Int] /\ swap \in BOOLEAN
  /\ start \in Int /\ end \in Int

Smaller(a, b) == IF a < b THEN a ELSE b

Init ==
  /\ kind \in Kinds
  /\ pc = "flow"
  /\ time = 0 /\ done = 0 /\ next = 0 /\ inter = 0
  /\ dt \in {Smaller(d, Horizon) : d \in FlowSteps}
  /\ wc = 0 /\ wcPrev = 0 /\ held = 0 /\ tcc = 0
  /\ stable = 0 /\ interp = FALSE /\ shift = 0
  /\ sum = 0 /\ cycle = 0 /\ physics = 0 /\ boundary = 0
  /\ buffer = [b \in Buffers |-> 0] /\ swap = TRUE
  /\ start = 0 /\ end = 0

-----------------------------------------------------------------------------
(* The driver and the coupler's master                                     *)

\* get_dt of the slave, limited to the master's step.  Transport that subcycles
\* by itself answers 1e+99, otherwise its stable step or little more than its last
\* step; the stable step of AdvanceStep is another one, of other water contents.
SlaveDt(m) == IF kind = "transport" THEN {m} ELSE {Smaller(d, m) : d \in SlaveSteps}

\* Flow has advanced and committed: what evaluates the water content from now on
\* gets the one of the end of the step.
FlowAdvances ==
  /\ pc = "flow"
  /\ time < Horizon
  /\ inter' = time
  /\ done' = 0
  /\ next' \in SlaveDt(dt)
  /\ pc' = "slave"
  /\ UNCHANGED <<kind, time, dt, contents, loop>>

\* Flow fails and asks for less, or gives up.
FlowFails ==
  /\ pc = "flow"
  /\ time < Horizon
  /\ \/ dt' \in {d \in FlowSteps : d < dt} /\ pc' = pc
     \/ dt' = dt /\ pc' = "thrown"
  /\ UNCHANGED <<kind, time, done, next, inter, contents, loop>>

\* The driver accepts the step.
Accept ==
  /\ pc = "accepted"
  /\ time' = time + dt
  /\ dt' \in {Smaller(d, Horizon - time') : d \in FlowSteps}
  /\ pc' = IF time' = Horizon THEN "done" ELSE "flow"
  /\ UNCHANGED <<kind, done, next, inter, contents, loop>>

-----------------------------------------------------------------------------
(* AdvanceStep of transport, of length next                                *)

\* InterpolateCellVector: a linear function with v0 at 0 and v1 at d.
Interpolated(v0, v1, i, d) == v0 + (i * (v1 - v0)) \div d

\* "do not overstep"
Clipped == Smaller(next, dt - done)

\* Faulty: the local time starts at the end of this step, where the general
\* coupler PK_MPCSubcycled has put the intermediate time.
ShiftAtEnd == inter + Clipped - time

\* Faulty: the first boundary conditions are computed for a full stable step.
FirstCycleStable == stable

\* Until dt_cycle is known, boundary conditions use this one.
Shift == inter - time
FirstCycle == IF interp THEN stable ELSE next

\* Up to the loop.  The water content is copied, and then evaluated.
Enter ==
  /\ pc = "slave"
  /\ next' = Clipped
  /\ wcPrev' = wc
  /\ wc' = time + dt
  /\ tcc' = held
  /\ physics' = inter
  /\ shift' = Shift
  /\ stable' \in Stable
  /\ interp' = (stable' < dt)
  /\ sum' = 0
  /\ swap' = TRUE
  /\ cycle' = FirstCycle'
  /\ buffer' = IF interp'
               THEN [buffer EXCEPT !["start"] = Interpolated(wc, time + dt, Shift, dt)]
               ELSE buffer
  /\ start' = wc /\ end' = time + dt
  /\ pc' = "cycle"
  /\ UNCHANGED <<kind, time, dt, done, inter, held, boundary>>

\* Faulty: a remainder shorter than a stable step is left for a step of its own.
CycleLengthGreedy(try) == Smaller(stable, try)

\* The last two substeps share what is left of the step.
CycleLength(try) ==
  IF try >= 2 * stable THEN stable
  ELSE IF try > stable THEN try \div 2 ELSE try

\* Faulty: the buffers are not exchanged.
RotatedNot == swap' = swap /\ tcc' = end'

\* What ended this substep is what begins the next: contents and concentrations.
Rotated == swap' = (IF interp THEN ~swap ELSE swap) /\ tcc' = end'

\* One pass of the loop.
Subcycle ==
  /\ pc = "cycle"
  /\ sum < next
  /\ boundary' = 2 * physics + cycle
  /\ cycle' = CycleLength(next - sum)
  /\ physics' = physics + cycle'
  /\ sum' = sum + cycle'
  /\ IF interp
     THEN \E from \in Buffers : \E into \in Buffers \ {from} :
            /\ from = "start" <=> swap
            /\ buffer' = [buffer EXCEPT ![into] = Interpolated(wcPrev, wc, sum' + shift, dt)]
            /\ start' = buffer[from]
            /\ end' = buffer'[into]
     ELSE UNCHANGED <<buffer, start, end>>
  /\ Rotated
  /\ UNCHANGED <<pc, coupler, contents, stable, interp, shift>>

-----------------------------------------------------------------------------
(* After AdvanceStep of transport                                          *)

\* The coupler's next step, and whether there is one.
Continue(left) ==
  pc' = IF next' < MinSub THEN "thrown" ELSE IF left = 0 THEN "accepted" ELSE "slave"

\* The slave has succeeded: State has its concentrations, and the coupler moves
\* the intermediate time and asks for the next step.
Succeeds ==
  /\ held' = tcc
  /\ done' = done + next
  /\ inter' = time + done'
  /\ next' \in (IF kind = "transport" THEN {dt + MinSub} ELSE SlaveSteps)
  /\ Continue(dt - done')
  /\ UNCHANGED <<kind, time, dt, wc, wcPrev, loop>>

\* Transport alone does not fail.
Leave == pc = "cycle" /\ sum = next /\ kind # "reactive" /\ Succeeds

\* ReactiveTransport_PK hands the concentrations to chemistry ...
React ==
  /\ pc = "cycle" /\ sum = next /\ kind = "reactive"
  /\ pc' = "chemistry"
  /\ UNCHANGED <<coupler, contents, loop>>

\* ... which returns them ...
ChemistrySucceeds == pc = "chemistry" /\ Succeeds

\* Faulty: the step that failed is repeated as it is.
RetriedWhole == next' = next

\* "if fail, cut the step and try again"
Retried == next' = next \div 2

\* ... or throws.  State keeps the old concentrations, and both water contents.
ChemistryFails ==
  /\ pc = "chemistry"
  /\ Retried
  /\ Continue(dt - done)
  /\ UNCHANGED <<kind, time, dt, done, inter, contents, loop>>

Next ==
  \/ FlowAdvances
  \/ FlowFails
  \/ Accept
  \/ Enter
  \/ Subcycle
  \/ Leave
  \/ React
  \/ ChemistrySucceeds
  \/ ChemistryFails

Spec == Init /\ [][Next]_vars

\* One process, which runs on.
FairSpec == Spec /\ WF_vars(Next)

-----------------------------------------------------------------------------
(* Properties                                                              *)

\* Transport under flow keeps mass through its own substeps and over the steps
\* of flow: each substep multiplies the concentrations by the water content they
\* were last divided by, and divides them by the one of the end of the substep.
\* Without "transport subcycling" the coupler cuts the step of flow.  Then only
\* the first part starts from the right content, whatever the parts of the step
\* of flow before it were: the next part overwrites prev_water_content.
MassFollowsFlow ==
  [][sum' > sum =>
       /\ kind = "transport" => start' = tcc /\ end' = physics'
       /\ kind = "unsubcycled" /\ done = 0 => start' = tcc]_vars

\* Whatever part of a step of flow the slave's step is, and however often it was
\* repeated, no water content lies outside the step: none is extrapolated.
NoExtrapolation ==
  [][sum' > sum => /\ time <= start' /\ start' <= end' /\ end' <= time + dt]_vars

\* The substeps fill the slave's step, none is longer than the stable step, and
\* none is a sliver: at least half a stable step, unless it is all there is.
StableSubsteps ==
  [][sum' > sum =>
       /\ cycle' <= stable /\ sum' <= next
       /\ 2 * cycle' >= stable \/ cycle' = next]_vars

\* Boundary conditions are computed with the length of the substep before, and
\* still at a time within the substep they are used for, if the slave takes the
\* step of flow as a whole.
BoundariesInside ==
  [][kind = "transport" /\ sum' > sum =>
       2 * physics <= boundary' /\ boundary' <= 2 * physics']_vars

\* Whatever flow and chemistry refuse, the run ends.
Terminates == <>(pc \in {"thrown", "done"})
=============================================================================
