# A TLA+ development of Amanzi

Amanzi (src/) simulates flow, reactive transport, energy and more in the
subsurface.  It is a C++ program of process kernels (PKs) that advance
discretized equations, under a driver that chooses timesteps, makes output and
survives restarts, over a State whose fields are evaluated lazily along a
dependency graph.  The numerics are out of reach of a model checker.  What
holds the simulator together - which field is evaluated when, which step is
taken, what is written and what a restart finds - is a set of small state
machines, and these are what this project models, checks with TLC and, where
it can, proves with TLAPS.

## 1. Inventory

### The components and their state

| component (source) | state | operations | talks to |
|---|---|---|---|
| Evaluator DAG (`state/evaluators`) | per evaluator: `requests_`, `deriv_requests_`, `updated_once_` / `computed_once_`, `time_`; the data | `Update`, `UpdateDerivative`, `SetChanged` | each evaluator calls its dependencies; PKs, couplers, archive and output call the roots |
| State (`state/State.cc`) | records by key and tag, evaluators, time, cycle, position | `Require`, `Setup`, `Get/GetW`, `Assign` | everybody |
| Timestep manager and events (`utils/TimeStepManager`, `Event.hh`, `IOEvent`) | registered events, `manual_dts_i_` | `TimeStep`, `RegisterTimeEvent`, `getNext`, `contains`, `DumpRequested` | cycle driver, every output object |
| Cycle driver (`mpc/CycleDriver`) | `time_period_id_`, `max_dt_`, `reset_info_`, `reset_max_`, `start_cycle_num`, dt | `Go`, `Advance`, `get_dt`, `ResetDriver`, `Visualize`, `Observations`, `WriteCheckpoint` | the top PK, timestep manager, output |
| Observations (`mpc/FlexibleObservations`) | `observation_data_` | `MakeObservations`, `MakeContinuousObservations`, `Flush` | cycle driver, checkpoint |
| Checkpoint and restart (`state/Checkpoint`, `state/IO`) | files on disk | `Write`, `CreateFile`, `CreateFinalFile`, `ReadCheckpoint*` | cycle driver, HDF5 |
| Couplers (`pks/mpc_pk`) | `master_dt_`, `slave_dt_`, sub-PKs | `AdvanceStep`, `CommitStep`, `get_dt` | driver above, PKs below |
| State archive (`pks/StateArchive`) | copies of fields | `Add`, `Restore`, `CopyFieldsToPrevFields` | PKs around a step that may fail |
| Implicit time integration (`time_integration`) | solution history, preconditioner lag, failure counts | `AdvanceStep`, `CommitSolution`, `getTimestep` | PKs, nonlinear solvers |
| Nonlinear solvers (`solvers`) | stored vectors of NKA and AA, iteration counts | `Solve`, `Correction`, `Relax`, `Restart` | time integration |
| Flow, transport, chemistry, energy, multiphase, mechanics, shallow water (`pks/*`) | fields | `AdvanceStep`, `CommitStep` | State, couplers |
| Operators, WhetStone, meshes, functions, output library, input converters | matrices, geometry, files | arithmetic and I/O | PKs |

`PROJECT.json` lists each with its status.

### What is hard here

* **Staleness in the evaluator DAG.**  Nobody pushes a change upward.  An
  evaluator only remembers whom it has served since its data last changed, so
  correctness is a protocol between requesters that know nothing of each other:
  one requester's `Update` clears the list of the others, a diamond reaches a
  field twice, derivatives with respect to several keys share one list.
* **Which step is taken.**  PK, reset times, smallest and largest step, events
  and prescribed steps each have a say, in an order, after successes, failures
  and restarts.
* **Crashes and restarts.**  Visualization, observations and checkpoint are
  written one after the other; a checkpoint replaces a file of the same cycle;
  a restart has to find the period, the reset times and the limits again from
  what the file holds.
* **Partial failure.**  Coupled PKs commit one after the other, evaluators
  throw in the middle of an update, a step is tried again from an archive.
* **Collective calls.**  Reductions inside `Update` and collective writes that
  depend on rank-local data can block.
* **Boundaries of schedules.**  Start, period and stop of events, periods of
  zero length, lists that are empty or used up.

### What makes each component correct

* DAG: what `Update` returns is current, together with everything below it;
  "not changed" is said only of data the requester has used; who has used the
  present data is not told to do it again; a field is evaluated once per
  request; every request returns.
* Events and timestep manager: the next event is the first time that output
  accepts; no event is stepped over; no slivers; the clock arrives.
* Driver, observations, checkpoint: every observation is made whatever crashes
  and restarts it takes, and every dump that is due since the last process
  began; observations stay in order without repetition, a restart finds its
  period, limits and reset times are in force as documented, the run ends.
* Couplers and archive: a refused step leaves every PK with the fields of the
  time it started from, chemistry's own fields excepted, which nothing restores;
  an accepted one has integrated each interval once, in substeps without gaps; a
  retry is shorter and the retries end.
* Time integration: the history behind the predictor is that of the accepted
  steps; a step cut by an event does not spoil the recommendation; a retry is
  shorter, whichever controller says so, if its factor is less than 1.
* Nonlinear accelerator: no slot of its lists is lost or shared, its matrix is
  read only where it belongs to the vectors in the list, each stored step
  belongs to its difference of residuals.
* Explicit transport: substeps are stable, water contents are not extrapolated;
  where the coupler does not cut transport's step, water contents follow those of
  flow and boundary conditions are taken inside their substep.

`hazards` in `PROJECT.json` gives the lines, and the properties that would
catch each one.

## 2. The modules

| module | models | role |
|---|---|---|
| `EvaluatorDag` | the evaluators of State | state machine, properties, inductive invariant |
| `EvaluatorRecovery` | evaluations that throw; EXTENDS `EvaluatorDag` | fault model, properties |
| `MCEvaluatorDag`, `MCEvaluatorRecovery` | two graphs | instances for TLC |
| `TimeStepManager` | events and step limiter | operators |
| `EventClock` | a clock under the timestep manager | properties of the operators |
| `MCTimeStepManager` | all pairs of events | instance for TLC |
| `CycleDriver` | driver, observations, checkpoint files, crash, restart; EXTENDS `TimeStepManager` | state machine, properties |
| `MCCycleDriver` | schedules | instances for TLC |
| `Coupling` | nine couplers of two PKs under the driver's "advance, then commit or retry" | state machine, properties, inductive invariant |
| `MCCoupling` | sets of couplers | instances for TLC |
| `ImplicitStep` | implicit step of one PK: BDF1, history, controllers | state machine, properties, inductive invariant |
| `NKASpace` | what an accelerator promises | abstract specification |
| `NKA` | the accelerator as linked lists | data structure and its operations |
| `SolverNKA` | the nonlinear solver; EXTENDS `NKA` | state machine, properties, refinement of `NKASpace` |
| `TransportStep` | explicit transport inside steps of flow, subcycling by itself or not, or with chemistry | state machine, properties |
| `EventLemmas` | | lemmas about events and the step limiter |
| `EvaluatorDag_proof`, `EventClock_proof`, `CycleDriver_proof`, `Coupling_proof`, `ImplicitStep_proof`, `NKA_proof`, `TransportStep_proof` | | theorems |

The modules meet where the code does: `CycleDriver` uses `TimeStepManager`
whole; `Coupling` and `TransportStep` each have their own small driver loop,
since the schedule does not matter there; `ImplicitStep` takes any smaller step
than the one asked for, which is all that driver and couplers do to a PK;
`SolverNKA` is the nonlinear solver that `ImplicitStep` treats as an oracle.

Operators whose comment begins with *Faulty:* are not part of the model.  Each
is a definition with a plausible bug in it; put in the place of the definition
it varies, it makes a property fail.  They show that the property depends on
the code.

### EvaluatorDag and EvaluatorRecovery

A *node* is the value of a key or the derivative of a key with respect to
another one.  `requests[n]` is `requests_` of a value and `deriv_requests_` of
a derivative; `computed` holds the keys with `updated_once_` or
`computed_once_`; `stamp` is `time_` of an independent evaluator.  C++
recursion is written out: `Request` is the outermost call of a PK, `Call` the
next iteration of the loop over the dependencies, and one action per branch of
`Update` and `UpdateDerivative` is the rest of the function and its return
(`UpdatePrimary`, `UpdateIndependent`, `KeepIndependent`, `UpdateSecondary`,
`KeepSecondary`, `UpdateDerivative`, `KeepDerivative`).  `SetChanged` and
`SetTime` are the environment; like the code, they happen between requests,
since `Update` runs to its end.

Data are abstracted to what was used: `used[n]` is the set of nodes whose
present data the data of n (or the client n) incorporate.  A change of n
removes n from every `used`; an evaluation of n makes `used[n]` everything it
reads.  It is a history variable, so freshness is stated without any of the
bookkeeping that the properties are about.

`EvaluatorRecovery` adds `Throw`: `Update_` or `UpdateDerivative_` of the frame
on top throws `CutTimestep`, and the whole stack unwinds.  What the frames have
already done to `requests_` and `updated_once_` stays, as it does in the code.
`Restore` is the PK's answer, a primary field written back and marked as
changed.  `broken` (history) holds the nodes whose evaluation was thrown away
and has not been made up for: by an evaluation that succeeds, or by a `Restore`
of a primary field in their `Cone`.  That they need a primary field *below each of
them* to be marked is the contract found here: a field that depends only on
what the failed step did not touch keeps its old data and says "not changed".

Abstractions: one key per evaluator; the reduction over ranks for nonlocal
dependencies is left out; data change only with `SetChanged`, the contract of
`EvaluatorPrimary`.

### TimeStepManager and EventClock

Time is a number of ticks.  `NextOf` and `ContainsTime` are `getNext` and
`contains` of the two kinds of events; `Limit` is `TimeStep` behind the manual
override.  The relative tolerance of `isNearEqual` becomes equality, and half
of an odd number of ticks is rounded down; the code's "at most three quarters
of the way, or half, or all of it" is kept.  A negative stop is no stop.
`IsEvent` leaves out what `contains` and `getNext` disagree about, a stop of 0
(no end to the one, no event to the other), `Possible` an event that stops
before it starts.  `EventClock` proposes any step at any time.

### CycleDriver

`pc` is the place in `Go` and `Advance`: the `loop`, then `vis`, `obs`,
`check`, `write` in the order of the code, so that a crash may come between
any two of them, and between the creation of a checkpoint file and its end.
Everything in `memory` is lost in a crash; `disk` maps the cycle in a file's
name to the file.  `GetDt` is `get_dt` whole: PK, reset time, smallest step,
timestep manager, largest step.  `Restart` is the restart branch of `Go`,
including `ResetDriver` when the file is from the end of a period; `EraseResets`
is its loop over past reset times, which skips the entry behind an erased one.
PKs choose steps from `PKSteps` as they like, after a failure too, where the
driver takes the same step again or a longer one if the PK asks for it; they
fail as they like, up to `MaxFailures`.

Abstractions: one visualization object, one observable, the root rank.
Walkabout files, statistics, continuous observations and the variant of `Go`
for external drivers are left out.  The test of dt against 1e-14 of the time is
part of `MinDt`.  `FieldsDiffer` is the comparison of the two periods' fields
at the end of `ResetDriver`.  `vis` is what the visualization files hold.  A
crash leaves it alone, but the next process creates the files anew before it
looks for a checkpoint (`CycleDriver.cc:201`, `OutputXDMF.cc:165-166`, the
`FILE_CREATE` of `HDF5_MPI.cc:89` and 702), so `Start` and `Restart` begin with no dumps
but their own.  `since` (history) is the time at which they do.  `forceVis` and
`forceCheck` are separate, since a reset time that is still on the list forces a
checkpoint alone.  `tp` in a file is history.

### Coupling

What a PK computes is abstracted to times: `content` is the time its fields
belong to, `prev` that of its previous fields, `bdf` the time of its BDF
history.  An implicit PK solves from its previous fields, `ReactiveTransport_PK`
and `ShallowWater_PK` change theirs in place (`InPlace`).  Chemistry also has
fields of its own (minerals, sorbed and exchanged amounts) that it writes cell by
cell: `minerals` is the time of those in the first cell.  If a later cell fails, they
stay as they are (`ReactsInVain`), and `repeated` (history) adds up how long that
cell has reacted in attempts that failed.  An accepted step
calls `CommitStep`, a refused one leaves what its coupler restores.  One action
per call: `SolveTogether` (strong), `FirstSolved`, `FirstFails`, `SecondSolved`,
`SecondFails` (weak, sequential), `Iterate` (convergence test of the sequential
couplers), `FirstCommitted` (couplers that commit the first PK at once),
`MasterSolved`, `SlaveSolved`, `SlaveFails` (subcycling, the plain one and the
throwing one of flow and reactive transport), `ShallowSolved` and its retries;
`AcceptStep`, `RefuseStep` are the driver.

### ImplicitStep

`Advance` is `Richards_PK::AdvanceStep` over `BDF1_TI::AdvanceStep`: the flush
of the history on the first step, the predictor's history, the nonlinear solver
(an oracle: few, some, many iterations, or failure), `ValidStep`, the
controller's verdict, the commit of the history or the restoration of the
field.  The fixed, standard, smarter and adaptive controllers run under the
recoverable wrapper (`internal` is `dt_internal_`).  `Reduction` divides a step that
failed; it may be 1, since the code accepts any factor up to 1.  The driver takes
any step up to the one asked for.  `Restart` starts again from the last accepted step with a
new integrator.

### NKASpace, NKA, SolverNKA

`NKA` keeps the two index-linked lists (`first`, `last`, `free`, `next`,
`prev`), the pending pair and the origin of the vectors in each slot; `h` says
of each entry of `h_` whether it is an inner product or a Cholesky factor, and
of which order of vectors.  `list` and `spare` are the sequences the links
should represent; they are history, and `Linked` says that the links represent
them.  `Correction` is split at its loops.  `SolverNKA` is the loop of `NKA_`:
lagged first corrections, `ModifyCorrection`, recovery from an overflow, a
restart of the accelerator after divergence.  Norms are not computed; each
comparison may come out either way within what the code excludes.

`NKASpace` is the promise in the file comment: pairs, newest first, at most
`MVec` when a new candidate is taken, the newest never forgotten.
`ImplementsMemory` is the refinement: the lists, with the pair that waits for
its residual as the candidate.

### TransportStep

Flow changes the water content linearly within a step, so a content is
represented by the time it belongs to; concentrations by the content they were
last divided by.  Mass is kept when the next substep multiplies by the same.
There are three slaves: transport that subcycles by itself (`transport`), whose
`get_dt` answers 1e+99; transport with `transport subcycling` off (`unsubcycled`), whose
`get_dt` answers a stable step, so that the coupler cuts its step; and transport with
chemistry (`reactive`).  `SlaveSteps` are the answers of the last two.
`Enter`, `Subcycle`, `Leave` are the parts of `TransportExplicit_PK::AdvanceStep`,
`FlowAdvances`, `FlowFails`, `ChemistrySucceeds`, `ChemistryFails`, `React`,
`Accept` the couplers around it.  The swap of the two buffers and their
interpolation are modelled as they are.

## 3. The runs

| run | question | result |
|---|---|---|
| `dag_derivatives` | chain of two fields with derivatives, clock and SetChanged: is what is returned current, is anything evaluated twice, does every call return? | holds |
| `dag_recovery` | any evaluation may throw: do PKs get current data again, and miss no change, once what failed has been marked? | holds |
| `step_limits` | all pairs of events, all sequences of steps: is the next event the first, is a sliver left, does the clock arrive? | holds |
| `driver_restart` | two periods, a reset time, a failure, two crashes anywhere: are all observations made, in order, once, and all dumps since the process began, and is the period found again? | holds |
| `driver_schedule` | a period cut by its number of cycles, then reset times with step limits, no crash: are they in force, and used once? | holds |
| `reset_reinit` | are the PKs reinitialized at a reset time? | fails: the entry is used up before it is looked for |
| `coupling` | eight couplers, every failure, iteration and substep: clean start, each interval once (chemistry's own fields: once and what was reacted in vain), retries shorter, end of the run | holds |
| `coupling_clock` | does an implicit PK advance from the old time? | fails in iterated couplings: its history advances in each iteration |
| `coupling_commit` | does every attempt start from the present fields? | fails: the subcycling coupler commits its master before the slave has succeeded |
| `implicit_step` | four controllers with a factor of 2, every course of the solver, cut steps, a restart | holds |
| `nka` | every course of solver and norms: lists, matrix, pairs, refinement, end of each Solve | holds |
| `transport` | substeps, water contents, boundary times: with transport's own subcycling, without it, and with chemistry | holds |

The runs that fail are findings; `PROJECT.json` quotes the line of the
documentation each one contradicts.  Properties that name a kind of coupler or
PK (`OthersStartClean`, `UnrepeatedSolvesKeepTime`, `RetryIsShorter`,
`MassFollowsFlow`, `BoundariesInside`) do so because the others break them, and
`RetryShrinks` and `Terminates` of `ImplicitStep` ask for a factor that reduces
because a factor of 1 breaks them: see section 5.

### Bounds, and why they are enough

* DAG.  The properties relate a node, its dependencies and a requester.  The
  chain has a field reached directly and through another one, a leaf changed
  by hand and one changed by the clock, and both orders of a value and its
  derivative.  Two clock values suffice since only equality with the time of
  the data matters.  The recovery graph has two primary fields so that the one
  restored need not be below the evaluation that failed.  `dag_derivatives`
  differentiates with respect to one key, since a second one takes it out of
  reach; the theorems remove the bounds, that on keys included, for runs with
  exceptions as well.
* Timestep manager.  Horizon 9 with periods up to 4, starts up to 2, stops on
  and off the grid and at the start, and steps up to 7 give every order of
  step, event, three quarters and half.  `Sight` is how far ahead an event is
  looked for where `getNext` says there is none.  Proved without bounds.
* Driver.  Two periods are needed for a restart at the end of one; two crashes,
  to crash again after a restart; a failure, to retry at a smaller step or at the
  same one.  `MaxFailures` is not only there for the size of the state space: a PK
  may ask for the refused step for ever, so `Terminates` is about runs with
  finitely many failures.
  Reset times come two at a time, since the restart's loop looks at
  neighbours.  `MaxCycle` is above the number of cycles any schedule needs:
  `Terminates` would fail if the bound cut a run short.
* Couplers.  A run of 4 ticks with steps of 1, 2 and 4 has a step that is
  refused twice, a slave with several substeps and a last one cut to fit;
  three iterations are a first, a middle and a last.  `MaxTime` bounds the
  histories that run away in iterated couplings (`coupling_clock`).
* Implicit step.  Sizes from below the smallest to above the largest step, a
  growth wait and a count of 1 (both sides of each test), one restart.
* NKA.  `MVec` 2 gives a list with a first, middle and last; 6 iterations fill
  it, drop from it for lack of room and for dependence, and refill it.
* Transport.  Stable steps from 1 to 9 in steps of flow of 3 to 8: one substep,
  several, the last two halved, and a stable step longer than the step.  The
  slave's steps from 1 to 8 cut the step of flow in many parts, in two, or not.

`CHECK_DEADLOCK FALSE` is set where a run ends: step_limits, driver, couplers,
implicit step, transport.

### Fairness

* `EvaluatorDag`: weak fairness of `Step` alone: a call under way is a running
  C++ function.  Requests, `SetChanged` and the clock have none.
* `CycleDriver`: weak fairness of `Run`: a live process makes its next step,
  and a user restarts one that died.  Crashes and failures are never fair and
  are bounded.
* `Coupling`, `TransportStep`, `EventClock`: weak fairness of `Next`, the loop
  of one process.  Which way a solve goes is not subject to it.
* `ImplicitStep`: weak fairness of `Advance \/ Commit`; a restart is the user's.
* `SolverNKA`: weak fairness of `Step`; `Solve` is called from outside.

## 4. What is proved

All theorems hold for every value of the constants that satisfies the named
assumptions of the module.  The part of each argument that is not routine is
the inductive invariant.

### EvaluatorDag_proof

For every acyclic graph, every set of clients and wrt keys and every clock,
from `KeysAssumption` and `DepsAssumption` (keys of different kinds are
different; a topological numbering exists) and nothing else.

Without exceptions: `Invariance`, `TypeCorrect`, `DataAreCurrent`,
`FalseIsUnchanged`, `EvaluatedOnce`, `StaysServed`.  The safety properties
speak of the moment of return and are far from inductive.  `IInv` is
`Calling /\ ServedHasUsed /\ DoneIsFresh`:

1. `Calling` is about the recursion and the lists alone.  `Stack`: the frames
   are one chain of calls whose ranks decrease, so a node is never on it twice,
   and nothing below the top is disturbed by a return.  `Progress` and
   `DoneIsServed`: each call of a frame is to come, under way or done, and what
   is done has been computed and has asked for all it depends on, so the nodes
   served in a request are closed under calls.  `OneWrt`: a request
   differentiates with respect to one key, so clearing the common
   `deriv_requests_` concerns no other derivative under way.  `DerivUsesValue`:
   a derivative that has used its field's value has used all the value has; its
   data depend on the dependencies' values, which it asks for only through its
   own field.
2. `ServedHasUsed`: a requester on the list of n has used the present data of n,
   or is on the stack and knows that it must evaluate.  This is what makes
   `requests_` mean "unchanged"; the exception matters in the middle of
   `Update`, when a secondary evaluator is on its dependency's list but has not
   evaluated yet.
3. `DoneIsFresh`: what has been served in this request is fresh.  With the
   closure of item 1 the whole cone of what is returned is fresh.

`ServedStaysServed` is not part of `IInv`; it is inductive relative to it: when
a value is evaluated everybody but the caller forgets it, and `Progress` says
that the evaluator is on the list of every field it has just read.  `Served`
states what all returns have in common; each branch of `Update` is shown to be
an instance of it, and each part of the invariant is shown once for `Served`.

With exceptions: `RecoveryInvariance`, `RecoveredAreCurrent`,
`RecoveredFalseIsUnchanged`, `FailuresKeepServed`, `RecoveredOnce`.  A throw
leaves frames on lists of data they never used, so `ServedHasUsed` and
`DoneIsFresh` are lost, and only `Calling` survives.  `RIInv` puts
`ServedOrSuspect` in their place.  A node is `Doubtful` if its evaluation was
thrown away (`broken`), if some dependency does not count it as served, or if it
is on the stack and knows that it must evaluate; it is `Suspect` if something
in its cone is doubtful.  Whoever is on the list of n has used the data of n, or
n (for a client) or the requester itself is suspect.  Three facts keep this: an
evaluation settles only its own node's doubt, and by emptying the list it puts
everyone who depends on the node in doubt; a throw puts every frame in doubt;
a field restored and marked puts everyone who depends on it in doubt, so what
its cone made `broken` stays suspect when `broken` is cleared.  When a request
returns, nothing in the cone is on the stack, all of it has been served, and if
none of it is `broken`, none is suspect (`NothingIsSuspect`): the theorems
follow as in the case without exceptions.

Towards `EveryCallReturns`: `RequestsDescend` (every step of a request takes
something from the `Left` of one frame for good and adds frames of lower rank
only) and `RequestsGoOn` (the top frame has a next call or can return).

### EventLemmas, EventClock_proof

Lemmas about quotients and remainders: no multiple of the period lies between
the last one and the next (`NoneBetween`), hence `ListNext` and `IntervalNext`,
hence `NextOfEvent`: `getNext` is the least later time `contains` accepts, or
there is none.  `LimitStopsAtEvents` and `LimitLeavesAQuarter` follow for the
limiter.  `NextIsTheFirst` and `NoSliverIsLeft` state them of a clock;
`TheClockMoves` says that no limited step is empty.

### CycleDriver_proof

For every schedule of non-empty periods in order (`PeriodsAssumption`), sorted
reset times (`ResetsAssumption`), any events, steps, prescriptions, and any
number of failures, crashes and restarts: `TypeCorrect`, `TimeStaysInPeriod`,
`RestartIsInPeriod`, `ObservationsInOrder`, `EventsAreHit`, `DumpsAreMade`,
`ObservationsAreMade`.  The argument for the first five, with `IInv`:

1. `Fits`: the step about to be taken passes over no event.  It comes from
   `LimitStopsAtEvents` whatever `get_dt` did before and after the limiter,
   because the last operation only shortens the step.
2. The end of a period is an event, so the step ends in the period
   (`InItsPeriod`) and `position` is "end" exactly at its end.
3. Because periods are in order, the number of ends not after a time in period
   i is i - 1, or i at the end itself: `PeriodIsFound`.  So a restart finds the
   period that `Files` says the file was written in.
4. Time never goes back within a run, except by a restart, which takes the
   observations of the same file: `Ordered(obs, time)`.

The crash needs care in `EventsAreHit`: it sets the time to 0, and no time lies
between.  `Left` (what is left of reset times and limits) is needed for types:
`RemoveAt` and `EraseResets` must not run past the shorter list.

`DumpsAreMade` and `ObservationsAreMade` speak of the end of a run.  The
observations come from every process since the first, the dumps only from the
last one, whose files begin at `since`.  `OInv` says how far the output is: all that
is due before the present time is in `observations_data_`, and since `since` in the
visualization files, and what is due at this very time is there once the place
in the loop is past it (`MadeSoFar`); each checkpoint file has the observations due
up to its time (`FilesAreBehind`), which is what a restart goes back to.  That
nothing is due strictly between two times of the run is `Fits` again.

`ResetsUsedOnce` and `LimitIsKept` need hypotheses, stated in the theorems:

* `crashes = 0`.  After a restart both are false in the code: `EraseResets`
  keeps every second reset time that is past, and `max_dt_` is set to that of
  the period and not to that of the last reset time (section 5).
* `ResetsAreReached`: reset times are different, and each is the start of a
  period, or inside one that no number of cycles cuts short.  A reset time that
  is jumped over stays on the list and is never used.
* For the limits also `LimitsGoOn`: `reset_max_` is sorted with the same times
  as `reset_info_`, and no period that starts after a reset time allows more
  than its limit, since the next period overwrites `max_dt_` by its own.

`RInv` says that the lists are the ends of `Resets` and `ResetMaxs` from the same
place on, that this place divides the past from what is to come, and that
`maxdt` is at most the last limit used.

Towards `Terminates`: `NoStepIsEmpty` (if the input asks for no step and no limit
of zero, `StepsAreAsked`, the step about to be taken is positive, that of a
checkpoint file included) and `EveryStepUsesUp`: every step is a crash, begins or
ends the process, goes on to the next period, moves the time, is a failed step,
or makes a part of the output, in this order.  The numbers of crashes and of
failed steps have to be bounded for a run to be finite, since the driver takes
any step that is asked for after a failure; `MaxCycle` is not needed.

### Coupling_proof

For any steps, limits, numbers of iterations and failures: `TypeCorrect`,
`StartClean`, `IntegratedOnce`, `Tiled`, `ClocksKept`, `RetriesShrink`.  `IInv`
adds `StepShape` (initial, intermediate and final time), `CanGoBack` (what the
archive of the coupler holds is of the initial time, so every failure can be
undone), `Finished` (fields at success), `Reacted` (chemistry's own fields are ahead
of the concentrations by exactly what was reacted in vain), `Clocks` and
`AsksLess` (after a refusal some PK asks for less than was tried).  `StartClean`,
`IntegratedOnce` and `Tiled` say of chemistry's own fields what `Reacted` does: that
they are where they should be, plus `repeated`.  `EveryStepUsesUp`, for the
couplers of which `RetriesShrink` speaks: a step moves the time, lowers dt after
a refusal, or gets further with the step that is tried, down to iterations and
substeps.  A subcycled slave is never asked for an empty substep (`Positive`).

### ImplicitStep_proof

For all sizes, factors and limits: `TypeCorrect`, `HistoryKept`, `Recovers`,
`Shrinks`.  `WantedSizes` settles what a controller may say of one attempt;
`AsksAsTold`, `AsksLess` and `AsksNoLess` carry it to the next one, through the
recoverable wrapper and the commit.  `Reduction` is any positive number.  `Shrinks`
speaks of factors that reduce (`Reduction > 1`), and `EveryStepUsesUp` of every step
that is `Useful`: it moves the time, or the attempt after it is smaller, unless it
fails for a factor of 1; `ReadyMayAdvance`: while the run is ready an attempt is
possible.

### NKA_proof

For any number of slots and iterations: `ListsStayLinked`, `AssertionsNeverFail`,
`ListsImplementMemory`, `PairsBelongTogether`, `ReadsAreOfTheList`,
`TypeCorrect`, `CallsAreMatched`, `EveryStepUsesUp`.

* `Inv`: `Typed`, `Distinct` (no slot twice), `Chains` (`Linked` itself),
  `Room` (how long the list may be at each point of a call) and `Turn` (where
  the factorisation is in the list).  One lemma for each change of the lists:
  insert in front, drop the first, drop in the middle, drop all.
* The refinement.  `Origins` are the types of what the slots hold and of the
  solver's part.  Then each step of the solver is a step of `NKASpace` or a
  stutter (`MemoryStep`): the map reads only slots of the list, these are
  different, so writing to one of them changes one pair, and writing to a slot
  outside the list changes nothing.
* `Pairing`: a waiting pair holds the residual of the present iterate, or of the
  one before when the next correction is about to begin, and `du` is then the
  correction that was applied in between.
* `Factors`: above the diagonal, for two vectors of the list that do not wait,
  is their product; on and below it, as far as the factorisation has come, the
  factor of the list as it is now.  A drop keeps it because the rows before the
  dropped vector do not depend on it; a saved pair because it takes a slot
  outside the list, so none of the entries that become stale is one of theirs.
* `Matched` ties the place in `Solve` to the place in `Correction`.  With it,
  within a `Solve` every step begins an iteration, goes on in it, or factors or
  drops one vector of the list (`EveryStepUsesUp`).

### TransportStep_proof

For any steps of flow and of the slaves and any stable steps: `MassIsKept`,
`NothingExtrapolated`, `SubstepsAreStable`, `BoundariesAreInside`, `TypeCorrect`,
`EveryStepUsesUp` (time, the step of flow, the slave's step, the substep).  The parts of
`IInv` follow the calls: `Within`, `BeforeFlow`, `InStep` (coupler), `WholeStep`
(transport that subcycles by itself is never cut), `InLoop` (times), `Contents`
(which buffer holds the content of which time, whatever the number of swaps),
`Concentrations` (which content they were last divided by, in every part of a step
that is cut), `Lengths` (what is left is at least the last substep, so no sliver
remains), `AfterStep`.

## 5. What is only checked, known divergences, what is not modelled

**Only model-checked.**  Every safety and action property of a passing run is
also a theorem.  What is left to TLC is liveness: `EveryCallReturns`, `Arrives`
and the `Terminates` of five modules, since fairness is ENABLED and out of the
prover's reach.  What liveness rests on is proved for each of these modules: a
bounded quantity that every step uses up, in lexicographic order
(`EveryStepUsesUp`, `RequestsDescend`, `TheClockMoves`), and for some of them
that there is a step to take (`ReadyMayAdvance`, `RequestsGoOn`).  That such an
order has no infinite descent, and that a step that can be taken is taken, is
not part of the proofs.

**Known divergences without a run.**  The models do what the code does, so
these do not show as failures:

* A start-period-stop event whose stop is on its grid is dumped at the stop
  time; the documentation speaks of times before it.
* A restart counts the cycles of a period from zero, so a period may have more
  than its number of cycles (`CycleDriver.cc:876`).
* The first prescribed timestep is used up twice at the start, and prescribed
  steps are limited by events (`TimeStepManager.cc:107`).
* The limit of a reset time ends with its period: `ResetDriver` sets the largest
  step of the next period, whatever was in force (`CycleDriver.cc:1095`).
* A restart drops the limit of the last reset time (`CycleDriver.cc:837`) and may
  keep every second reset time that is past (821).
* A restart creates the visualization files anew: the dumps made before the
  checkpoint are lost, and not made again (`HDF5_MPI.cc:89`, 702).
* After a failure the driver takes the step the PK asks for
  (`CycleDriver.cc:653`), and the subcycled coupling asks for its master's,
  whatever the slave has refused (`PK_MPCSubcycled.cc:50`): a run may repeat a
  step for ever.
* A factor of 1 is accepted for reducing a step
  (`TimestepControllerStandard.cc:34`).  A step that failed is then repeated as it
  is; one that had been cut by the driver may be followed by the longer step
  recommended before it (`TimestepControllerRecoverable.cc:63-72`).
* A failed chemistry has written minerals, sorbed and exchanged amounts of the
  cells before the one that failed (`Amanzi_PK.cc:614-646`,
  `Alquimia_PK.cc:914-959`).  Nothing restores them
  (`ReactiveTransport_PK.cc:116-127`), so in these cells the next attempt reacts over
  the same interval again.
* The smarter controller starts its wait after a failure again when the driver
  has cut a step (`TimestepControllerSmarter.cc:113-115`).
* A correction modified by the PK is replaced in the recovery from an overflow
  (`SolverNKA.hh:373-407`).
* Transport in several slave steps, with chemistry or with `transport subcycling`
  off (`Transport_PK.cc:810-813`), or after a failed chemistry, sets the previous
  water content to the present one and copies it again
  (`TransportExplicit_PK.cc:196`): contents jump within the step of flow and mass
  is not kept, contrary to "v1 is at time dt" (`Transport_PK.cc:1117-1119`).  This
  is why `MassFollowsFlow` is stated of transport that subcycles by itself, and of
  the first slave step without; `NoExtrapolation` still holds of all three.
* `BoundariesInside` is also of transport that subcycles by itself: in a short slave
  step the time of the boundary conditions, computed with the substep before,
  may lie outside.
* In a plain subcycled coupling, and where flow and mechanics or a fracture
  commit first, a refused step is repeated from new fields (`Spoiling`).  The plain
  subcycled coupling is therefore only in the run `coupling_commit`.

**Hazards not in the list.**  Besides those in `PROJECT.json`, reading the code
showed these; the models do the same, meet them with a property that hazards of
`PROJECT.json` already name, or do not reach them:

* `EvaluatorSecondary.cc:216`: The requests of a field are cleared by one
  requester's update: each of the others must be told once, whatever order they
  come in.
* `EvaluatorPrimary.cc:141`: A PK that writes a primary field without
  SetChanged leaves everything that depends on it stale.
* `TimeStepManager.cc:116`: Events at negative times are ignored, because -1
  means none.
* `CycleDriver.cc:840`: The timestep in the file has been limited and capped;
  the restart limits it again, and may halve a step that was capped just short
  of an event.
* `CycleDriver.cc:506`: it_max is advanced past the end of an empty reset_max_
  list when only reset times are given.
* `CycleDriver.cc:507`: Reset times are compared with the time for equality:
  one rounding error and the reset time is never used.
* `CycleDriver.cc:569`: set_dt caps the step in a variable that it then
  overwrites by the limit of the uncapped step.
* `CycleDriver.cc:797`: A period of zero length is passed over when a restart
  counts the ends before the file's time.
* `CycleDriver.cc:923`: The checkpoint written when a run fails is called the
  last good one, and is written after the failed attempt has changed the
  fields.
* `Checkpoint.cc:353`: Names of observations are collected per rank and decide
  how many collective writes are made.
* `PK_MPCSubcycled.cc:112`: min_dt_ is read as a relative step and compared
  with an absolute one.
* `FlowReactiveTransport_PK.cc:114`: The small-timestep test is made before the
  test that the subcycling is done: the run stops for a step that is not
  needed.
* `FlowMechanics_PK.cc:215`: The shift added to the previous water storage for
  the fixed-stress split is added again in every iteration and after a failure.
* `MechanicsSmallStrain_PK.cc:239`: dt_ is lowered after a failure and only
  follows the driver's steps after that.
* `TimestepControllerSmarter.cc:113`: Whether the last step had been grown is
  remembered as a recommendation, while the driver may have taken another step.
* `TimestepControllerFromFile.cc:46`: The index into the prescribed steps
  starts again after a restart.
* `NKA_Base.hh:114`: The heads of the lists are not initialized by the
  constructor: every use must come after a Restart.
* `SolverNKA.hh:425`: divergence_count is compared with the limit for equality:
  a limit of 0 or less never stops the solver.
* `SolverNKA_BT_ATS.hh:369`: The backtracking solver gives the accelerator no
  applied step: after a backtracked step the stored pair holds the full one.
* `EvaluatorSecondary.cc:204`: MaxAll inside Update: if ranks disagree about
  which fields they update, some wait for ever.
* `Checkpoint.cc:267`: The hard link to the final checkpoint is made before the
  data are written: a crash leaves a final file that is not complete.
* `FlowEnergyMatrixFracture_PK.cc:343`: CutTimestep is caught and turned into
  success: the step of an evaluation that failed is committed.
* `Richards_PK.cc:1048`: The recommendation of the step controller is
  overwritten by the step just made when it is committed in the wrong order.
* `TimestepControllerSmarter.cc:111`: An invalid step whose solver converged is
  counted as a success by the smarter controller.

**Not modelled.**  Numerics (operators, WhetStone, linear solvers, constitutive
laws, the PKs' equations): real arithmetic, no control that a model checker
could explore.  They and the structured-grid code, mesh frameworks, input
converters and vendored output code are by far the most lines of the
repository, which is why the modules cover a small share of it.  Meshes, HDF5
content and input conversion: I/O and geometry.  Communication between ranks:
the code is bulk-synchronous; the collective calls that depend on local data
are listed as hazards.  Newton, AA, JFNK and continuation solvers: loops
around arithmetic without the memory that makes NKA hard.  Couplings of more than
two PKs and the matrix-fracture couplers of energy and transport.
Continuous observations, walkabout files, external drivers.

## 6. Plan

Done: the modules of section 2.  What would come next, in order:

1. Ranks: collective calls in `Update`, in the reduction for nonlocal
   dependencies and in the checkpoint's observations.
2. An abstract specification of fields that are always up to date, with
   `EvaluatorDag` as an implementation.
3. Matrix-fracture couplers of flow, energy and transport.
