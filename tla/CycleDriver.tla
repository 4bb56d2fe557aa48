---------------------------- MODULE CycleDriver ----------------------------
(***************************************************************************)
(* The time loop of Amanzi (src/src/mpc/CycleDriver.cc): time periods,     *)
(* choice of the timestep, reset times, prescribed timesteps, output in    *)
(* the order visualization, observations, checkpoint, failure of a step,   *)
(* and restart from a checkpoint file.                                     *)
(*                                                                         *)
(* The process kernels (PKs) choose step sizes and fail as they like.  A   *)
(* crash may come between any two pieces of I/O and inside the writing of  *)
(* a checkpoint; the user then restarts from any complete file.            *)
(***************************************************************************)
EXTENDS TimeStepManager, SequencesExt

CONSTANTS
  Periods,      \* sequence of [start, end, dt, maxdt, cycles]; cycles = None: no limit
  Resets,       \* reset_info_, sorted: sequence of [time, dt]
  ResetMaxs,    \* reset_max_, sorted: empty, or as long as Resets
  Prescriptions,   \* values of "prescribed timesteps", empty for none
  VisTimes, VisCycles,       \* events of visualization_
  CheckTimes, CheckCycles,   \* events of checkpoint_
  ObsTimes, ObsCycles,       \* events of one observable
  MinDt,        \* min_dt_
  PKSteps,      \* step sizes a PK asks for
  FieldsDiffer, \* do two periods have different fields to visualize?
  MaxFailures, MaxCrashes, MaxCycle   \* bounds

\* Neither the driver nor the input converter orders or checks the periods; this
\* is what PeriodOf takes them to be.
ASSUME PeriodsAssumption ==
  /\ Periods \in Seq([start : Nat, end : Nat, dt : Nat, maxdt : Nat, cycles : Int])
  /\ Periods # <<>>
  /\ \A i \in DOMAIN Periods : Periods[i].start < Periods[i].end
  /\ \A i, j \in DOMAIN Periods : i < j => Periods[i].end <= Periods[j].start

ASSUME ResetsAssumption ==
  /\ Resets \in Seq([time : Nat, dt : Nat]) /\ ResetMaxs \in Seq([time : Nat, dt : Nat])
  /\ ResetMaxs = <<>> \/ Len(ResetMaxs) = Len(Resets)
  /\ \A i, j \in DOMAIN Resets : i < j => Resets[i].time <= Resets[j].time
  /\ \A i, j \in DOMAIN ResetMaxs : i < j => ResetMaxs[i].time <= ResetMaxs[j].time

ASSUME EventsAssumption == \A e \in VisTimes \cup CheckTimes \cup ObsTimes : IsEvent(e)

ASSUME StepsAssumption ==
  /\ PKSteps \subseteq Nat
  /\ \A p \in Prescriptions : p \in Seq(Nat)
  /\ MinDt \in Nat /\ MaxFailures \in Nat /\ MaxCrashes \in Nat /\ MaxCycle \in Nat

N == Len(Periods)

\* Setup: what is registered with the timestep manager.
TimeEvents ==
  VisTimes \cup CheckTimes \cup ObsTimes
    \cup {ListEvent({Resets[i].time}) : i \in DOMAIN Resets}
    \cup {ListEvent({Periods[i].end}) : i \in DOMAIN Periods}
    \cup {ListEvent({Periods[i].start + Periods[i].dt}) : i \in DOMAIN Periods}

Smaller(a, b) == IF a < b THEN a ELSE b

-----------------------------------------------------------------------------
VARIABLES
  pc,         \* what the driver does next
  time,       \* S_->get_time()
  cycle,      \* S_->get_cycle()
  position,   \* S_->position, of the time in its period
  tp,         \* time_period_id_ + 1
  dt,         \* the local variable of Go
  maxdt,      \* max_dt_
  startCycle, \* start_cycle_num
  resetInfo,  \* what is left of reset_info_
  resetMax,   \* what is left of reset_max_
  manual,     \* manual_dts_i_
  forceVis, forceCheck,   \* force_vis, force_check
  obs,        \* times in observations_data_
  disk,       \* complete checkpoint files, by the cycle in their name
  vis,        \* <<time, cycle>> of the dumps in the visualization files
  since,      \* history: the time at which this process began its output
  failures, crashes,   \* bounds: how many there were
  prescribed  \* manual_dts_ of the timestep manager, from the input

memory == <<time, cycle, position, tp, dt, maxdt, startCycle, resetInfo,
            resetMax, manual, forceVis, forceCheck, obs>>
vars == <<pc, memory, disk, vis, since, failures, crashes, prescribed>>

Labels == {"start", "loop", "vis", "obs", "check", "write", "down", "error", "done"}

TypeOK ==
  /\ pc \in Labels
  /\ time \in Nat /\ cycle \in Nat
  /\ position \in {"start", "inside", "end"}
  /\ tp \in 1 .. N + 1
  /\ dt \in Nat /\ maxdt \in Nat
  /\ startCycle \in Nat
  /\ prescribed \in Prescriptions /\ manual \in 0 .. Len(prescribed)
  /\ forceVis \in BOOLEAN /\ forceCheck \in BOOLEAN
  /\ Len(resetInfo) <= Len(Resets) /\ Len(resetMax) <= Len(ResetMaxs)
  /\ \A i \in DOMAIN obs : obs[i] \in Nat
  /\ \A c \in DOMAIN disk : disk[c].cycle = c
  /\ since \in Nat
  /\ failures \in 0 .. MaxFailures /\ crashes \in 0 .. MaxCrashes

-----------------------------------------------------------------------------
(* The timestep                                                            *)

\* TimeStepManager::TimeStep with the prescribed timesteps; m is manual_dts_i_.
TimeStep(now, m, proposed, failed) ==
  LET next == m < Len(prescribed)
  IN [ok |-> ~(prescribed # <<>> /\ failed),
      dt |-> Limit(TimeEvents, now, IF next THEN prescribed[m + 1] ELSE proposed),
      manual |-> IF next THEN m + 1 ELSE m]

\* Faulty: a reset time that was used stays.
ResetAtKept(now, info, maxs, max, p) ==
  LET hits == {i \in DOMAIN info : info[i].time = now}
  IN IF hits = {} THEN [dt |-> p, failed |-> FALSE, max |-> max, info |-> info, maxs |-> maxs]
     ELSE [dt |-> Smaller(p, info[Min(hits)].dt), failed |-> p >= info[Min(hits)].dt,
           max |-> IF maxs = <<>> THEN max ELSE maxs[Min(hits)].dt, info |-> info, maxs |-> maxs]

\* Faulty: the entry of reset_max_ stays, and meets the next reset time.
ResetAtMaxKept(now, info, maxs, max, p) ==
  LET hits == {i \in DOMAIN info : info[i].time = now}
      it == Min(hits)
  IN IF hits = {} THEN [dt |-> p, failed |-> FALSE, max |-> max, info |-> info, maxs |-> maxs]
     ELSE [dt |-> Smaller(p, info[it].dt), failed |-> p >= info[it].dt,
           max |-> IF maxs = <<>> THEN max ELSE maxs[it].dt,
           info |-> RemoveAt(info, it), maxs |-> maxs]

\* The loop of get_dt over the reset times, when the PK asks for p: the first
\* entry of reset_info_ at this time cuts the step and is used up, with the
\* entry of reset_max_ that has the same index, which becomes max_dt_.
ResetAt(now, info, maxs, max, p) ==
  LET hits == {i \in DOMAIN info : info[i].time = now}
      it == Min(hits)
  IN IF hits = {} THEN [dt |-> p, failed |-> FALSE, max |-> max, info |-> info, maxs |-> maxs]
     ELSE [dt |-> Smaller(p, info[it].dt),
           failed |-> p >= info[it].dt,
           max |-> IF maxs = <<>> THEN max ELSE maxs[it].dt,
           info |-> RemoveAt(info, it),
           maxs |-> IF maxs = <<>> THEN maxs ELSE RemoveAt(maxs, it)]

\* CycleDriver::get_dt, called at time now when the PK asks for p: reset time,
\* smallest step, timestep manager, largest step.
GetDt(now, info, maxs, max, m, p, failed) ==
  LET r == ResetAt(now, info, maxs, max, p)
      step == TimeStep(now, m, r.dt, failed \/ r.failed)
  IN [ok |-> r.dt >= MinDt /\ step.ok,
      dt |-> Smaller(step.dt, r.max),
      maxdt |-> r.max,
      resetInfo |-> r.info,
      resetMax |-> r.maxs,
      manual |-> step.manual]

TakeDt(g) ==
  /\ dt' = g.dt
  /\ maxdt' = g.maxdt
  /\ resetInfo' = g.resetInfo
  /\ resetMax' = g.resetMax
  /\ manual' = g.manual

-----------------------------------------------------------------------------
(* Beginning                                                               *)

Blank ==
  [time |-> 0, cycle |-> 0, position |-> "start", tp |-> 1, dt |-> 0, maxdt |-> 0,
   startCycle |-> 0, resetInfo |-> <<>>, resetMax |-> <<>>, manual |-> 0,
   forceVis |-> FALSE, forceCheck |-> FALSE, obs |-> <<>>]

Load(m) ==
  /\ time' = m.time /\ cycle' = m.cycle /\ position' = m.position /\ tp' = m.tp
  /\ dt' = m.dt /\ maxdt' = m.maxdt /\ startCycle' = m.startCycle
  /\ resetInfo' = m.resetInfo /\ resetMax' = m.resetMax /\ manual' = m.manual
  /\ forceVis' = m.forceVis /\ forceCheck' = m.forceCheck /\ obs' = m.obs

Init ==
  /\ pc = "start"
  /\ time = 0 /\ cycle = 0 /\ position = "start" /\ tp = 1
  /\ dt = 0 /\ maxdt = 0 /\ startCycle = 0
  /\ resetInfo = <<>> /\ resetMax = <<>> /\ manual = 0
  /\ forceVis = FALSE /\ forceCheck = FALSE /\ obs = <<>>
  /\ prescribed \in Prescriptions
  /\ disk = <<>>
  /\ vis = {} /\ since = 0
  /\ failures = 0 /\ crashes = 0

\* Go without "restart": Setup creates the visualization files anew; the timestep
\* manager is asked twice, first for the step given to the PK and then by get_dt.
Start ==
  /\ pc = "start" \/ (pc = "down" /\ DOMAIN disk = {})
  /\ \E p \in PKSteps :
       LET first == Periods[1]
           step == TimeStep(first.start, 0, first.dt, FALSE)
           g == GetDt(first.start, Resets, ResetMaxs, first.maxdt, step.manual, p, FALSE)
       IN /\ Load([Blank EXCEPT !.time = first.start, !.dt = g.dt, !.maxdt = g.maxdt,
                     !.resetInfo = g.resetInfo, !.resetMax = g.resetMax,
                     !.manual = g.manual])
          /\ pc' = IF step.ok /\ g.ok THEN "vis" ELSE "error"
  /\ vis' = {}
  /\ since' = time'
  /\ UNCHANGED <<disk, failures, crashes, prescribed>>

\* The loop that erases the reset times up to "now": an erased entry is
\* followed by ++it, so the entry behind it is not looked at, and every second
\* one of those in the past is kept.
EraseResets(info, now) ==
  LET past == Cardinality({i \in DOMAIN info : info[i].time <= now})
      kept == past \div 2
  IN [i \in 1 .. Len(info) - (past - kept) |->
        IF i <= kept THEN info[2 * i] ELSE info[i + (past - kept)]]

\* Faulty: time_period_id_ is not taken back at the end of a period.
PeriodOfWithoutEnd(file) == 1 + Cardinality({i \in 1 .. N : file.time >= Periods[i].end})

\* The period of a checkpoint file: the number of ends not after its time, less
\* one if the file was written at the end of a period.
PeriodOf(file) ==
  LET passed == Cardinality({i \in 1 .. N : file.time >= Periods[i].end})
  IN IF file.position = "end" /\ passed > 0 THEN passed ELSE passed + 1

\* The memory after ReadCheckpoint and ReadCheckpointObservations.
ReadCheckpoint(file) ==
  [Blank EXCEPT !.time = file.time, !.cycle = file.cycle, !.position = file.position,
                !.dt = file.dt, !.obs = file.obs]

\* What is observable at (cycle, time) is appended to observations_data_ unless
\* this time is there already.
Observed(seq, c, t) ==
  IF DumpRequested(ObsCycles, ObsTimes, c, t) /\ t \notin ToSet(seq)
  THEN Append(seq, t) ELSE seq

\* Go with "restart": from the file written at cycle c.  Setup creates the
\* visualization files anew, under their old names.  A file of the end of a
\* period starts the next one through ResetDriver.
Restart(c) ==
  /\ pc = "down"
  /\ c \in DOMAIN disk
  /\ LET file == disk[c]
         old == PeriodOf(file)
         turn == file.position = "end" /\ old < N
         now == IF turn THEN Periods[old + 1].start ELSE file.time
         new == IF turn THEN old + 1 ELSE old
         read == ReadCheckpoint(file)
         step == TimeStep(now, 0, IF turn THEN Periods[new].dt ELSE read.dt, FALSE)
     IN /\ Load([read EXCEPT
                   !.time = now, !.tp = new,
                   !.position = IF turn THEN "start" ELSE @,
                   !.dt = step.dt, !.maxdt = Periods[new].maxdt, !.startCycle = read.cycle,
                   !.resetInfo = EraseResets(Resets, read.time), !.resetMax = ResetMaxs,
                   !.manual = step.manual,
                   !.obs = IF turn THEN Observed(@, read.cycle, now) ELSE @])
        /\ vis' = IF turn /\ FieldsDiffer THEN {<<now, c>>} ELSE {}
        /\ since' = now
        /\ pc' = IF step.ok THEN "vis" ELSE "error"
  /\ UNCHANGED <<disk, failures, crashes, prescribed>>

-----------------------------------------------------------------------------
(* The loop of Go                                                          *)

\* The condition of the inner loop.
InPeriod ==
  /\ tp <= N
  /\ time < Periods[tp].end
  /\ Periods[tp].cycles = None \/ cycle - startCycle < Periods[tp].cycles

\* Go catches the exceptions of the loop: one more cycle, a last visualization,
\* an error checkpoint under another name, and the end.
Abort(now, c) ==
  /\ pc' = "error"
  /\ cycle' = c + 1
  /\ vis' = vis \cup {<<now, c + 1>>}

\* Advance when pk_->AdvanceStep succeeds.
Advance ==
  /\ pc = "loop"
  /\ InPeriod
  /\ cycle < MaxCycle
  /\ time' = time + dt
  /\ position' = IF time' = Periods[tp].end THEN "end" ELSE "inside"
  /\ \E p \in PKSteps :
       LET g == GetDt(time', resetInfo, resetMax, maxdt, manual, p, FALSE)
       IN /\ TakeDt(g)
          /\ forceVis' = (position' = "end")
          /\ forceCheck' = \/ position' = "end"
                           \/ g.resetInfo # <<>> /\ Head(g.resetInfo).time = time'
          /\ IF g.ok THEN pc' = "vis" /\ cycle' = cycle + 1 /\ vis' = vis
                     ELSE Abort(time', cycle + 1)
  /\ UNCHANGED <<tp, startCycle, obs, disk, since, failures, crashes, prescribed>>

\* Advance when it fails.  The driver takes the step the PK asks for next, a
\* shorter one or not; 0 is less than a tick.
AdvanceFails ==
  /\ pc = "loop"
  /\ InPeriod
  /\ failures < MaxFailures
  /\ failures' = failures + 1
  /\ position' = "inside"
  /\ \E p \in PKSteps \cup {0} :
       LET g == GetDt(time, resetInfo, resetMax, maxdt, manual, p, TRUE)
       IN /\ TakeDt(g)
          /\ IF g.ok THEN pc' = pc /\ cycle' = cycle /\ vis' = vis
                     ELSE Abort(time, cycle)
  /\ UNCHANGED <<time, tp, startCycle, forceVis, forceCheck, obs, disk, since, crashes,
                 prescribed>>

\* The inner loop has ended: ResetDriver and get_dt for the next period, which
\* starts at time now with the observations seen ...
StartPeriod(now, seen) ==
  /\ pc = "loop"
  /\ ~InPeriod
  /\ tp < N
  /\ tp' = tp + 1
  /\ time' = now
  /\ position' = "start"
  /\ startCycle' = cycle
  /\ obs' = seen
  /\ \E p \in PKSteps :
       LET g == GetDt(now, resetInfo, resetMax, Periods[tp'].maxdt, manual, p, FALSE)
           vis1 == IF FieldsDiffer THEN vis \cup {<<now, cycle>>} ELSE vis
       IN /\ TakeDt(g)
          /\ IF g.ok THEN pc' = pc /\ cycle' = cycle /\ vis' = vis1
             ELSE pc' = "error" /\ cycle' = cycle + 1
                  /\ vis' = vis1 \cup {<<now, cycle + 1>>}
  /\ UNCHANGED <<forceVis, forceCheck, disk, since, failures, crashes, prescribed>>

\* Faulty: the time of the old period goes on.
NextPeriodKeepsTime == StartPeriod(time, Observed(obs, cycle, time))

NextPeriod ==
  /\ tp < N
  /\ LET now == Periods[tp + 1].start
     IN StartPeriod(now, Observed(obs, cycle, now))

\* ... or the run is over.
Finish ==
  /\ pc = "loop"
  /\ ~InPeriod
  /\ tp >= N
  /\ pc' = "done"
  /\ tp' = N + 1
  /\ UNCHANGED <<time, cycle, position, dt, maxdt, startCycle, resetInfo, resetMax,
                 manual, forceVis, forceCheck, obs, disk, vis, since, failures, crashes,
                 prescribed>>

-----------------------------------------------------------------------------
(* Output, in this order                                                   *)

\* Faulty: only forced dumps are made.
VisualizeForced ==
  /\ pc = "vis"
  /\ vis' = IF forceVis THEN vis \cup {<<time, cycle>>} ELSE vis
  /\ pc' = "obs"
  /\ UNCHANGED <<memory, disk, since, failures, crashes, prescribed>>

\* Faulty: a time that is there already is observed again.
ObserveAgain ==
  /\ pc = "obs"
  /\ obs' = IF DumpRequested(ObsCycles, ObsTimes, cycle, time) THEN Append(obs, time) ELSE obs
  /\ pc' = "check"
  /\ UNCHANGED <<time, cycle, position, tp, dt, maxdt, startCycle, resetInfo, resetMax,
                 manual, forceVis, forceCheck, disk, vis, since, failures, crashes,
                 prescribed>>

Visualize ==
  /\ pc = "vis"
  /\ vis' = IF forceVis \/ DumpRequested(VisCycles, VisTimes, cycle, time)
            THEN vis \cup {<<time, cycle>>} ELSE vis
  /\ pc' = "obs"
  /\ UNCHANGED <<memory, disk, since, failures, crashes, prescribed>>

\* Forcing opens Observations but not the test in MakeObservations.
Observe ==
  /\ pc = "obs"
  /\ obs' = Observed(obs, cycle, time)
  /\ pc' = "check"
  /\ UNCHANGED <<time, cycle, position, tp, dt, maxdt, startCycle, resetInfo, resetMax,
                 manual, forceVis, forceCheck, disk, vis, since, failures, crashes,
                 prescribed>>

\* Checkpoint::CreateFile replaces a file of the same cycle ...
CreateFile ==
  /\ pc = "check"
  /\ IF forceCheck \/ DumpRequested(CheckCycles, CheckTimes, cycle, time)
     THEN /\ disk' = [c \in DOMAIN disk \ {cycle} |-> disk[c]]
          /\ pc' = "write"
     ELSE pc' = "loop" /\ disk' = disk
  /\ UNCHANGED <<memory, vis, since, failures, crashes, prescribed>>

\* What Checkpoint::Write puts in a file: the records of the State, with the
\* step about to be taken, and the observations.  tp is history.
Contents ==
  [time |-> time, cycle |-> cycle, position |-> position, dt |-> dt, obs |-> obs,
   tp |-> tp]

\* Faulty: the observations are not written.
WriteCheckpointWithoutObs ==
  /\ pc = "write"
  /\ disk' = (cycle :> [Contents EXCEPT !.obs = <<>>]) @@ disk
  /\ pc' = "loop"
  /\ UNCHANGED <<memory, vis, since, failures, crashes, prescribed>>

\* ... and Checkpoint::Write fills it.
WriteCheckpoint ==
  /\ pc = "write"
  /\ disk' = [c \in {cycle} \cup DOMAIN disk |-> IF c = cycle THEN Contents ELSE disk[c]]
  /\ pc' = "loop"
  /\ UNCHANGED <<memory, vis, since, failures, crashes, prescribed>>

\* The process dies; the files stay until the next one starts.
Crash ==
  /\ pc \notin {"start", "down", "error", "done"}
  /\ crashes < MaxCrashes
  /\ crashes' = crashes + 1
  /\ pc' = "down"
  /\ Load(Blank)
  /\ UNCHANGED <<disk, vis, since, failures, prescribed>>

Run ==
  \/ Start
  \/ \E c \in DOMAIN disk : Restart(c)
  \/ Advance
  \/ AdvanceFails
  \/ NextPeriod
  \/ Finish
  \/ Visualize
  \/ Observe
  \/ CreateFile
  \/ WriteCheckpoint

Next == Run \/ Crash

Spec == Init /\ [][Next]_vars

\* A process that runs makes its next step, and the user restarts it.
FairSpec == Spec /\ WF_vars(Run)

-----------------------------------------------------------------------------
(* Properties                                                              *)

\* A time at which something has to happen in the periods that run to their
\* end: after the start of the period, or at the start of the run.
Due(t) ==
  \E i \in DOMAIN Periods :
    /\ Periods[i].cycles = None
    /\ t <= Periods[i].end
    /\ Periods[i].start < t \/ (i = 1 /\ Periods[i].start = t)

\* No step of a PK passes over an output time, a reset time or the end of a
\* period, whatever the PKs ask for, after failures and restarts as well.
NoEventSteppedOver ==
  [][pc = "loop" /\ time' # time /\ tp' = tp =>
       \A t \in time + 1 .. time' - 1 : \A e \in TimeEvents : ~ContainsTime(e, t)]_vars

\* When the run ends, its visualization files hold every dump that was due since
\* the process began: since the first time if there was no restart, otherwise
\* since the time of the checkpoint, that time included.  (What earlier processes
\* dumped before it is lost: Setup creates the files anew.)
AllDumpsMade ==
  pc = "done" =>
    \A e \in VisTimes : \A t \in since .. Periods[N].end :
      ContainsTime(e, t) /\ Due(t) => \E d \in vis : d[1] = t

\* ... and every observation is in the observation data, the start of every
\* period included: ResetDriver observes it.
AllObserved ==
  pc = "done" =>
    \A e \in ObsTimes : \A i \in DOMAIN Periods :
      \A t \in Periods[i].start .. Periods[i].end :
        ContainsTime(e, t) /\ Periods[i].cycles = None => t \in ToSet(obs)

\* The observation data, partly read from a file and partly made again, are in
\* the order of time without repetition.
ObservedInOrder == \A i, j \in DOMAIN obs : i < j => obs[i] < obs[j]

\* A restart finds the period in which the checkpoint was written.
RestartFindsPeriod == \A c \in DOMAIN disk : PeriodOf(disk[c]) = disk[c].tp

\* The driver works in a period that contains the time.
TimeIsInPeriod ==
  pc \in {"loop", "vis", "obs", "check", "write"} =>
    /\ tp <= N
    /\ Periods[tp].start <= time /\ time <= Periods[tp].end
    /\ position = "end" <=> time = Periods[tp].end

\* Reset times that have been reached are used up: none cuts a step, or
\* reinitializes the PKs, a second time.
ResetsAreUsedOnce == pc = "loop" => \A i \in DOMAIN resetInfo : resetInfo[i].time > time

\* The run comes to an end.
Terminates == <>(pc \in {"done", "error"})

-----------------------------------------------------------------------------
(* What documents and comments say                                         *)

\* Advance: "Reinitializing PKs due to BCs or sources/sinks" when the step
\* starts at a reset time.
Reinit == \E i \in DOMAIN resetInfo : resetInfo[i].time = time
ResetReinitializes ==
  pc = "loop" /\ InPeriod =>
    \A i \in DOMAIN Resets : Resets[i].time = time => Reinit

\* "maximum timestep": "limit the timestep between two particular times".
ResetMaxIsKept ==
  pc = "loop" /\ InPeriod =>
    \A i \in DOMAIN ResetMaxs :
      /\ ResetMaxs[i].time <= time
      /\ \A j \in DOMAIN ResetMaxs : ResetMaxs[j].time <= ResetMaxs[i].time
                                      \/ ResetMaxs[j].time > time
      => dt <= ResetMaxs[i].dt
=============================================================================
