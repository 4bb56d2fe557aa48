-------------------------- MODULE CycleDriver_proof --------------------------
(***************************************************************************)
(* The driver for every schedule of ordered periods, every set of events   *)
(* and any number of failures, crashes and restarts: no event is stepped   *)
(* over, the time stays in its period, a restart finds that period, the    *)
(* observations stay in order, and the output due by the end of the run    *)
(* has been made.  Before the first restart each reset time is used once   *)
(* and the limit that comes with it is kept.  No step is empty, and every  *)
(* step of the driver brings its run closer to an end.                     *)
(*                                                                         *)
(* Four invariants: IInv (types, the period, the next event), OInv (what   *)
(* is due and what has been made, in memory and in every file), RInv (what *)
(* is left of the reset times) and PInv (the step about to be taken).      *)
(***************************************************************************)
EXTENDS CycleDriver, EventLemmas, FiniteSetTheorems, SequenceTheorems

Record == [time : Nat, dt : Nat]
Positions == {"start", "inside", "end"}
File == [time : Nat, cycle : Nat, position : Positions, dt : Nat, obs : Seq(Nat), tp : 1 .. N]
Running == {"loop", "vis", "obs", "check", "write"}

\* The time t is in period i, and the position says whether it is its end.
InItsPeriod(t, i, pos) ==
  /\ i \in 1 .. N
  /\ Periods[i].start <= t /\ t <= Periods[i].end
  /\ pos = "end" <=> t = Periods[i].end

\* A step of length d from t passes over no event.
Fits(t, d) ==
  \A e \in TimeEvents : \A x \in Nat : x > t /\ ContainsTime(e, x) => t + d <= x

\* Observations in order, up to the time t.
Ordered(s, t) ==
  /\ \A i \in DOMAIN s : s[i] <= t
  /\ \A i, j \in DOMAIN s : i < j => s[i] < s[j]

Types ==
  /\ pc \in Labels
  /\ time \in Nat /\ cycle \in Nat /\ position \in Positions /\ tp \in 1 .. N + 1
  /\ dt \in Nat /\ maxdt \in Nat /\ startCycle \in Nat
  /\ prescribed \in Prescriptions /\ manual \in 0 .. Len(prescribed)
  /\ forceVis \in BOOLEAN /\ forceCheck \in BOOLEAN
  /\ obs \in Seq(Nat)
  /\ since \in Nat
  /\ failures \in 0 .. MaxFailures /\ crashes \in 0 .. MaxCrashes

\* What is left of the reset times, and of their limits.
Left(info, maxs) ==
  /\ info \in Seq(Record) /\ maxs \in Seq(Record)
  /\ Len(info) <= Len(Resets) /\ Len(maxs) <= Len(ResetMaxs)
  /\ maxs = <<>> \/ Len(info) <= Len(maxs)

Files ==
  \A c \in DOMAIN disk :
    /\ disk[c] \in File /\ disk[c].cycle = c
    /\ InItsPeriod(disk[c].time, disk[c].tp, disk[c].position)
    /\ Ordered(disk[c].obs, disk[c].time)

Working == pc \in Running => InItsPeriod(time, tp, position) /\ Fits(time, dt)

IInv ==
  /\ Types
  /\ Left(resetInfo, resetMax)
  /\ Files
  /\ Working
  /\ Ordered(obs, time)

-----------------------------------------------------------------------------
(* The schedule                                                            *)

LEMMA PeriodTypes ==
  /\ N \in Nat \ {0} /\ DOMAIN Periods = 1 .. N
  /\ \A i \in 1 .. N :
       /\ Periods[i].start \in Nat /\ Periods[i].end \in Nat /\ Periods[i].dt \in Nat
       /\ Periods[i].maxdt \in Nat /\ Periods[i].cycles \in Int
       /\ Periods[i].start < Periods[i].end
       /\ \A j \in 1 .. N : i < j => Periods[i].end <= Periods[j].start
<1>1. Periods \in Seq([start : Nat, end : Nat, dt : Nat, maxdt : Nat, cycles : Int])
      /\ Periods # <<>>
  BY PeriodsAssumption
<1>2. Len(Periods) \in Nat /\ DOMAIN Periods = 1 .. Len(Periods) /\ Len(Periods) # 0
  BY <1>1
<1>3. \A i \in 1 .. N : Periods[i] \in [start : Nat, end : Nat, dt : Nat, maxdt : Nat, cycles : Int]
  BY <1>1, ElementOfSeq, Zenon DEF N
<1>. QED BY <1>2, <1>3, PeriodsAssumption DEF N

LEMMA PeriodsInOrder ==
  ASSUME NEW i \in 1 .. N, NEW j \in 1 .. N, i < j
  PROVE  Periods[i].end <= Periods[j].start
  BY PeriodTypes

LEMMA ResetTypes == Left(Resets, ResetMaxs)
  BY ResetsAssumption DEF Left, Record

LEMMA TimeEventsAreEvents == \A e \in TimeEvents : IsEvent(e)
<1>1. \A x \in Nat : IsEvent(ListEvent({x}))
  BY DEF IsEvent, ListEvent
<1>2. \A i \in DOMAIN Resets : Resets[i].time \in Nat
  <2>1. ASSUME NEW i \in DOMAIN Resets PROVE Resets[i] \in [time : Nat, dt : Nat]
    <3>1. i \in 1 .. Len(Resets)
      BY ResetsAssumption, LenProperties
    <3>. QED BY <3>1, ResetsAssumption, ElementOfSeq
  <2>. QED BY <2>1
<1>3. \A i \in DOMAIN Periods : Periods[i].end \in Nat /\ Periods[i].start + Periods[i].dt \in Nat
  BY PeriodTypes
<1>. QED BY <1>1, <1>2, <1>3, EventsAssumption DEF TimeEvents

\* The end of a period is an event.
LEMMA EndIsEvent ==
  ASSUME NEW i \in 1 .. N, NEW t \in Nat, NEW d \in Nat, Fits(t, d), t < Periods[i].end
  PROVE  t + d <= Periods[i].end
<1>1. ListEvent({Periods[i].end}) \in TimeEvents /\ Periods[i].end \in Nat
  BY PeriodTypes DEF TimeEvents
<1>2. ContainsTime(ListEvent({Periods[i].end}), Periods[i].end)
  BY DEF ContainsTime, ListEvent
<1>. QED BY <1>1, <1>2 DEF Fits

\* The number of ends that have been reached tells the period.
LEMMA PeriodIsFound ==
  ASSUME NEW f \in File, InItsPeriod(f.time, f.tp, f.position)
  PROVE  PeriodOf(f) = f.tp
<1>. DEFINE S == {i \in 1 .. N : f.time >= Periods[i].end}
<1>1. f.tp \in 1 .. N /\ f.time \in Nat /\ N \in Nat
  BY PeriodTypes DEF File
<1>2. CASE f.position = "end"
  <2>1. S = 1 .. f.tp
    <3>1. ASSUME NEW i \in 1 .. N, i <= f.tp PROVE f.time >= Periods[i].end
      BY <1>1, <1>2, <3>1, PeriodTypes DEF InItsPeriod
    <3>2. ASSUME NEW i \in 1 .. N, f.tp < i PROVE ~(f.time >= Periods[i].end)
      BY <1>1, <1>2, <3>2, PeriodTypes DEF InItsPeriod
    <3>. QED BY <1>1, <3>1, <3>2
  <2>2. Cardinality(S) = f.tp
    <3>1. f.tp \in Int /\ 1 \in Int /\ ~(1 > f.tp) /\ f.tp - 1 + 1 = f.tp
      BY <1>1
    <3>2. Cardinality(1 .. f.tp) = f.tp
      BY <3>1, FS_Interval
    <3>. QED BY <2>1, <3>2
  <2>. QED BY <1>1, <1>2, <2>2 DEF PeriodOf
<1>3. CASE f.position # "end"
  <2>1. S = 1 .. f.tp - 1
    <3>1. ASSUME NEW i \in 1 .. N, i < f.tp PROVE f.time >= Periods[i].end
      BY <1>1, <3>1, PeriodTypes DEF InItsPeriod
    <3>2. ASSUME NEW i \in 1 .. N, f.tp <= i PROVE ~(f.time >= Periods[i].end)
      <4>0. Periods[f.tp].end \in Nat
        BY <1>1, PeriodTypes
      <4>1. f.time < Periods[f.tp].end
        BY <1>1, <1>3, <4>0 DEF InItsPeriod
      <4>2. /\ Periods[f.tp].end \in Nat /\ Periods[i].end \in Nat
            /\ i = f.tp \/ Periods[f.tp].end <= Periods[i].end
        <5>1. f.tp < i => Periods[f.tp].end <= Periods[i].start
          BY <1>1, PeriodTypes
        <5>2. /\ Periods[f.tp].end \in Nat /\ Periods[i].end \in Nat
              /\ Periods[i].start \in Nat /\ Periods[i].start < Periods[i].end
          BY <1>1, PeriodTypes
        <5>. QED BY <1>1, <3>2, <5>1, <5>2
      <4>. QED BY <1>1, <4>1, <4>2
    <3>. QED BY <1>1, <3>1, <3>2
  <2>2. Cardinality(S) = f.tp - 1
    <3>1. f.tp - 1 \in Nat /\ 1 \in Int
      BY <1>1
    <3>2. Cardinality(1 .. f.tp - 1) = f.tp - 1
      <4>. DEFINE n == f.tp - 1
      <4>. HIDE DEF n
      <4>1. n \in Nat
        BY <3>1 DEF n
      <4>2. Cardinality(1 .. n) = IF 1 > n THEN 0 ELSE n - 1 + 1
        BY <4>1, FS_Interval
      <4>3. Cardinality(1 .. n) = n
        BY <4>1, <4>2
      <4>. QED BY <4>3 DEF n
    <3>. QED BY <2>1, <3>2
  <2>. QED BY <1>1, <1>3, <2>2 DEF PeriodOf
<1>. QED BY <1>2, <1>3

-----------------------------------------------------------------------------
(* The timestep                                                            *)

LEMMA FitsLess ==
  ASSUME NEW t \in Nat, NEW d \in Nat, Fits(t, d), NEW d2 \in Nat, d2 <= d
  PROVE  Fits(t, d2)
  BY DEF Fits

\* The number of steps prescribed.
LEMMA PrescribedType ==
  ASSUME Types
  PROVE  prescribed \in Seq(Nat) /\ Len(prescribed) \in Nat /\ manual \in Nat
<1>1. prescribed \in Seq(Nat)
  BY StepsAssumption DEF Types
<1>. QED BY <1>1 DEF Types

\* What the timestep manager answers, prescribed or not, fits.
LEMMA TimeStepFits ==
  ASSUME Types, NEW now \in Nat, NEW m \in 0 .. Len(prescribed), NEW p \in Nat, NEW failed \in BOOLEAN
  PROVE  LET s == TimeStep(now, m, p, failed)
         IN /\ s.ok \in BOOLEAN /\ s.dt \in Nat /\ s.manual \in 0 .. Len(prescribed)
            /\ Fits(now, s.dt)
<1>. DEFINE d == IF m < Len(prescribed) THEN prescribed[m + 1] ELSE p
<1>1. prescribed \in Seq(Nat) /\ Len(prescribed) \in Nat
  BY PrescribedType
<1>2. d \in Nat
  <2>1. CASE m < Len(prescribed)
    <3>1. m + 1 \in 1 .. Len(prescribed)
      BY <1>1, <2>1
    <3>2. prescribed[m + 1] \in Nat
      BY <1>1, <3>1, ElementOfSeq
    <3>. QED BY <2>1, <3>2
  <2>. QED BY <2>1
<1>3. /\ Limit(TimeEvents, now, d) \in Nat
      /\ \A e \in TimeEvents : \A x \in Nat :
           x > now /\ ContainsTime(e, x) => now + Limit(TimeEvents, now, d) <= x
  BY <1>2, TimeEventsAreEvents, LimitStopsAtEvents
<1>4. Fits(now, Limit(TimeEvents, now, d))
  BY <1>3 DEF Fits
<1>5. /\ TimeStep(now, m, p, failed).dt = Limit(TimeEvents, now, d)
      /\ TimeStep(now, m, p, failed).ok = ~(prescribed # <<>> /\ failed)
      /\ TimeStep(now, m, p, failed).manual = IF m < Len(prescribed) THEN m + 1 ELSE m
  BY DEF TimeStep
<1>6. TimeStep(now, m, p, failed).manual \in 0 .. Len(prescribed)
  BY <1>1, <1>5
<1>. QED BY <1>3, <1>4, <1>5, <1>6

\* An entry taken out of a list of reset times.
LEMMA RemovedType ==
  ASSUME NEW s \in Seq(Record), NEW i \in 1 .. Len(s)
  PROVE  RemoveAt(s, i) \in Seq(Record) /\ Len(RemoveAt(s, i)) = Len(s) - 1
<1>1. Len(s) \in Nat
  OBVIOUS
<1>2. /\ SubSeq(s, 1, i - 1) \in Seq(Record) /\ Len(SubSeq(s, 1, i - 1)) = i - 1
  BY <1>1
<1>3. /\ SubSeq(s, i + 1, Len(s)) \in Seq(Record)
      /\ Len(SubSeq(s, i + 1, Len(s))) = Len(s) - i
  BY <1>1
<1>. DEFINE a == SubSeq(s, 1, i - 1)
            b == SubSeq(s, i + 1, Len(s))
<1>4. a \in Seq(Record) /\ b \in Seq(Record) /\ Len(a) = i - 1 /\ Len(b) = Len(s) - i
  BY <1>2, <1>3
<1>5. RemoveAt(s, i) = a \o b
  BY DEF RemoveAt
<1>. HIDE DEF a, b
<1>6. a \o b \in Seq(Record) /\ Len(a \o b) = Len(a) + Len(b)
  BY <1>4, ConcatProperties
<1>. QED BY <1>1, <1>4, <1>5, <1>6

\* A reset time cuts the step, and its entry and that of its limit are used up.
LEMMA ResetAtType ==
  ASSUME NEW now \in Nat, NEW info, NEW maxs, Left(info, maxs), NEW max \in Nat, NEW p \in Nat
  PROVE  LET r == ResetAt(now, info, maxs, max, p)
         IN /\ r.dt \in Nat /\ r.failed \in BOOLEAN /\ r.max \in Nat
            /\ Left(r.info, r.maxs)
<1>. DEFINE hits == {i \in DOMAIN info : info[i].time = now}
            it == Min(hits)
            r == ResetAt(now, info, maxs, max, p)
<1>1. /\ info \in Seq(Record) /\ maxs \in Seq(Record)
      /\ Len(info) \in Nat /\ Len(maxs) \in Nat /\ Len(Resets) \in Nat /\ Len(ResetMaxs) \in Nat
      /\ DOMAIN info = 1 .. Len(info)
  BY ResetTypes DEF Left
<1>2. CASE hits = {}
  BY <1>2 DEF ResetAt
<1>3. CASE hits # {}
  <2>1. it \in 1 .. Len(info)
    <3>1. hits \in SUBSET Nat
      BY <1>1
    <3>2. it \in hits
      BY <1>3, <3>1, MinIsLeast
    <3>. QED BY <1>1, <3>2
  <2>. HIDE DEF it
  <2>2. r = [dt |-> Smaller(p, info[it].dt), failed |-> p >= info[it].dt,
             max |-> IF maxs = <<>> THEN max ELSE maxs[it].dt,
             info |-> RemoveAt(info, it),
             maxs |-> IF maxs = <<>> THEN maxs ELSE RemoveAt(maxs, it)]
    BY <1>3 DEF ResetAt, it
  <2>3. info[it] \in Record
    BY <1>1, <2>1, ElementOfSeq
  <2>4. /\ RemoveAt(info, it) \in Seq(Record)
        /\ Len(RemoveAt(info, it)) = Len(info) - 1
    BY <1>1, <2>1, RemovedType
  <2>5. CASE maxs = <<>>
    BY <1>1, <2>2, <2>3, <2>4, <2>5 DEF Left, Record, Smaller
  <2>6. CASE maxs # <<>>
    <3>1. it \in 1 .. Len(maxs)
      BY <1>1, <2>1, <2>6 DEF Left
    <3>2. maxs[it] \in Record
      BY <1>1, <3>1, ElementOfSeq
    <3>3. RemoveAt(maxs, it) \in Seq(Record) /\ Len(RemoveAt(maxs, it)) = Len(maxs) - 1
      BY <1>1, <3>1, RemovedType
    <3>4. /\ r.dt \in Nat /\ r.failed \in BOOLEAN /\ r.max \in Nat
          /\ r.info = RemoveAt(info, it) /\ r.maxs = RemoveAt(maxs, it)
      BY <2>2, <2>3, <2>6, <3>2 DEF Record, Smaller
    <3>5. Len(info) <= Len(Resets) /\ Len(maxs) <= Len(ResetMaxs) /\ Len(info) <= Len(maxs)
      BY <2>6 DEF Left
    <3>6. Left(RemoveAt(info, it), RemoveAt(maxs, it))
      BY <1>1, <2>4, <3>3, <3>5 DEF Left
    <3>. QED BY <3>4, <3>6
  <2>. QED BY <2>5, <2>6
<1>. QED BY <1>2, <1>3

\* The step that get_dt chooses fits, whatever the PK asks for.
LEMMA GetDtFits ==
  ASSUME Types, NEW now \in Nat, NEW info, NEW maxs, Left(info, maxs), NEW max \in Nat,
         NEW m \in 0 .. Len(prescribed), NEW p \in Nat, NEW failed \in BOOLEAN
  PROVE  LET g == GetDt(now, info, maxs, max, m, p, failed)
         IN /\ g.ok \in BOOLEAN /\ g.dt \in Nat /\ g.maxdt \in Nat
            /\ g.manual \in 0 .. Len(prescribed)
            /\ Left(g.resetInfo, g.resetMax)
            /\ Fits(now, g.dt)
<1>. DEFINE r == ResetAt(now, info, maxs, max, p)
            s == TimeStep(now, m, r.dt, failed \/ r.failed)
<1>1. /\ r.dt \in Nat /\ r.failed \in BOOLEAN /\ r.max \in Nat
      /\ Left(r.info, r.maxs)
  BY ResetAtType
<1>. HIDE DEF r
<1>2. /\ s.ok \in BOOLEAN /\ s.dt \in Nat /\ s.manual \in 0 .. Len(prescribed)
      /\ Fits(now, s.dt)
  <2>1. failed \/ r.failed \in BOOLEAN
    BY <1>1
  <2>. QED BY <1>1, <2>1, TimeStepFits
<1>. HIDE DEF s
<1>3. GetDt(now, info, maxs, max, m, p, failed)
        = [ok |-> r.dt >= MinDt /\ s.ok, dt |-> Smaller(s.dt, r.max), maxdt |-> r.max,
           resetInfo |-> r.info, resetMax |-> r.maxs, manual |-> s.manual]
  BY DEF GetDt, r, s
<1>4. Smaller(s.dt, r.max) \in Nat /\ Smaller(s.dt, r.max) <= s.dt
  BY <1>1, <1>2 DEF Smaller
<1>5. Fits(now, Smaller(s.dt, r.max))
  BY <1>2, <1>4, FitsLess
<1>. QED BY <1>1, <1>2, <1>3, <1>4, <1>5

-----------------------------------------------------------------------------
(* Observations and restarts                                               *)

\* A new observation is of a time that is not there: it comes last.
LEMMA ObservedInOrderStill ==
  ASSUME NEW s \in Seq(Nat), NEW c \in Nat, NEW t \in Nat, Ordered(s, t)
  PROVE  Observed(s, c, t) \in Seq(Nat) /\ Ordered(Observed(s, c, t), t)
<1>1. CASE DumpRequested(ObsCycles, ObsTimes, c, t) /\ t \notin ToSet(s)
  <2>. DEFINE new == Append(s, t)
  <2>1. Observed(s, c, t) = new
    BY <1>1 DEF Observed
  <2>2. /\ Len(s) \in Nat /\ DOMAIN s = 1 .. Len(s)
        /\ new \in Seq(Nat) /\ Len(new) = Len(s) + 1 /\ DOMAIN new = 1 .. Len(s) + 1
        /\ new[Len(s) + 1] = t /\ \A i \in 1 .. Len(s) : new[i] = s[i]
    OBVIOUS
  <2>3. ASSUME NEW i \in 1 .. Len(s) PROVE s[i] \in Nat /\ s[i] < t
    <3>1. s[i] \in Nat
      BY <2>2, <2>3, ElementOfSeq
    <3>2. s[i] <= t
      BY <2>2, <2>3 DEF Ordered
    <3>3. s[i] # t
      BY <1>1, <2>2, <2>3 DEF ToSet
    <3>. QED BY <3>1, <3>2, <3>3
  <2>4. ASSUME NEW i \in 1 .. Len(s) + 1 PROVE new[i] <= t
    BY <2>2, <2>3
  <2>5. ASSUME NEW i \in 1 .. Len(s) + 1, NEW j \in 1 .. Len(s) + 1, i < j
        PROVE  new[i] < new[j]
    <3>1. CASE j = Len(s) + 1
      BY <2>2, <2>3, <2>5, <3>1
    <3>2. CASE j # Len(s) + 1
      <4>1. i \in DOMAIN s /\ j \in DOMAIN s
        BY <2>2, <2>5, <3>2
      <4>2. s[i] < s[j]
        BY <2>5, <4>1 DEF Ordered
      <4>. QED BY <2>2, <4>1, <4>2
    <3>. QED BY <3>1, <3>2
  <2>6. Ordered(new, t)
    BY <2>2, <2>4, <2>5 DEF Ordered
  <2>. QED BY <2>1, <2>2, <2>6
<1>2. CASE ~(DumpRequested(ObsCycles, ObsTimes, c, t) /\ t \notin ToSet(s))
  <2>1. Observed(s, c, t) = s
    BY <1>2 DEF Observed
  <2>. QED BY <2>1
<1>. QED BY <1>1, <1>2

LEMMA OrderedLater ==
  ASSUME NEW s \in Seq(Nat), NEW t \in Nat, NEW t2 \in Nat, Ordered(s, t), t <= t2
  PROVE  Ordered(s, t2)
<1>1. ASSUME NEW i \in DOMAIN s PROVE s[i] <= t2
  <2>1. s[i] \in Nat /\ s[i] <= t
    BY <1>1 DEF Ordered
  <2>. QED BY <2>1
<1>. QED BY <1>1 DEF Ordered

LEMMA NothingObserved == <<>> \in Seq(Nat) /\ \A t \in Nat : Ordered(<<>>, t)
  BY DEF Ordered

\* What is left of the reset times after a restart.
LEMMA ErasedType ==
  ASSUME NEW now \in Nat
  PROVE  Left(EraseResets(Resets, now), ResetMaxs)
<1>. DEFINE D == {i \in DOMAIN Resets : Resets[i].time <= now}
            past == Cardinality(D)
            kept == past \div 2
            n == Len(Resets) - (past - kept)
<1>1. Resets \in Seq(Record) /\ Len(Resets) \in Nat /\ DOMAIN Resets = 1 .. Len(Resets)
  BY ResetsAssumption DEF Record
<1>2. past \in Nat /\ past <= Len(Resets)
  <2>. DEFINE L == Len(Resets)
  <2>1. IsFiniteSet(1 .. L) /\ Cardinality(1 .. L) = L
    <3>. HIDE DEF L
    <3>1. L \in Nat
      BY <1>1 DEF L
    <3>2. IsFiniteSet(1 .. L) /\ Cardinality(1 .. L) = IF 1 > L THEN 0 ELSE L - 1 + 1
      BY <3>1, FS_Interval
    <3>. QED BY <3>1, <3>2
  <2>2. D \in SUBSET (1 .. L)
    BY <1>1
  <2>. HIDE DEF D, L
  <2>3. IsFiniteSet(D) /\ Cardinality(D) <= Cardinality(1 .. L)
    BY <2>1, <2>2, FS_Subset
  <2>4. Cardinality(D) \in Nat
    BY <2>3, FS_CardinalityType
  <2>. QED BY <2>1, <2>3, <2>4 DEF L
<1>. HIDE DEF past
<1>3. kept \in Nat /\ 2 * kept <= past /\ past <= 2 * kept + 1
  BY <1>2
<1>4. n \in Nat /\ n <= Len(Resets)
  BY <1>1, <1>2, <1>3
<1>5. ASSUME NEW i \in 1 .. n
      PROVE  (IF i <= kept THEN Resets[2 * i] ELSE Resets[i + (past - kept)]) \in Record
  <2>1. CASE i <= kept
    <3>1. 2 * i \in 1 .. Len(Resets)
      BY <1>1, <1>2, <1>3, <1>5, <2>1
    <3>2. Resets[2 * i] \in Record
      BY <1>1, <3>1, ElementOfSeq
    <3>. QED BY <2>1, <3>2
  <2>2. CASE ~(i <= kept)
    <3>1. i + (past - kept) \in 1 .. Len(Resets)
      BY <1>1, <1>2, <1>3, <1>4, <1>5
    <3>2. Resets[i + (past - kept)] \in Record
      BY <1>1, <3>1, ElementOfSeq
    <3>. QED BY <2>2, <3>2
  <2>. QED BY <2>1, <2>2
<1>6. EraseResets(Resets, now)
        = [i \in 1 .. n |-> IF i <= kept THEN Resets[2 * i] ELSE Resets[i + (past - kept)]]
  BY DEF EraseResets, past
<1>. HIDE DEF n, kept
<1>7. EraseResets(Resets, now) \in Seq(Record) /\ Len(EraseResets(Resets, now)) = n
  BY <1>4, <1>5, <1>6
<1>. QED BY <1>1, <1>4, <1>7, ResetTypes, ResetsAssumption DEF Left

-----------------------------------------------------------------------------
(* The steps                                                               *)

LEMMA Initially == Init => IInv
<1>. SUFFICES ASSUME Init PROVE IInv
  OBVIOUS
<1>1. N \in Nat \ {0} /\ \A p \in Prescriptions : Len(p) \in Nat
  BY PeriodTypes, StepsAssumption
<1>2. Types
  <2>1. 0 \in 0 .. Len(prescribed) /\ prescribed \in Prescriptions
    BY <1>1 DEF Init
  <2>2. 1 \in 1 .. N + 1
    BY <1>1
  <2>3. 0 \in 0 .. MaxFailures /\ 0 \in 0 .. MaxCrashes
    BY StepsAssumption
  <2>. QED BY <2>1, <2>2, <2>3, NothingObserved DEF Init, Types, Labels, Positions
<1>3. Left(<<>>, <<>>)
  BY ResetTypes DEF Left
<1>4. Files
  BY DEF Init, Files
<1>. QED BY <1>2, <1>3, <1>4, NothingObserved DEF IInv, Init, Working, Running

LEMMA StartKeeps == ASSUME IInv, Start PROVE IInv'
<1>1. PICK p \in PKSteps :
        LET first == Periods[1]
            step == TimeStep(first.start, 0, first.dt, FALSE)
            g == GetDt(first.start, Resets, ResetMaxs, first.maxdt, step.manual, p, FALSE)
        IN /\ Load([Blank EXCEPT !.time = first.start, !.dt = g.dt, !.maxdt = g.maxdt,
                      !.resetInfo = g.resetInfo, !.resetMax = g.resetMax,
                      !.manual = g.manual])
           /\ pc' = IF step.ok /\ g.ok THEN "vis" ELSE "error"
  BY DEF Start
<1>. DEFINE now == Periods[1].start
            step == TimeStep(now, 0, Periods[1].dt, FALSE)
            g == GetDt(now, Resets, ResetMaxs, Periods[1].maxdt, step.manual, p, FALSE)
<1>2. /\ 1 \in 1 .. N /\ now \in Nat /\ Periods[1].dt \in Nat /\ Periods[1].maxdt \in Nat
      /\ Periods[1].end \in Nat /\ now < Periods[1].end /\ p \in Nat /\ 1 \in 1 .. N + 1
  BY PeriodTypes, StepsAssumption
<1>3. Types /\ 0 \in 0 .. Len(prescribed) /\ FALSE \in BOOLEAN
  BY PrescribedType DEF IInv
<1>4. step.manual \in 0 .. Len(prescribed)
  BY <1>2, <1>3, TimeStepFits
<1>5. /\ g.dt \in Nat /\ g.maxdt \in Nat /\ g.manual \in 0 .. Len(prescribed)
      /\ Left(g.resetInfo, g.resetMax) /\ Fits(now, g.dt)
  BY <1>2, <1>3, <1>4, GetDtFits, ResetTypes
<1>6. pc' \in {"vis", "error"}
  BY <1>1
<1>7. /\ time' = now /\ cycle' = 0 /\ position' = "start" /\ tp' = 1 /\ dt' = g.dt
      /\ maxdt' = g.maxdt /\ startCycle' = 0 /\ resetInfo' = g.resetInfo
      /\ resetMax' = g.resetMax /\ manual' = g.manual /\ forceVis' = FALSE
      /\ forceCheck' = FALSE /\ obs' = <<>>
  <2>. HIDE DEF g
  <2>1. Load([Blank EXCEPT !.time = now, !.dt = g.dt, !.maxdt = g.maxdt,
                !.resetInfo = g.resetInfo, !.resetMax = g.resetMax, !.manual = g.manual])
    BY <1>1 DEF g
  <2>. QED BY <2>1 DEF Load, Blank
<1>8. /\ disk' = disk /\ since' = time' /\ failures' = failures /\ crashes' = crashes
      /\ prescribed' = prescribed
  BY DEF Start
<1>. HIDE DEF now, g
<1>9. Types'
  BY <1>2, <1>3, <1>5, <1>6, <1>7, <1>8, NothingObserved DEF Types, Labels, Positions
<1>10. Files'
  BY <1>8 DEF Files, IInv
<1>11. InItsPeriod(time', tp', position')
  BY <1>2, <1>7 DEF InItsPeriod, now
<1>. QED BY <1>2, <1>5, <1>7, <1>9, <1>10, <1>11, NothingObserved DEF IInv, Working

LEMMA RestartKeeps == ASSUME IInv, NEW c \in DOMAIN disk, Restart(c) PROVE IInv'
<1>. DEFINE file == disk[c]
            old == PeriodOf(file)
            turn == file.position = "end" /\ old < N
            now == IF turn THEN Periods[old + 1].start ELSE file.time
            new == IF turn THEN old + 1 ELSE old
            read == ReadCheckpoint(file)
            first == IF turn THEN Periods[new].dt ELSE read.dt
            step == TimeStep(now, 0, first, FALSE)
            seen == IF turn THEN Observed(read.obs, read.cycle, now) ELSE read.obs
<1>1. /\ file \in File /\ InItsPeriod(file.time, file.tp, file.position)
      /\ Ordered(file.obs, file.time)
  BY DEF IInv, Files
<1>2. old = file.tp /\ old \in 1 .. N /\ file.time \in Nat /\ file.cycle \in Nat /\ file.dt \in Nat
      /\ file.obs \in Seq(Nat) /\ file.position \in Positions /\ N \in Nat
  BY <1>1, PeriodIsFound, PeriodTypes DEF File
<1>3. /\ read.time = file.time /\ read.cycle = file.cycle /\ read.position = file.position
      /\ read.dt = file.dt /\ read.obs = file.obs
  BY DEF ReadCheckpoint, Blank
<1>4. /\ time' = now /\ cycle' = file.cycle /\ tp' = new
      /\ position' = (IF turn THEN "start" ELSE file.position)
      /\ dt' = step.dt /\ maxdt' = Periods[new].maxdt /\ startCycle' = file.cycle
      /\ resetInfo' = EraseResets(Resets, file.time) /\ resetMax' = ResetMaxs
      /\ manual' = step.manual /\ forceVis' = FALSE /\ forceCheck' = FALSE /\ obs' = seen
  <2>1. Load([read EXCEPT
                !.time = now, !.tp = new,
                !.position = IF turn THEN "start" ELSE @,
                !.dt = step.dt, !.maxdt = Periods[new].maxdt, !.startCycle = read.cycle,
                !.resetInfo = EraseResets(Resets, read.time), !.resetMax = ResetMaxs,
                !.manual = step.manual,
                !.obs = IF turn THEN Observed(@, read.cycle, now) ELSE @])
    BY DEF Restart
  <2>. DEFINE r == [Blank EXCEPT !.time = file.time, !.cycle = file.cycle,
                                 !.position = file.position, !.dt = file.dt, !.obs = file.obs]
              next == [r EXCEPT
                !.time = now, !.tp = new,
                !.position = IF turn THEN "start" ELSE @,
                !.dt = step.dt, !.maxdt = Periods[new].maxdt, !.startCycle = file.cycle,
                !.resetInfo = EraseResets(Resets, file.time), !.resetMax = ResetMaxs,
                !.manual = step.manual,
                !.obs = IF turn THEN Observed(@, file.cycle, now) ELSE @]
  <2>2. Load(next)
    <3>1. read = r
      BY DEF ReadCheckpoint
    <3>. HIDE DEF file, turn, now, new, step
    <3>. QED BY <2>1, <1>3, <3>1
  <2>. HIDE DEF file, turn, now, new, step
  <2>3. /\ next.time = now /\ next.cycle = file.cycle /\ next.tp = new
        /\ next.position = (IF turn THEN "start" ELSE file.position)
        /\ next.dt = step.dt /\ next.maxdt = Periods[new].maxdt
        /\ next.startCycle = file.cycle
        /\ next.resetInfo = EraseResets(Resets, file.time) /\ next.resetMax = ResetMaxs
        /\ next.manual = step.manual /\ next.forceVis = FALSE /\ next.forceCheck = FALSE
        /\ next.obs = (IF turn THEN Observed(file.obs, file.cycle, now) ELSE file.obs)
    BY DEF Blank
  <2>. HIDE DEF next
  <2>. QED BY <2>2, <2>3, <1>3 DEF Load, seen
<1>5. new \in 1 .. N /\ now \in Nat /\ InItsPeriod(now, new, IF turn THEN "start" ELSE file.position)
  <2>1. CASE turn
    <3>1. new = old + 1 /\ new \in 1 .. N /\ now = Periods[new].start
      BY <1>2, <2>1
    <3>2. /\ Periods[new].start \in Nat /\ Periods[new].end \in Nat
          /\ Periods[new].start < Periods[new].end
      BY <3>1, PeriodTypes
    <3>. QED BY <2>1, <3>1, <3>2 DEF InItsPeriod
  <2>2. CASE ~turn
    BY <1>1, <1>2, <2>2
  <2>. QED BY <2>1, <2>2
<1>6. first \in Nat /\ Periods[new].maxdt \in Nat
  BY <1>2, <1>3, <1>5, PeriodTypes
<1>7. Types /\ 0 \in 0 .. Len(prescribed) /\ FALSE \in BOOLEAN
  BY PrescribedType DEF IInv
<1>8. step.dt \in Nat /\ step.manual \in 0 .. Len(prescribed) /\ Fits(now, step.dt)
  <2>. HIDE DEF now, first
  <2>. QED BY <1>5, <1>6, <1>7, TimeStepFits
<1>9. seen \in Seq(Nat) /\ Ordered(seen, now)
  <2>1. CASE turn
    <3>1. file.time = Periods[old].end /\ Periods[old].end <= now
      BY <1>1, <1>2, <2>1, PeriodTypes DEF InItsPeriod
    <3>2. Ordered(file.obs, now)
      <4>. HIDE DEF now, file
      <4>. QED BY <1>1, <1>2, <1>5, <3>1, OrderedLater
    <3>3. Observed(file.obs, file.cycle, now) \in Seq(Nat) /\ Ordered(Observed(file.obs, file.cycle, now), now)
      <4>. HIDE DEF now, file
      <4>. QED BY <1>2, <1>5, <3>2, ObservedInOrderStill
    <3>. QED BY <1>3, <2>1, <3>3
  <2>2. CASE ~turn
    BY <1>1, <1>2, <1>3, <2>2
  <2>. QED BY <2>1, <2>2
<1>10. Left(EraseResets(Resets, file.time), ResetMaxs)
  BY <1>2, ErasedType
<1>11. /\ disk' = disk /\ since' = now /\ failures' = failures /\ crashes' = crashes
       /\ prescribed' = prescribed /\ pc' \in {"vis", "error"}
  BY DEF Restart
<1>. HIDE DEF file, old, turn, now, new, read, first, step, seen
<1>12. Types'
  <2>1. new \in 1 .. N + 1 /\ position' \in Positions
    BY <1>2, <1>4, <1>5 DEF Positions
  <2>. QED BY <1>2, <1>4, <1>5, <1>6, <1>7, <1>8, <1>9, <1>11, <2>1 DEF Types, Labels
<1>13. Files'
  BY <1>11 DEF Files, IInv
<1>14. Working'
  BY <1>4, <1>5, <1>8 DEF Working
<1>. QED BY <1>4, <1>9, <1>10, <1>12, <1>13, <1>14 DEF IInv

LEMMA AdvanceKeeps ==
  ASSUME IInv, Advance
  PROVE  IInv' /\ \A t \in time + 1 .. time' - 1 : \A e \in TimeEvents : ~ContainsTime(e, t)
<1>1. /\ Types /\ time \in Nat /\ dt \in Nat /\ tp \in 1 .. N /\ cycle \in Nat
      /\ InItsPeriod(time, tp, position) /\ Fits(time, dt) /\ time < Periods[tp].end
      /\ maxdt \in Nat /\ manual \in 0 .. Len(prescribed) /\ Left(resetInfo, resetMax)
      /\ obs \in Seq(Nat) /\ Ordered(obs, time)
  BY DEF Advance, InPeriod, IInv, Types, Working, Running, InItsPeriod
<1>2. /\ Periods[tp].end \in Nat /\ Periods[tp].start \in Nat /\ N \in Nat
  BY <1>1, PeriodTypes
<1>3. time' = time + dt /\ time' \in Nat /\ time <= time'
  BY <1>1 DEF Advance
<1>4. time' <= Periods[tp].end
  BY <1>1, <1>3, EndIsEvent
<1>5. PICK p \in PKSteps :
        LET g == GetDt(time', resetInfo, resetMax, maxdt, manual, p, FALSE)
        IN /\ TakeDt(g)
           /\ forceVis' = (position' = "end")
           /\ forceCheck' = \/ position' = "end"
                            \/ g.resetInfo # <<>> /\ Head(g.resetInfo).time = time'
           /\ IF g.ok THEN pc' = "vis" /\ cycle' = cycle + 1 /\ vis' = vis
                      ELSE Abort(time', cycle + 1)
  BY DEF Advance
<1>. DEFINE g == GetDt(time', resetInfo, resetMax, maxdt, manual, p, FALSE)
<1>6. /\ g.ok \in BOOLEAN /\ g.dt \in Nat /\ g.maxdt \in Nat /\ g.manual \in 0 .. Len(prescribed)
      /\ Left(g.resetInfo, g.resetMax) /\ Fits(time', g.dt)
  <2>1. p \in Nat /\ FALSE \in BOOLEAN
    BY StepsAssumption
  <2>. QED BY <1>1, <1>3, <2>1, GetDtFits
<1>. HIDE DEF g
<1>7. /\ dt' = g.dt /\ maxdt' = g.maxdt /\ manual' = g.manual
      /\ resetInfo' = g.resetInfo /\ resetMax' = g.resetMax
      /\ forceVis' \in BOOLEAN /\ forceCheck' \in BOOLEAN
      /\ pc' \in {"vis", "error"} /\ cycle' \in Nat
  <2>1. TakeDt(g) /\ forceVis' \in BOOLEAN /\ forceCheck' \in BOOLEAN
    BY <1>5 DEF g
  <2>2. IF g.ok THEN pc' = "vis" /\ cycle' = cycle + 1 /\ vis' = vis ELSE Abort(time', cycle + 1)
    BY <1>5 DEF g
  <2>. QED BY <1>1, <2>1, <2>2 DEF TakeDt, Abort
<1>8. /\ position' = (IF time' = Periods[tp].end THEN "end" ELSE "inside")
      /\ tp' = tp /\ startCycle' = startCycle /\ obs' = obs /\ disk' = disk /\ since' = since
      /\ failures' = failures /\ crashes' = crashes /\ prescribed' = prescribed
  BY DEF Advance
<1>9. Types'
  BY <1>1, <1>3, <1>6, <1>7, <1>8 DEF Types, Labels, Positions
<1>10. Files'
  BY <1>8 DEF Files, IInv
<1>11. InItsPeriod(time', tp', position')
  BY <1>1, <1>2, <1>3, <1>4, <1>8 DEF InItsPeriod
<1>12. Ordered(obs', time')
  BY <1>1, <1>3, <1>8, OrderedLater
<1>13. IInv'
  BY <1>6, <1>7, <1>9, <1>10, <1>11, <1>12 DEF IInv, Working
<1>14. ASSUME NEW t \in time + 1 .. time' - 1, NEW e \in TimeEvents PROVE ~ContainsTime(e, t)
  <2>1. t \in Nat /\ t > time /\ t < time + dt
    BY <1>1, <1>3, <1>14
  <2>2. ContainsTime(e, t) => time + dt <= t
    BY <1>1, <2>1, Zenon DEF Fits
  <2>. QED BY <1>1, <2>1, <2>2
<1>. QED BY <1>13, <1>14

LEMMA AdvanceFailsKeeps == ASSUME IInv, AdvanceFails PROVE IInv'
<1>1. /\ Types /\ time \in Nat /\ dt \in Nat /\ tp \in 1 .. N /\ cycle \in Nat
      /\ InItsPeriod(time, tp, position) /\ time < Periods[tp].end
      /\ maxdt \in Nat /\ manual \in 0 .. Len(prescribed) /\ Left(resetInfo, resetMax)
      /\ failures \in 0 .. MaxFailures /\ failures < MaxFailures
  BY DEF AdvanceFails, InPeriod, IInv, Types, Working, Running, InItsPeriod
<1>2. Periods[tp].end \in Nat /\ MaxFailures \in Nat
  BY <1>1, PeriodTypes, StepsAssumption
<1>3. PICK p \in PKSteps \cup {0} :
        LET g == GetDt(time, resetInfo, resetMax, maxdt, manual, p, TRUE)
        IN /\ TakeDt(g)
           /\ IF g.ok THEN pc' = pc /\ cycle' = cycle /\ vis' = vis
                      ELSE Abort(time, cycle)
  BY DEF AdvanceFails
<1>. DEFINE g == GetDt(time, resetInfo, resetMax, maxdt, manual, p, TRUE)
<1>4. /\ g.ok \in BOOLEAN /\ g.dt \in Nat /\ g.maxdt \in Nat /\ g.manual \in 0 .. Len(prescribed)
      /\ Left(g.resetInfo, g.resetMax) /\ Fits(time, g.dt)
  <2>1. p \in Nat /\ TRUE \in BOOLEAN
    BY StepsAssumption
  <2>. QED BY <1>1, <2>1, GetDtFits
<1>. HIDE DEF g
<1>5. /\ dt' = g.dt /\ maxdt' = g.maxdt /\ manual' = g.manual
      /\ resetInfo' = g.resetInfo /\ resetMax' = g.resetMax
      /\ pc' \in Labels /\ cycle' \in Nat
  <2>1. TakeDt(g)
    BY <1>3 DEF g
  <2>2. IF g.ok THEN pc' = pc /\ cycle' = cycle ELSE pc' = "error" /\ cycle' = cycle + 1
    BY <1>3 DEF g, Abort
  <2>. QED BY <1>1, <2>1, <2>2 DEF TakeDt, Types, Labels
<1>6. /\ position' = "inside" /\ time' = time /\ failures' = failures + 1
      /\ tp' = tp /\ startCycle' = startCycle /\ obs' = obs /\ disk' = disk
      /\ forceVis' = forceVis /\ forceCheck' = forceCheck /\ since' = since
      /\ crashes' = crashes /\ prescribed' = prescribed
  BY DEF AdvanceFails
<1>7. failures' \in 0 .. MaxFailures
  BY <1>1, <1>2, <1>6
<1>8. Types'
  BY <1>1, <1>4, <1>5, <1>6, <1>7 DEF Types, Positions
<1>9. Files' /\ Ordered(obs', time')
  BY <1>6 DEF Files, IInv
<1>10. InItsPeriod(time', tp', position')
  BY <1>1, <1>2, <1>6 DEF InItsPeriod
<1>. QED BY <1>4, <1>5, <1>6, <1>8, <1>9, <1>10 DEF IInv, Working

LEMMA NextPeriodKeeps == ASSUME IInv, NextPeriod PROVE IInv'
<1>. DEFINE now == Periods[tp + 1].start
            seen == Observed(obs, cycle, now)
<1>1. /\ Types /\ time \in Nat /\ tp \in 1 .. N /\ tp < N /\ cycle \in Nat
      /\ InItsPeriod(time, tp, position) /\ manual \in 0 .. Len(prescribed)
      /\ Left(resetInfo, resetMax) /\ obs \in Seq(Nat) /\ Ordered(obs, time)
  BY DEF NextPeriod, StartPeriod, IInv, Types, Working, Running, InItsPeriod
<1>2. /\ N \in Nat /\ tp + 1 \in 1 .. N /\ now \in Nat /\ Periods[tp + 1].maxdt \in Nat
      /\ Periods[tp + 1].end \in Nat /\ now < Periods[tp + 1].end /\ Periods[tp].end <= now
      /\ Periods[tp].end \in Nat
  <2>1. N \in Nat /\ tp + 1 \in 1 .. N /\ tp < tp + 1
    BY <1>1, PeriodTypes
  <2>. QED BY <1>1, <2>1, PeriodTypes
<1>3. PICK p \in PKSteps :
        LET g == GetDt(now, resetInfo, resetMax, Periods[tp'].maxdt, manual, p, FALSE)
            vis1 == IF FieldsDiffer THEN vis \cup {<<now, cycle>>} ELSE vis
        IN /\ TakeDt(g)
           /\ IF g.ok THEN pc' = pc /\ cycle' = cycle /\ vis' = vis1
              ELSE pc' = "error" /\ cycle' = cycle + 1
                   /\ vis' = vis1 \cup {<<now, cycle + 1>>}
  BY DEF NextPeriod, StartPeriod
<1>4. /\ tp' = tp + 1 /\ time' = now /\ position' = "start" /\ startCycle' = cycle
      /\ obs' = seen /\ forceVis' = forceVis /\ forceCheck' = forceCheck /\ disk' = disk
      /\ since' = since /\ failures' = failures /\ crashes' = crashes /\ prescribed' = prescribed
  BY DEF NextPeriod, StartPeriod
<1>. DEFINE g == GetDt(now, resetInfo, resetMax, Periods[tp'].maxdt, manual, p, FALSE)
<1>5. /\ g.ok \in BOOLEAN /\ g.dt \in Nat /\ g.maxdt \in Nat /\ g.manual \in 0 .. Len(prescribed)
      /\ Left(g.resetInfo, g.resetMax) /\ Fits(now, g.dt)
  <2>1. p \in Nat /\ FALSE \in BOOLEAN /\ Periods[tp'].maxdt \in Nat
    BY <1>2, <1>4, StepsAssumption
  <2>. HIDE DEF now
  <2>. QED BY <1>1, <1>2, <2>1, GetDtFits
<1>. HIDE DEF g
<1>6. /\ dt' = g.dt /\ maxdt' = g.maxdt /\ manual' = g.manual
      /\ resetInfo' = g.resetInfo /\ resetMax' = g.resetMax
      /\ pc' \in Labels /\ cycle' \in Nat
  <2>1. TakeDt(g)
    BY <1>3 DEF g
  <2>2. IF g.ok THEN pc' = pc /\ cycle' = cycle ELSE pc' = "error" /\ cycle' = cycle + 1
    BY <1>3 DEF g
  <2>. QED BY <1>1, <2>1, <2>2 DEF TakeDt, Types, Labels
<1>7. seen \in Seq(Nat) /\ Ordered(seen, now)
  <2>. HIDE DEF now
  <2>1. time <= now
    BY <1>1, <1>2 DEF InItsPeriod
  <2>2. Ordered(obs, now)
    BY <1>1, <1>2, <2>1, OrderedLater
  <2>. QED BY <1>1, <1>2, <2>2, ObservedInOrderStill
<1>. HIDE DEF now, seen
<1>8. Types'
  BY <1>1, <1>2, <1>4, <1>5, <1>6, <1>7 DEF Types, Positions
<1>9. Files'
  BY <1>4 DEF Files, IInv
<1>10. InItsPeriod(time', tp', position')
  BY <1>2, <1>4 DEF InItsPeriod, now
<1>. QED BY <1>4, <1>5, <1>6, <1>7, <1>8, <1>9, <1>10 DEF IInv, Working

LEMMA FinishKeeps == ASSUME IInv, Finish PROVE IInv'
<1>1. N + 1 \in 1 .. N + 1
  BY PeriodTypes
<1>2. pc' = "done" /\ tp' = N + 1
      /\ UNCHANGED <<time, cycle, position, dt, maxdt, startCycle, resetInfo, resetMax,
                     manual, forceVis, forceCheck, obs, disk, vis, since, failures, crashes,
                     prescribed>>
  BY DEF Finish
<1>3. Types'
  BY <1>1, <1>2 DEF IInv, Types, Labels
<1>. QED BY <1>2, <1>3 DEF IInv, Files, Working, Running

LEMMA VisualizeKeeps == ASSUME IInv, Visualize PROVE IInv'
<1>1. pc = "vis" /\ pc' = "obs" /\ UNCHANGED <<memory, disk, since, failures, crashes, prescribed>>
  BY DEF Visualize
<1>2. Types'
  BY <1>1 DEF IInv, Types, Labels, memory
<1>. QED BY <1>1, <1>2 DEF IInv, Files, Working, Running, memory

LEMMA ObserveKeeps == ASSUME IInv, Observe PROVE IInv'
<1>1. /\ pc = "obs" /\ pc' = "check" /\ obs' = Observed(obs, cycle, time)
      /\ UNCHANGED <<time, cycle, position, tp, dt, maxdt, startCycle, resetInfo, resetMax,
                     manual, forceVis, forceCheck, disk, vis, since, failures, crashes,
                     prescribed>>
  BY DEF Observe
<1>2. obs' \in Seq(Nat) /\ Ordered(obs', time)
  BY <1>1, ObservedInOrderStill DEF IInv, Types
<1>3. Types'
  BY <1>1, <1>2 DEF IInv, Types, Labels
<1>. QED BY <1>1, <1>2, <1>3 DEF IInv, Files, Working, Running

LEMMA CreateFileKeeps == ASSUME IInv, CreateFile PROVE IInv'
<1>1. /\ pc = "check" /\ pc' \in {"write", "loop"}
      /\ disk' = [c \in DOMAIN disk \ {cycle} |-> disk[c]] \/ disk' = disk
      /\ UNCHANGED <<memory, vis, since, failures, crashes, prescribed>>
  BY DEF CreateFile
<1>2. Types'
  BY <1>1 DEF IInv, Types, Labels, memory
<1>3. Files'
  BY <1>1 DEF IInv, Files
<1>. QED BY <1>1, <1>2, <1>3 DEF IInv, Working, Running, memory

LEMMA WriteCheckpointKeeps == ASSUME IInv, WriteCheckpoint PROVE IInv'
<1>1. /\ pc = "write" /\ pc' = "loop"
      /\ disk' = [c \in {cycle} \cup DOMAIN disk |-> IF c = cycle THEN Contents ELSE disk[c]]
      /\ UNCHANGED <<memory, vis, since, failures, crashes, prescribed>>
  BY DEF WriteCheckpoint
<1>2. Types'
  BY <1>1 DEF IInv, Types, Labels, memory
<1>3. /\ Contents \in File /\ Contents.cycle = cycle
      /\ InItsPeriod(Contents.time, Contents.tp, Contents.position)
      /\ Ordered(Contents.obs, Contents.time)
  BY <1>1 DEF Contents, File, IInv, Types, Working, Running, InItsPeriod
<1>4. DOMAIN disk' = {cycle} \cup DOMAIN disk
      /\ \A c \in DOMAIN disk' : disk'[c] = IF c = cycle THEN Contents ELSE disk[c]
  BY <1>1
<1>5. Files'
  BY <1>3, <1>4 DEF IInv, Files
<1>. QED BY <1>1, <1>2, <1>5 DEF IInv, Working, Running, memory

LEMMA CrashKeeps == ASSUME IInv, Crash PROVE IInv'
<1>1. /\ pc' = "down" /\ crashes < MaxCrashes /\ crashes' = crashes + 1
      /\ UNCHANGED <<disk, vis, since, failures, prescribed>>
  BY DEF Crash
<1>2. /\ time' = 0 /\ cycle' = 0 /\ position' = "start" /\ tp' = 1 /\ dt' = 0 /\ maxdt' = 0
      /\ startCycle' = 0 /\ resetInfo' = <<>> /\ resetMax' = <<>> /\ manual' = 0
      /\ forceVis' = FALSE /\ forceCheck' = FALSE /\ obs' = <<>>
  BY DEF Crash, Load, Blank
<1>3. 1 \in 1 .. N + 1 /\ 0 \in 0 .. Len(prescribed) /\ crashes' \in 0 .. MaxCrashes
  <2>1. N \in Nat /\ MaxCrashes \in Nat
    BY PeriodTypes, StepsAssumption
  <2>. QED BY <1>1, <2>1, PrescribedType DEF IInv, Types
<1>4. Types'
  BY <1>1, <1>2, <1>3, NothingObserved DEF IInv, Types, Labels, Positions
<1>5. Left(<<>>, <<>>)
  BY ResetTypes DEF Left
<1>6. Files'
  BY <1>1 DEF IInv, Files
<1>. QED BY <1>1, <1>2, <1>4, <1>5, <1>6, NothingObserved DEF IInv, Working, Running

LEMMA StepKeeps == IInv /\ [Next]_vars => IInv'
<1>. SUFFICES ASSUME IInv, [Next]_vars PROVE IInv'
  OBVIOUS
<1>1. CASE Start
  BY <1>1, StartKeeps
<1>2. CASE \E c \in DOMAIN disk : Restart(c)
  BY <1>2, RestartKeeps
<1>3. CASE Advance
  BY <1>3, AdvanceKeeps
<1>4. CASE AdvanceFails
  BY <1>4, AdvanceFailsKeeps
<1>5. CASE NextPeriod
  BY <1>5, NextPeriodKeeps
<1>6. CASE Finish
  BY <1>6, FinishKeeps
<1>7. CASE Visualize
  BY <1>7, VisualizeKeeps
<1>8. CASE Observe
  BY <1>8, ObserveKeeps
<1>9. CASE CreateFile
  BY <1>9, CreateFileKeeps
<1>10. CASE WriteCheckpoint
  BY <1>10, WriteCheckpointKeeps
<1>11. CASE Crash
  BY <1>11, CrashKeeps
<1>12. CASE UNCHANGED vars
  BY <1>12 DEF vars, memory, IInv, Types, Files, Working
<1>. QED BY <1>1, <1>2, <1>3, <1>4, <1>5, <1>6, <1>7, <1>8, <1>9, <1>10, <1>11, <1>12 DEF Next, Run

LEMMA IInvHolds == Spec => []IInv
  BY Initially, StepKeeps, PTL DEF Spec

-----------------------------------------------------------------------------
(* The theorems that follow from IInv                                      *)

\* Every variable of the driver keeps its type.
THEOREM TypeCorrect == Spec => []TypeOK
<1>1. IInv => TypeOK
  <2>. SUFFICES ASSUME IInv PROVE TypeOK
    OBVIOUS
  <2>1. \A i \in DOMAIN obs : obs[i] \in Nat
    <3>1. obs \in Seq(Nat)
      BY DEF IInv, Types
    <3>. QED BY <3>1
  <2>2. \A c \in DOMAIN disk : disk[c].cycle = c
    BY DEF IInv, Files
  <2>3. Len(resetInfo) <= Len(Resets) /\ Len(resetMax) <= Len(ResetMaxs)
    BY DEF IInv, Left
  <2>. QED BY <2>1, <2>2, <2>3 DEF IInv, Types, Positions, TypeOK
<1>. QED BY <1>1, IInvHolds, PTL

\* The driver works in a period that contains the time, after failures, periods
\* cut short and restarts as well.
THEOREM TimeStaysInPeriod == Spec => []TimeIsInPeriod
<1>1. IInv => TimeIsInPeriod
  <2>1. N \in Nat
    BY PeriodTypes
  <2>. QED BY <2>1 DEF IInv, Working, Running, InItsPeriod, TimeIsInPeriod
<1>. QED BY <1>1, IInvHolds, PTL

\* For any number of periods, a restart from any file finds its period.
THEOREM RestartIsInPeriod == Spec => []RestartFindsPeriod
<1>1. IInv => RestartFindsPeriod
  BY PeriodIsFound DEF IInv, Files, RestartFindsPeriod
<1>. QED BY <1>1, IInvHolds, PTL

\* However often the run is restarted and from whichever file, observations stay
\* in the order of time.
THEOREM ObservationsInOrder == Spec => []ObservedInOrder
<1>1. IInv => ObservedInOrder
  BY DEF IInv, Ordered, ObservedInOrder
<1>. QED BY <1>1, IInvHolds, PTL

\* No step passes over an event, whatever the PKs ask for and refuse.
THEOREM EventsAreHit == Spec => NoEventSteppedOver
<1>. DEFINE Hit == pc = "loop" /\ time' # time /\ tp' = tp =>
                     \A t \in time + 1 .. time' - 1 : \A e \in TimeEvents : ~ContainsTime(e, t)
<1>1. ASSUME IInv, [Next]_vars PROVE [Hit]_vars
  <2>. SUFFICES ASSUME pc = "loop", time' # time, tp' = tp, Next
                PROVE  \A t \in time + 1 .. time' - 1 : \A e \in TimeEvents : ~ContainsTime(e, t)
    BY <1>1
  <2>1. CASE Advance
    BY <1>1, <2>1, AdvanceKeeps
  <2>2. ~NextPeriod
    <3>1. tp \in Nat /\ tp # tp + 1
      BY <1>1, PeriodTypes DEF IInv, Types
    <3>2. ASSUME NextPeriod PROVE tp' = tp + 1
      BY <3>2 DEF NextPeriod, StartPeriod
    <3>. QED BY <3>1, <3>2
  <2>3. ~Start /\ ~(\E c \in DOMAIN disk : Restart(c))
    BY DEF Start, Restart
  <2>4. CASE Crash
    <3>1. time' = 0 /\ time \in Nat
      BY <1>1, <2>4 DEF Crash, Load, Blank, IInv, Types
    <3>. QED BY <3>1
  <2>5. AdvanceFails \/ Finish \/ Visualize \/ Observe \/ CreateFile \/ WriteCheckpoint
          => time' = time
    BY DEF AdvanceFails, Finish, Visualize, Observe, CreateFile, WriteCheckpoint, memory
  <2>. QED BY <2>1, <2>2, <2>3, <2>4, <2>5 DEF Next, Run
<1>. QED BY <1>1, IInvHolds, PTL DEF Spec, NoEventSteppedOver

-----------------------------------------------------------------------------
(* Output that is due                                                      *)

\* A time at which an observation is due: in a period that runs to its end, its
\* start included.
Observable(x) ==
  \E i \in 1 .. N : Periods[i].cycles = None /\ Periods[i].start <= x /\ x <= Periods[i].end

\* Every dump due from b on and before t is among v, every observation due before
\* t in s.
Dumped(v, b, t) ==
  \A e \in VisTimes : \A x \in b .. t - 1 :
    ContainsTime(e, x) /\ Due(x) => \E d \in v : d[1] = x

SeenBefore(s, t) ==
  \A e \in ObsTimes : \A x \in 0 .. t - 1 :
    ContainsTime(e, x) /\ Observable(x) => x \in ToSet(s)

\* What is due up to now has been made, unless it is about to be.
MadeSoFar ==
  pc \in Running =>
    /\ Dumped(vis, since, IF pc = "vis" THEN time ELSE time + 1)
    /\ SeenBefore(obs, IF pc \in {"vis", "obs"} THEN time ELSE time + 1)

\* A file holds every observation due up to its time.
FilesAreBehind == \A c \in DOMAIN disk : SeenBefore(disk[c].obs, disk[c].time + 1)

EverythingMade ==
  Dumped(vis, since, Periods[N].end + 1) /\ SeenBefore(obs, Periods[N].end + 1)

OInv ==
  /\ MadeSoFar
  /\ FilesAreBehind
  /\ pc = "done" => EverythingMade

-----------------------------------------------------------------------------
(* Reset times in a run without a restart                                  *)

\* Every reset time is one the driver can reach: it is the start of a period,
\* or in a period that runs to its end, and no two are the same.
ResetsAreReached ==
  /\ \A i, j \in DOMAIN Resets : i < j => Resets[i].time < Resets[j].time
  /\ \A k \in DOMAIN Resets : \E i \in 1 .. N :
       \/ Resets[k].time = Periods[i].start
       \/ /\ Periods[i].cycles = None
          /\ Periods[i].start <= Resets[k].time /\ Resets[k].time <= Periods[i].end

\* A limit belongs to a reset time, and no period that starts later allows more.
LimitsGoOn ==
  \A k \in DOMAIN ResetMaxs :
    /\ ResetMaxs[k].time = Resets[k].time
    /\ \A i \in 2 .. N : ResetMaxs[k].time <= Periods[i].start =>
                           Periods[i].maxdt <= ResetMaxs[k].dt

\* What is left is the end of the list, with u entries used.
EndOfList(info, maxs, u) ==
  /\ u \in 0 .. Len(Resets) /\ Len(info) = Len(Resets) - u
  /\ \A i \in 1 .. Len(info) : info[i] = Resets[u + i]
  /\ Len(maxs) = (IF ResetMaxs = <<>> THEN 0 ELSE Len(info))
  /\ \A i \in 1 .. Len(maxs) : maxs[i] = ResetMaxs[u + i]

\* The u entries used are of times up to t, the others of times from t2 on.
SplitAt(u, t, t2) ==
  /\ \A i \in 1 .. u : Resets[i].time <= t
  /\ \A i \in u + 1 .. Len(Resets) : Resets[i].time >= t2

\* The limit of the last entry used is in force.
LimitHolds(u, max) == u > 0 /\ ResetMaxs # <<>> /\ LimitsGoOn => max <= ResetMaxs[u].dt

\* Before the first restart: what is left has not been reached, and the step
\* keeps the limit.
Clean(info, maxs, t, d, max) ==
  \E u \in 0 .. Len(Resets) :
    EndOfList(info, maxs, u) /\ SplitAt(u, t, t + 1) /\ LimitHolds(u, max) /\ d <= max

RInv ==
  /\ pc = "down" => crashes > 0
  /\ ResetsAreReached /\ crashes = 0 /\ pc \in Running =>
       Clean(resetInfo, resetMax, time, dt, maxdt)

-----------------------------------------------------------------------------
(* Output                                                                  *)

LEMMA BeforeIs ==
  ASSUME NEW b \in Nat, NEW t \in Nat
  PROVE  /\ \A v : Dumped(v, b, t) <=>
              \A e \in VisTimes : \A x \in Nat :
                b <= x /\ x < t /\ ContainsTime(e, x) /\ Due(x) => \E d \in v : d[1] = x
         /\ \A s : SeenBefore(s, t) <=>
              \A e \in ObsTimes : \A x \in Nat :
                x < t /\ ContainsTime(e, x) /\ Observable(x) => x \in ToSet(s)
<1>1. \A x : x \in 0 .. t - 1 <=> x \in Nat /\ x < t
  OBVIOUS
<1>2. \A x : x \in b .. t - 1 <=> x \in Nat /\ b <= x /\ x < t
  OBVIOUS
<1>. QED BY <1>1, <1>2 DEF Dumped, SeenBefore

LEMMA MoreIsDumped ==
  ASSUME NEW v, NEW w, v \subseteq w, NEW b, NEW t, Dumped(v, b, t)
  PROVE  Dumped(w, b, t)
  BY DEF Dumped

LEMMA DumpedTillNow ==
  ASSUME NEW v, NEW b \in Nat, NEW t \in Nat, NEW c, Dumped(v, b, t),
         DumpRequested(VisCycles, VisTimes, c, t) => <<t, c>> \in v
  PROVE  Dumped(v, b, t + 1)
<1>. SUFFICES ASSUME NEW e \in VisTimes, NEW x \in b .. t + 1 - 1, ContainsTime(e, x), Due(x)
              PROVE  \E d \in v : d[1] = x
  BY DEF Dumped
<1>1. CASE x = t
  <2>1. DumpRequested(VisCycles, VisTimes, c, t)
    BY <1>1 DEF DumpRequested
  <2>. QED BY <1>1, <2>1
<1>2. CASE x # t
  <2>1. x \in b .. t - 1
    BY <1>2
  <2>. QED BY <2>1 DEF Dumped
<1>. QED BY <1>1, <1>2

LEMMA SeenTillNow ==
  ASSUME NEW s \in Seq(Nat), NEW t \in Nat, NEW c, SeenBefore(s, t)
  PROVE  SeenBefore(Observed(s, c, t), t + 1)
<1>1. ToSet(s) \subseteq ToSet(Observed(s, c, t))
  <2>1. CASE Observed(s, c, t) = s
    BY <2>1
  <2>2. CASE Observed(s, c, t) = Append(s, t)
    BY <2>2 DEF ToSet
  <2>. QED BY <2>1, <2>2 DEF Observed
<1>2. ASSUME DumpRequested(ObsCycles, ObsTimes, c, t) PROVE t \in ToSet(Observed(s, c, t))
  <2>1. CASE t \in ToSet(s)
    BY <1>1, <2>1
  <2>2. CASE t \notin ToSet(s)
    <3>1. Observed(s, c, t) = Append(s, t)
      BY <1>2, <2>2 DEF Observed
    <3>2. Len(s) + 1 \in DOMAIN Append(s, t) /\ Append(s, t)[Len(s) + 1] = t
      OBVIOUS
    <3>. QED BY <3>1, <3>2 DEF ToSet
  <2>. QED BY <2>1, <2>2
<1>. SUFFICES ASSUME NEW e \in ObsTimes, NEW x \in 0 .. t + 1 - 1, ContainsTime(e, x), Observable(x)
              PROVE  x \in ToSet(Observed(s, c, t))
  BY DEF SeenBefore
<1>3. CASE x = t
  <2>1. DumpRequested(ObsCycles, ObsTimes, c, t)
    BY <1>3 DEF DumpRequested
  <2>. QED BY <1>2, <1>3, <2>1
<1>4. CASE x # t
  <2>1. x \in 0 .. t - 1
    BY <1>4
  <2>. QED BY <1>1, <2>1 DEF SeenBefore
<1>. QED BY <1>3, <1>4

\* Before the first period nothing is due.
LEMMA NothingDueAtFirst == \A s : SeenBefore(s, Periods[1].start)
<1>1. ASSUME NEW x \in 0 .. Periods[1].start - 1 PROVE ~Observable(x)
  <2>1. ASSUME NEW i \in 1 .. N PROVE Periods[1].start <= Periods[i].start /\ Periods[i].start \in Nat
    <3>1. 1 \in 1 .. N /\ Periods[1].start \in Nat /\ Periods[1].end \in Nat /\ Periods[i].start \in Nat
          /\ Periods[1].start < Periods[1].end
      BY <2>1, PeriodTypes
    <3>2. i = 1 \/ Periods[1].end <= Periods[i].start
      BY <2>1, <3>1, PeriodTypes
    <3>. QED BY <3>1, <3>2
  <2>2. 1 \in 1 .. N /\ Periods[1].start \in Nat /\ DOMAIN Periods = 1 .. N
    BY PeriodTypes
  <2>3. \A i \in 1 .. N : ~(Periods[i].start <= x)
    BY <1>1, <2>1, <2>2
  <2>. QED BY <2>3 DEF Observable
<1>. QED BY <1>1 DEF SeenBefore

\* Between the time a period ended, or was cut short, and the start of the next
\* one nothing is due.
LEMMA NothingDueBetween ==
  ASSUME NEW i \in 1 .. N, i < N, NEW t \in Nat, Periods[i].start <= t,
         Periods[i].cycles = None => t >= Periods[i].end
  PROVE  LET now == Periods[i + 1].start
         IN /\ \A v : \A b \in Nat : Dumped(v, b, t + 1) => Dumped(v, b, now + 1)
            /\ \A s : SeenBefore(s, t + 1) => SeenBefore(s, now)
<1>. DEFINE now == Periods[i + 1].start
<1>1. /\ DOMAIN Periods = 1 .. N /\ N \in Nat /\ i + 1 \in 1 .. N /\ now \in Nat
      /\ Periods[i].start \in Nat /\ Periods[i].end \in Nat
      /\ \A j \in 1 .. N : Periods[j].start \in Nat /\ Periods[j].end \in Nat
                           /\ Periods[j].start < Periods[j].end
  BY PeriodTypes
<1>2. ASSUME NEW j \in 1 .. N, j < i PROVE Periods[j].end <= t
  <2>1. Periods[j].end <= Periods[i].start
    BY <1>2, PeriodTypes
  <2>. QED BY <1>1, <2>1
<1>3. ASSUME NEW j \in 1 .. N, j > i PROVE now <= Periods[j].start
  <2>1. CASE j = i + 1
    BY <1>1, <2>1
  <2>2. CASE j # i + 1
    <3>1. i + 1 < j
      BY <1>1, <1>3, <2>2
    <3>2. Periods[i + 1].end <= Periods[j].start
      BY <1>1, <3>1, PeriodsInOrder
    <3>. QED BY <1>1, <3>2
  <2>. QED BY <2>1, <2>2
<1>. HIDE DEF now
<1>4. ASSUME NEW x \in Nat, t < x, x <= now PROVE ~Due(x)
  <2>. SUFFICES ASSUME NEW j \in 1 .. N, Periods[j].cycles = None, x <= Periods[j].end,
                       Periods[j].start < x \/ (j = 1 /\ Periods[j].start = x)
                PROVE  FALSE
    BY <1>1 DEF Due
  <2>1. ~(j < i)
    BY <1>1, <1>2, <1>4
  <2>2. j # i
    BY <1>1, <1>4
  <2>3. ~(j > i)
    BY <1>1, <1>3, <1>4
  <2>. QED BY <2>1, <2>2, <2>3
<1>5. ASSUME NEW x \in Nat, t < x, x < now PROVE ~Observable(x)
  <2>. SUFFICES ASSUME NEW j \in 1 .. N, Periods[j].cycles = None, x <= Periods[j].end,
                       Periods[j].start <= x
                PROVE  FALSE
    BY <1>1 DEF Observable
  <2>1. ~(j < i)
    BY <1>1, <1>2, <1>5
  <2>2. j # i
    BY <1>1, <1>5
  <2>3. ~(j > i)
    BY <1>1, <1>3, <1>5
  <2>. QED BY <2>1, <2>2, <2>3
<1>6. ASSUME NEW v, NEW b \in Nat, Dumped(v, b, t + 1) PROVE Dumped(v, b, now + 1)
  <2>1. ASSUME NEW e \in VisTimes, NEW x \in Nat, b <= x, x < now + 1, ContainsTime(e, x), Due(x)
        PROVE  \E d \in v : d[1] = x
    <3>1. x < t + 1 /\ t + 1 \in Nat
      BY <1>1, <1>4, <2>1
    <3>. QED BY <1>6, <2>1, <3>1, BeforeIs
  <2>2. now + 1 \in Nat
    BY <1>1
  <2>. QED BY <2>1, <2>2, BeforeIs
<1>7. ASSUME NEW s, SeenBefore(s, t + 1) PROVE SeenBefore(s, now)
  <2>1. ASSUME NEW x \in 0 .. now - 1, Observable(x) PROVE x \in 0 .. t + 1 - 1
    BY <1>1, <1>5, <2>1
  <2>. QED BY <1>7, <2>1 DEF SeenBefore
<1>. QED BY <1>6, <1>7 DEF now

\* A step that fits passes over nothing that is due.
LEMMA NothingDueWithin ==
  ASSUME NEW t \in Nat, NEW d \in Nat, Fits(t, d)
  PROVE  /\ \A v : \A b \in Nat : Dumped(v, b, t + 1) => Dumped(v, b, t + d)
         /\ \A s : SeenBefore(s, t + 1) => SeenBefore(s, t + d)
<1>1. VisTimes \subseteq TimeEvents /\ ObsTimes \subseteq TimeEvents
  BY DEF TimeEvents
<1>2. ASSUME NEW e \in TimeEvents, NEW x \in 0 .. t + d - 1, ContainsTime(e, x)
      PROVE  x <= t
  <2>1. ~(x > t)
    BY <1>2 DEF Fits
  <2>. QED BY <1>2, <2>1
<1>3. ASSUME NEW v, NEW b \in Nat, Dumped(v, b, t + 1) PROVE Dumped(v, b, t + d)
  <2>1. ASSUME NEW e \in VisTimes, NEW x \in b .. t + d - 1, ContainsTime(e, x)
        PROVE  x \in b .. t + 1 - 1
    <3>1. x \in 0 .. t + d - 1
      OBVIOUS
    <3>. QED BY <1>1, <1>2, <2>1, <3>1
  <2>. QED BY <1>3, <2>1 DEF Dumped
<1>4. ASSUME NEW s, SeenBefore(s, t + 1) PROVE SeenBefore(s, t + d)
  <2>1. ASSUME NEW e \in ObsTimes, NEW x \in 0 .. t + d - 1, ContainsTime(e, x)
        PROVE  x \in 0 .. t + 1 - 1
    BY <1>1, <1>2, <2>1
  <2>. QED BY <1>4, <2>1 DEF SeenBefore
<1>. QED BY <1>3, <1>4

\* When the last period is over nothing more is due.
LEMMA NothingDueAfter ==
  ASSUME NEW t \in Nat, Periods[N].start <= t, Periods[N].cycles = None => t >= Periods[N].end,
         since \in Nat, Dumped(vis, since, t + 1), SeenBefore(obs, t + 1)
  PROVE  EverythingMade
<1>1. /\ DOMAIN Periods = 1 .. N /\ N \in 1 .. N
      /\ \A j \in 1 .. N : Periods[j].start \in Nat /\ Periods[j].end \in Nat
  BY PeriodTypes
<1>2. ASSUME NEW j \in 1 .. N, Periods[j].cycles = None PROVE Periods[j].end <= t
  <2>1. CASE j = N
    BY <1>1, <1>2, <2>1
  <2>2. CASE j # N
    <3>1. j < N
      BY <1>1, <2>2
    <3>2. Periods[j].end <= Periods[N].start
      BY <1>1, <3>1, PeriodsInOrder
    <3>. QED BY <1>1, <3>2
  <2>. QED BY <2>1, <2>2
<1>3. ASSUME NEW e \in VisTimes, NEW x \in Nat, since <= x, ContainsTime(e, x), Due(x)
      PROVE  \E d \in vis : d[1] = x
  <2>1. PICK j \in 1 .. N : Periods[j].cycles = None /\ x <= Periods[j].end
    BY <1>1, <1>3 DEF Due
  <2>2. x < t + 1 /\ t + 1 \in Nat
    BY <1>1, <1>2, <2>1
  <2>. QED BY <1>3, <2>2, BeforeIs
<1>4. ASSUME NEW e \in ObsTimes, NEW x \in Nat, ContainsTime(e, x), Observable(x)
      PROVE  x \in ToSet(obs)
  <2>1. PICK j \in 1 .. N : Periods[j].cycles = None /\ x <= Periods[j].end
    BY <1>4 DEF Observable
  <2>2. x < t + 1 /\ t + 1 \in Nat
    BY <1>1, <1>2, <2>1
  <2>. QED BY <1>4, <2>2, BeforeIs
<1>5. Periods[N].end + 1 \in Nat
  BY <1>1
<1>. QED BY <1>3, <1>4, <1>5, BeforeIs DEF EverythingMade

\* Files that stay are still behind.
LEMMA FilesStay ==
  ASSUME FilesAreBehind, DOMAIN disk' \subseteq DOMAIN disk,
         \A c \in DOMAIN disk' : disk'[c] = disk[c]
  PROVE  FilesAreBehind'
<1>. SUFFICES ASSUME NEW c \in DOMAIN disk' PROVE SeenBefore(disk'[c].obs, disk'[c].time + 1)
  BY DEF FilesAreBehind, SeenBefore, Observable
<1>1. c \in DOMAIN disk /\ disk'[c] = disk[c]
  OBVIOUS
<1>. QED BY <1>1 DEF FilesAreBehind

\* A process that has just begun has nothing to dump yet.
LEMMA NothingToDumpYet == ASSUME NEW v, NEW t \in Nat PROVE Dumped(v, t, t)
  BY DEF Dumped


-----------------------------------------------------------------------------
(* The steps, for what is due                                              *)

LEMMA StartIsBehind == ASSUME IInv, OInv, Start PROVE OInv'
<1>1. since' = time' /\ disk' = disk /\ pc' \in {"vis", "error"}
  BY DEF Start
<1>2. time' = Periods[1].start /\ obs' = <<>> /\ Periods[1].start \in Nat
  BY PeriodTypes DEF Start, Load, Blank
<1>3. MadeSoFar'
  <2>1. Dumped(vis', since', time') /\ SeenBefore(obs', time')
    BY <1>1, <1>2, NothingDueAtFirst, NothingToDumpYet
  <2>. QED BY <1>1, <2>1 DEF MadeSoFar, Running
<1>4. FilesAreBehind'
  BY <1>1, FilesStay DEF OInv
<1>. QED BY <1>1, <1>3, <1>4 DEF OInv

LEMMA RestartIsBehind == ASSUME IInv, OInv, NEW c \in DOMAIN disk, Restart(c) PROVE OInv'
<1>. DEFINE file == disk[c]
            old == file.tp
            turn == file.position = "end" /\ old < N
            now == IF turn THEN Periods[old + 1].start ELSE file.time
            seen == IF turn THEN Observed(file.obs, file.cycle, now) ELSE file.obs
<1>1. /\ file \in File /\ InItsPeriod(file.time, file.tp, file.position)
      /\ PeriodOf(file) = old /\ old \in 1 .. N /\ file.time \in Nat /\ file.obs \in Seq(Nat)
  BY PeriodIsFound DEF IInv, Files, File
<1>2. time' = now /\ obs' = seen
  <2>1. ReadCheckpoint(file).obs = file.obs /\ ReadCheckpoint(file).cycle = file.cycle
    BY DEF ReadCheckpoint, Blank
  <2>. QED BY <1>1, <2>1 DEF Restart, Load, ReadCheckpoint, Blank
<1>3. since' = now /\ disk' = disk /\ pc' \in {"vis", "error"}
  BY <1>1 DEF Restart
<1>4. SeenBefore(file.obs, file.time + 1)
  BY DEF OInv, FilesAreBehind
<1>5. SeenBefore(seen, now) /\ now \in Nat
  <2>1. CASE turn
    <3>1. Periods[old].start <= file.time /\ file.time = Periods[old].end
      BY <1>1, <2>1 DEF InItsPeriod
    <3>2. SeenBefore(file.obs, now) /\ now \in Nat
      <4>1. old + 1 \in 1 .. N /\ old \in Nat /\ Periods[old + 1].start \in Nat /\ Periods[old].end \in Nat
        BY <1>1, <2>1, PeriodTypes
      <4>2. file.time >= Periods[old].end
        BY <1>1, <3>1
      <4>. QED BY <1>1, <1>4, <2>1, <3>1, <4>1, <4>2, NothingDueBetween
    <3>3. SeenBefore(Observed(file.obs, file.cycle, now), now + 1)
      <4>. HIDE DEF now, file
      <4>. QED BY <1>1, <3>2, SeenTillNow
    <3>4. SeenBefore(seen, now + 1)
      BY <2>1, <3>3
    <3>. HIDE DEF now, seen
    <3>. QED BY <3>2, <3>4 DEF SeenBefore
  <2>2. CASE ~turn
    <3>1. now = file.time /\ seen = file.obs
      BY <2>2
    <3>. HIDE DEF now, seen, file
    <3>. QED BY <1>1, <1>4, <3>1 DEF SeenBefore
  <2>. QED BY <2>1, <2>2
<1>. HIDE DEF now, seen
<1>6. MadeSoFar'
  <2>1. Dumped(vis', since', time') /\ SeenBefore(obs', time')
    BY <1>2, <1>3, <1>5, NothingToDumpYet
  <2>. QED BY <1>3, <2>1 DEF MadeSoFar, Running
<1>7. FilesAreBehind'
  BY <1>3, FilesStay DEF OInv
<1>. QED BY <1>3, <1>6, <1>7 DEF OInv

LEMMA AdvanceIsBehind == ASSUME IInv, OInv, Advance PROVE OInv'
<1>1. pc = "loop" /\ time \in Nat /\ dt \in Nat /\ Fits(time, dt)
  BY DEF Advance, IInv, Types, Working, Running
<1>2. time' = time + dt /\ obs' = obs /\ disk' = disk /\ since' = since /\ since \in Nat
  BY DEF Advance, IInv, Types
<1>3. vis \subseteq vis' /\ pc' \in {"vis", "error"}
  BY DEF Advance, Abort
<1>4. Dumped(vis, since, time + 1) /\ SeenBefore(obs, time + 1)
  BY <1>1 DEF OInv, MadeSoFar, Running
<1>5. Dumped(vis', since', time') /\ SeenBefore(obs', time')
  BY <1>1, <1>2, <1>3, <1>4, NothingDueWithin, MoreIsDumped
<1>6. MadeSoFar'
  BY <1>3, <1>5 DEF MadeSoFar, Running
<1>7. FilesAreBehind'
  BY <1>2, <1>3, FilesStay DEF OInv
<1>. QED BY <1>3, <1>6, <1>7 DEF OInv

LEMMA AdvanceFailsIsBehind == ASSUME IInv, OInv, AdvanceFails PROVE OInv'
<1>1. pc = "loop" /\ time' = time /\ obs' = obs /\ disk' = disk /\ since' = since
  BY DEF AdvanceFails
<1>2. vis \subseteq vis' /\ pc' \in {"loop", "error"}
  BY <1>1 DEF AdvanceFails, Abort
<1>3. Dumped(vis, since, time + 1) /\ SeenBefore(obs, time + 1)
  BY <1>1 DEF OInv, MadeSoFar, Running
<1>4. Dumped(vis', since', time' + 1) /\ SeenBefore(obs', time' + 1)
  BY <1>1, <1>2, <1>3, MoreIsDumped
<1>5. MadeSoFar'
  BY <1>2, <1>4 DEF MadeSoFar, Running
<1>6. FilesAreBehind'
  BY <1>1, <1>2, FilesStay DEF OInv
<1>. QED BY <1>2, <1>5, <1>6 DEF OInv

LEMMA NextPeriodIsBehind == ASSUME IInv, OInv, NextPeriod PROVE OInv'
<1>. DEFINE now == Periods[tp + 1].start
            seen == Observed(obs, cycle, now)
<1>1. /\ pc = "loop" /\ time \in Nat /\ tp \in 1 .. N /\ tp < N /\ obs \in Seq(Nat)
      /\ InItsPeriod(time, tp, position) /\ ~InPeriod
  BY DEF NextPeriod, StartPeriod, IInv, Types, Working, Running, InItsPeriod
<1>2. Periods[tp].start <= time /\ (Periods[tp].cycles = None => time >= Periods[tp].end)
  BY <1>1, PeriodTypes DEF InItsPeriod, InPeriod
<1>3. Dumped(vis, since, time + 1) /\ SeenBefore(obs, time + 1)
  BY <1>1 DEF OInv, MadeSoFar, Running
<1>4. Dumped(vis, since, now + 1) /\ SeenBefore(obs, now) /\ now \in Nat
  <2>1. now \in Nat /\ since \in Nat
    BY <1>1, PeriodTypes DEF IInv, Types
  <2>. QED BY <1>1, <1>2, <1>3, <2>1, NothingDueBetween
<1>5. SeenBefore(seen, now + 1)
  <2>. HIDE DEF now
  <2>. QED BY <1>1, <1>4, SeenTillNow
<1>6. time' = now /\ obs' = seen /\ disk' = disk /\ since' = since
  BY DEF NextPeriod, StartPeriod
<1>7. vis \subseteq vis' /\ pc' \in {"loop", "error"}
  BY <1>1 DEF NextPeriod, StartPeriod
<1>. HIDE DEF now, seen
<1>8. MadeSoFar'
  <2>1. Dumped(vis', since', time' + 1) /\ SeenBefore(obs', time' + 1)
    BY <1>4, <1>5, <1>6, <1>7, MoreIsDumped
  <2>. QED BY <1>7, <2>1 DEF MadeSoFar, Running
<1>9. FilesAreBehind'
  BY <1>6, <1>7, FilesStay DEF OInv
<1>. QED BY <1>7, <1>8, <1>9 DEF OInv

LEMMA FinishIsBehind == ASSUME IInv, OInv, Finish PROVE OInv'
<1>1. /\ pc = "loop" /\ time \in Nat /\ tp \in 1 .. N /\ tp = N
      /\ InItsPeriod(time, tp, position) /\ ~InPeriod
  BY PeriodTypes DEF Finish, IInv, Types, Working, Running, InItsPeriod
<1>2. Periods[N].start <= time /\ (Periods[N].cycles = None => time >= Periods[N].end)
  BY <1>1, PeriodTypes DEF InItsPeriod, InPeriod
<1>3. Dumped(vis, since, time + 1) /\ SeenBefore(obs, time + 1)
  BY <1>1 DEF OInv, MadeSoFar, Running
<1>4. EverythingMade /\ pc' = "done" /\ obs' = obs /\ disk' = disk /\ vis' = vis /\ since' = since
  BY <1>1, <1>2, <1>3, NothingDueAfter DEF Finish, IInv, Types
<1>5. EverythingMade'
  BY <1>4 DEF EverythingMade
<1>6. FilesAreBehind'
  BY <1>4, FilesStay DEF OInv
<1>. QED BY <1>4, <1>5, <1>6 DEF OInv, MadeSoFar, Running

LEMMA VisualizeIsBehind == ASSUME IInv, OInv, Visualize PROVE OInv'
<1>1. /\ pc = "vis" /\ pc' = "obs" /\ time \in Nat
      /\ time' = time /\ obs' = obs /\ disk' = disk /\ vis \subseteq vis'
      /\ since' = since /\ since \in Nat
      /\ DumpRequested(VisCycles, VisTimes, cycle, time) => <<time, cycle>> \in vis'
  BY DEF Visualize, memory, IInv, Types
<1>2. Dumped(vis, since, time) /\ SeenBefore(obs, time)
  BY <1>1 DEF OInv, MadeSoFar, Running
<1>3. Dumped(vis', since', time) /\ SeenBefore(obs, time)
  BY <1>1, <1>2, MoreIsDumped
<1>4. Dumped(vis', since', time + 1)
  BY <1>1, <1>3, DumpedTillNow
<1>5. MadeSoFar'
  BY <1>1, <1>3, <1>4 DEF MadeSoFar, Running
<1>6. FilesAreBehind'
  BY <1>1, FilesStay DEF OInv
<1>. QED BY <1>1, <1>5, <1>6 DEF OInv

LEMMA ObserveIsBehind == ASSUME IInv, OInv, Observe PROVE OInv'
<1>1. /\ pc = "obs" /\ pc' = "check" /\ time \in Nat /\ obs \in Seq(Nat)
      /\ time' = time /\ obs' = Observed(obs, cycle, time) /\ disk' = disk /\ vis' = vis
      /\ since' = since
  BY DEF Observe, IInv, Types
<1>2. Dumped(vis, since, time + 1) /\ SeenBefore(obs, time)
  BY <1>1 DEF OInv, MadeSoFar, Running
<1>3. SeenBefore(obs', time + 1)
  BY <1>1, <1>2, SeenTillNow
<1>4. MadeSoFar'
  BY <1>1, <1>2, <1>3 DEF MadeSoFar, Running
<1>5. FilesAreBehind'
  BY <1>1, FilesStay DEF OInv
<1>. QED BY <1>1, <1>4, <1>5 DEF OInv

LEMMA CreateFileIsBehind == ASSUME IInv, OInv, CreateFile PROVE OInv'
<1>1. /\ pc = "check" /\ pc' \in {"write", "loop"}
      /\ disk' = [c \in DOMAIN disk \ {cycle} |-> disk[c]] \/ disk' = disk
      /\ time' = time /\ obs' = obs /\ vis' = vis /\ since' = since
  BY DEF CreateFile, memory
<1>2. MadeSoFar'
  BY <1>1 DEF OInv, MadeSoFar, Running
<1>3. FilesAreBehind'
  BY <1>1, FilesStay DEF OInv
<1>. QED BY <1>1, <1>2, <1>3 DEF OInv

LEMMA WriteCheckpointIsBehind == ASSUME IInv, OInv, WriteCheckpoint PROVE OInv'
<1>1. /\ pc = "write" /\ pc' = "loop"
      /\ disk' = [c \in {cycle} \cup DOMAIN disk |-> IF c = cycle THEN Contents ELSE disk[c]]
      /\ time' = time /\ obs' = obs /\ vis' = vis /\ since' = since
  BY DEF WriteCheckpoint, memory
<1>2. Dumped(vis, since, time + 1) /\ SeenBefore(obs, time + 1)
  BY <1>1 DEF OInv, MadeSoFar, Running
<1>3. MadeSoFar'
  BY <1>1, <1>2 DEF MadeSoFar
<1>4. ASSUME NEW c \in DOMAIN disk' PROVE SeenBefore(disk'[c].obs, disk'[c].time + 1)
  <2>1. CASE c = cycle
    <3>1. disk'[c].time = time /\ disk'[c].obs = obs
      BY <1>1, <2>1 DEF Contents
    <3>. QED BY <1>2, <3>1
  <2>2. CASE c # cycle
    BY <1>1, <1>4, <2>2 DEF OInv, FilesAreBehind
  <2>. QED BY <2>1, <2>2
<1>5. FilesAreBehind'
  BY <1>1, <1>4 DEF FilesAreBehind
<1>. QED BY <1>1, <1>3, <1>5 DEF OInv

LEMMA CrashIsBehind == ASSUME IInv, OInv, Crash PROVE OInv'
<1>1. pc' = "down" /\ disk' = disk
  BY DEF Crash
<1>2. FilesAreBehind'
  BY <1>1, FilesStay DEF OInv
<1>. QED BY <1>1, <1>2 DEF OInv, MadeSoFar, Running

LEMMA StepIsBehind == IInv /\ OInv /\ [Next]_vars => OInv'
<1>. SUFFICES ASSUME IInv, OInv, [Next]_vars PROVE OInv'
  OBVIOUS
<1>1. CASE Start
  BY <1>1, StartIsBehind
<1>2. CASE \E c \in DOMAIN disk : Restart(c)
  BY <1>2, RestartIsBehind
<1>3. CASE Advance
  BY <1>3, AdvanceIsBehind
<1>4. CASE AdvanceFails
  BY <1>4, AdvanceFailsIsBehind
<1>5. CASE NextPeriod
  BY <1>5, NextPeriodIsBehind
<1>6. CASE Finish
  BY <1>6, FinishIsBehind
<1>7. CASE Visualize
  BY <1>7, VisualizeIsBehind
<1>8. CASE Observe
  BY <1>8, ObserveIsBehind
<1>9. CASE CreateFile
  BY <1>9, CreateFileIsBehind
<1>10. CASE WriteCheckpoint
  BY <1>10, WriteCheckpointIsBehind
<1>11. CASE Crash
  BY <1>11, CrashIsBehind
<1>12. CASE UNCHANGED vars
  BY <1>12 DEF vars, memory, OInv, MadeSoFar, FilesAreBehind, EverythingMade
<1>. QED BY <1>1, <1>2, <1>3, <1>4, <1>5, <1>6, <1>7, <1>8, <1>9, <1>10, <1>11, <1>12 DEF Next, Run

LEMMA OInvHolds == Spec => []OInv
<1>1. Init => OInv
  BY DEF Init, OInv, MadeSoFar, Running, FilesAreBehind
<1>. QED BY <1>1, IInvHolds, StepIsBehind, PTL DEF Spec

\* A run that comes to its end has made every visualization that was due since
\* its process began: all of them without a restart; after one, all from the time
\* of the checkpoint on, however often the run had crashed.
THEOREM DumpsAreMade == Spec => []AllDumpsMade
<1>1. IInv /\ OInv => AllDumpsMade
  <2>. SUFFICES ASSUME IInv, OInv, pc = "done", NEW e \in VisTimes, NEW t \in since .. Periods[N].end,
                       since \in Nat, ContainsTime(e, t), Due(t)
                PROVE  \E d \in vis : d[1] = t
    BY DEF AllDumpsMade, IInv, Types
  <2>1. t \in Nat /\ since <= t /\ t < Periods[N].end + 1 /\ Periods[N].end + 1 \in Nat
    BY PeriodTypes
  <2>2. Dumped(vis, since, Periods[N].end + 1)
    BY DEF OInv, EverythingMade
  <2>. QED BY <2>1, <2>2, BeforeIs
<1>. QED BY <1>1, IInvHolds, OInvHolds, PTL

\* ... and its observation data hold every observation, whichever part of them
\* was read from a file.
THEOREM ObservationsAreMade == Spec => []AllObserved
<1>1. OInv => AllObserved
  <2>. SUFFICES ASSUME OInv, pc = "done", NEW e \in ObsTimes, NEW i \in DOMAIN Periods,
                       NEW t \in Periods[i].start .. Periods[i].end,
                       ContainsTime(e, t), Periods[i].cycles = None
                PROVE  t \in ToSet(obs)
    BY DEF AllObserved
  <2>1. /\ i \in 1 .. N /\ N \in 1 .. N /\ DOMAIN Periods = 1 .. N
        /\ Periods[i].start \in Nat /\ Periods[i].end \in Nat
        /\ Periods[N].start \in Nat /\ Periods[N].end \in Nat
        /\ Periods[i].end <= Periods[N].end
    <3>1. i \in 1 .. N /\ N \in 1 .. N /\ DOMAIN Periods = 1 .. N
      BY PeriodTypes
    <3>2. /\ Periods[i].start \in Nat /\ Periods[i].end \in Nat
          /\ Periods[N].start \in Nat /\ Periods[N].end \in Nat
          /\ Periods[N].start < Periods[N].end
      BY <3>1, PeriodTypes
    <3>3. i = N \/ Periods[i].end <= Periods[N].start
      BY <3>1, PeriodTypes
    <3>. QED BY <3>1, <3>2, <3>3
  <2>2. t \in Nat /\ t < Periods[N].end + 1 /\ Periods[N].end + 1 \in Nat /\ Observable(t)
    BY <2>1 DEF Observable
  <2>. QED BY <2>2, BeforeIs DEF OInv, EverythingMade
<1>. QED BY <1>1, OInvHolds, PTL

-----------------------------------------------------------------------------
(* Reset times                                                             *)

LEMMA EntryTypes ==
  ASSUME NEW s \in Seq(Record)
  PROVE  /\ Len(s) \in Nat /\ DOMAIN s = 1 .. Len(s)
         /\ \A i \in 1 .. Len(s) : s[i].time \in Nat /\ s[i].dt \in Nat
<1>1. ASSUME NEW i \in 1 .. Len(s) PROVE s[i].time \in Nat /\ s[i].dt \in Nat
  <2>1. s[i] \in Record
    BY <1>1, ElementOfSeq
  <2>. QED BY <2>1 DEF Record
<1>. QED BY <1>1

LEMMA ResetEntries ==
  /\ Len(Resets) \in Nat /\ DOMAIN Resets = 1 .. Len(Resets)
  /\ \A i \in 1 .. Len(Resets) : Resets[i].time \in Nat /\ Resets[i].dt \in Nat
<1>1. Resets \in Seq(Record)
  BY ResetsAssumption DEF Record
<1>. QED BY <1>1, EntryTypes, Zenon

LEMMA LimitEntries ==
  ASSUME ResetMaxs # <<>>
  PROVE  /\ Len(ResetMaxs) = Len(Resets) /\ DOMAIN ResetMaxs = 1 .. Len(Resets)
         /\ \A i \in 1 .. Len(Resets) : ResetMaxs[i].time \in Nat /\ ResetMaxs[i].dt \in Nat
<1>1. ResetMaxs \in Seq(Record) /\ Len(ResetMaxs) = Len(Resets)
  BY ResetsAssumption DEF Record
<1>2. /\ DOMAIN ResetMaxs = 1 .. Len(ResetMaxs)
      /\ \A i \in 1 .. Len(ResetMaxs) : ResetMaxs[i].time \in Nat /\ ResetMaxs[i].dt \in Nat
  BY <1>1, EntryTypes, Zenon
<1>. QED BY <1>1, <1>2, Zenon

LEMMA HeadRemoved ==
  ASSUME NEW s \in Seq(Record), Len(s) > 0
  PROVE  /\ Len(RemoveAt(s, 1)) = Len(s) - 1
         /\ \A i \in 1 .. Len(s) - 1 : RemoveAt(s, 1)[i] = s[i + 1]
<1>1. Len(s) \in Nat /\ 1 \in 1 .. Len(s)
  OBVIOUS
<1>2. Len(RemoveAt(s, 1)) = Len(s) - 1
  BY <1>1, RemovedType
<1>. DEFINE b == SubSeq(s, 2, Len(s))
<1>3. b \in Seq(Record) /\ \A i \in 1 .. Len(s) - 1 : b[i] = s[i + 1]
  BY <1>1
<1>4. RemoveAt(s, 1) = SubSeq(s, 1, 0) \o b
  BY DEF RemoveAt
<1>5. SubSeq(s, 1, 0) = <<>>
  BY <1>1
<1>6. RemoveAt(s, 1) = b
  BY <1>3, <1>4, <1>5
<1>. QED BY <1>2, <1>3, <1>6

\* A reset time uses up its entry and no other, and its limit comes into force.
LEMMA ResetAtUses ==
  ASSUME ResetsAreReached, NEW info \in Seq(Record), NEW maxs \in Seq(Record), NEW u \in Nat,
         EndOfList(info, maxs, u), NEW now \in Nat, SplitAt(u, now, now), NEW max, NEW p,
         LimitHolds(u, max)
  PROVE  LET r == ResetAt(now, info, maxs, max, p)
         IN \E w \in 0 .. Len(Resets) :
              EndOfList(r.info, r.maxs, w) /\ SplitAt(w, now, now + 1) /\ LimitHolds(w, r.max)
<1>. DEFINE hits == {i \in DOMAIN info : info[i].time = now}
            r == ResetAt(now, info, maxs, max, p)
<1>1. /\ Len(info) = Len(Resets) - u /\ u \in 0 .. Len(Resets) /\ Len(info) \in Nat
      /\ DOMAIN info = 1 .. Len(info) /\ Len(maxs) \in Nat
      /\ \A i \in 1 .. Len(info) : info[i] = Resets[u + i]
  BY ResetEntries DEF EndOfList
<1>2. ASSUME NEW i \in DOMAIN info, i # 1 PROVE i \notin hits
  <2>1. u + 1 \in 1 .. Len(Resets) /\ u + i \in 1 .. Len(Resets) /\ u + 1 < u + i
    BY <1>1, <1>2, ResetEntries
  <2>2. Resets[u + 1].time < Resets[u + i].time /\ Resets[u + 1].time >= now
    BY <2>1, ResetEntries DEF ResetsAreReached, SplitAt
  <2>3. Resets[u + i].time # now
    BY <2>1, <2>2, ResetEntries
  <2>. QED BY <1>1, <1>2, <2>3
<1>3. ASSUME NEW w \in 0 .. Len(Resets), w = u \/ w = u + 1,
             \A i \in 1 .. w : Resets[i].time <= now,
             w < Len(Resets) => Resets[w + 1].time > now
      PROVE  SplitAt(w, now, now + 1)
  <2>1. ASSUME NEW i \in w + 1 .. Len(Resets) PROVE Resets[i].time >= now + 1
    <3>1. w + 1 \in 1 .. Len(Resets) /\ i \in 1 .. Len(Resets) /\ (i = w + 1 \/ w + 1 < i)
      BY <1>3, <2>1, ResetEntries
    <3>2. Resets[w + 1].time <= Resets[i].time
      <4>1. w + 1 \in DOMAIN Resets /\ i \in DOMAIN Resets
        BY <3>1, ResetEntries
      <4>2. w + 1 < i => Resets[w + 1].time < Resets[i].time
        BY <4>1 DEF ResetsAreReached
      <4>. QED BY <3>1, <4>2, ResetEntries
    <3>3. Resets[w + 1].time > now
      BY <1>3, <3>1, ResetEntries
    <3>. QED BY <3>1, <3>2, <3>3, ResetEntries
  <2>. QED BY <1>3, <2>1 DEF SplitAt
<1>4. CASE hits = {}
  <2>1. r.info = info /\ r.maxs = maxs /\ r.max = max
    BY <1>4 DEF ResetAt
  <2>2. ASSUME u < Len(Resets) PROVE Resets[u + 1].time > now
    <3>1. u + 1 \in 1 .. Len(Resets) /\ 1 \in DOMAIN info /\ u + 1 \in u + 1 .. Len(Resets)
      BY <1>1, <2>2, ResetEntries
    <3>2. info[1].time # now /\ info[1] = Resets[u + 1]
      BY <1>1, <1>4, <3>1
    <3>3. Resets[u + 1].time >= now
      BY <3>1 DEF SplitAt
    <3>. QED BY <3>1, <3>2, <3>3, ResetEntries
  <2>3. SplitAt(u, now, now + 1)
    BY <1>1, <1>3, <2>2 DEF SplitAt
  <2>. QED BY <1>1, <2>1, <2>3
<1>5. CASE hits # {}
  <2>. DEFINE w == u + 1
  <2>1. Min(hits) = 1 /\ Len(info) > 0 /\ info[1].time = now
    <3>1. hits \in SUBSET Nat
      BY <1>1
    <3>2. Min(hits) \in hits
      BY <1>5, <3>1, MinIsLeast
    <3>. HIDE DEF hits
    <3>3. Min(hits) = 1
      BY <1>2, <3>2 DEF hits
    <3>. QED BY <1>1, <3>2, <3>3 DEF hits
  <2>2. /\ r.info = RemoveAt(info, 1)
        /\ r.maxs = IF maxs = <<>> THEN maxs ELSE RemoveAt(maxs, 1)
        /\ r.max = IF maxs = <<>> THEN max ELSE maxs[1].dt
    <3>. HIDE DEF hits
    <3>. QED BY <1>5, <2>1 DEF ResetAt, hits
  <2>3. w \in 1 .. Len(Resets) /\ info[1] = Resets[w] /\ Resets[w].time = now
    BY <1>1, <2>1, ResetEntries
  <2>4. /\ Len(r.info) = Len(Resets) - w
        /\ \A i \in 1 .. Len(r.info) : r.info[i] = Resets[w + i]
    <3>1. /\ Len(RemoveAt(info, 1)) = Len(info) - 1
          /\ \A i \in 1 .. Len(info) - 1 : RemoveAt(info, 1)[i] = info[i + 1]
      BY <2>1, HeadRemoved
    <3>2. ASSUME NEW i \in 1 .. Len(info) - 1 PROVE info[i + 1] = Resets[w + i]
      <4>1. i + 1 \in 1 .. Len(info) /\ u + (i + 1) = w + i
        BY <1>1, <3>2
      <4>2. info[i + 1] = Resets[u + (i + 1)]
        BY <1>1, <4>1
      <4>. QED BY <4>1, <4>2
    <3>. HIDE DEF r, w
    <3>3. Len(r.info) = Len(info) - 1
      BY <2>2, <3>1
    <3>4. Len(info) - 1 = Len(Resets) - w
      BY <1>1, ResetEntries DEF w
    <3>. QED BY <2>2, <3>1, <3>2, <3>3, <3>4
  <2>5. /\ Len(r.maxs) = (IF ResetMaxs = <<>> THEN 0 ELSE Len(r.info))
        /\ \A i \in 1 .. Len(r.maxs) : r.maxs[i] = ResetMaxs[w + i]
        /\ ResetMaxs # <<>> => r.max = ResetMaxs[w].dt
    <3>1. CASE ResetMaxs = <<>>
      <4>1. maxs = <<>>
        BY <3>1 DEF EndOfList
      <4>2. r.maxs = <<>>
        BY <2>2, <4>1
      <4>. HIDE DEF r
      <4>. QED BY <3>1, <4>2
    <3>2. CASE ResetMaxs # <<>>
      <4>1. Len(maxs) = Len(info) /\ maxs # <<>> /\ \A i \in 1 .. Len(maxs) : maxs[i] = ResetMaxs[u + i]
        BY <2>1, <3>2 DEF EndOfList
      <4>2. /\ Len(RemoveAt(maxs, 1)) = Len(maxs) - 1
            /\ \A i \in 1 .. Len(maxs) - 1 : RemoveAt(maxs, 1)[i] = maxs[i + 1]
        BY <2>1, <4>1, HeadRemoved
      <4>3. r.maxs = RemoveAt(maxs, 1) /\ r.max = maxs[1].dt
        BY <2>2, <4>1
      <4>. HIDE DEF r
      <4>4. Len(r.maxs) = Len(r.info)
        <5>1. Len(r.maxs) = Len(info) - 1
          BY <4>1, <4>2, <4>3
        <5>2. Len(r.info) = Len(Resets) - w
          BY <2>4 DEF r
        <5>. QED BY <1>1, <5>1, <5>2, ResetEntries
      <4>5. ASSUME NEW i \in 1 .. Len(maxs) - 1 PROVE maxs[i + 1] = ResetMaxs[w + i]
        <5>1. i + 1 \in 1 .. Len(maxs) /\ u + (i + 1) = w + i
          BY <1>1, <4>5
        <5>2. maxs[i + 1] = ResetMaxs[u + (i + 1)]
          BY <4>1, <5>1
        <5>. QED BY <5>1, <5>2
      <4>6. maxs[1] = ResetMaxs[w]
        BY <2>1, <4>1
      <4>7. Len(r.maxs) = Len(maxs) - 1
        BY <4>2, <4>3
      <4>. HIDE DEF w
      <4>. QED BY <3>2, <4>2, <4>3, <4>4, <4>5, <4>6, <4>7
    <3>. QED BY <3>1, <3>2
  <2>6. SplitAt(w, now, now + 1)
    <3>1. w \in 0 .. Len(Resets)
      BY <2>3
    <3>2. ASSUME NEW i \in 1 .. w PROVE Resets[i].time <= now
      <4>1. i = w \/ i \in 1 .. u
        BY <1>1
      <4>. QED BY <2>3, <4>1 DEF SplitAt
    <3>3. ASSUME w < Len(Resets) PROVE Resets[w + 1].time > now
      <4>1. w \in DOMAIN Resets /\ w + 1 \in DOMAIN Resets /\ w < w + 1
        BY <2>3, <3>3, ResetEntries
      <4>2. Resets[w].time < Resets[w + 1].time
        BY <4>1 DEF ResetsAreReached
      <4>. QED BY <2>3, <4>1, <4>2, ResetEntries
    <3>. QED BY <1>3, <3>1, <3>2, <3>3
  <2>7. LimitHolds(w, r.max)
    <3>1. ASSUME ResetMaxs # <<>> PROVE r.max = ResetMaxs[w].dt /\ ResetMaxs[w].dt \in Nat
      <4>. QED BY <2>3, <2>5, <3>1, LimitEntries
    <3>. HIDE DEF r, w
    <3>. QED BY <3>1 DEF LimitHolds
  <2>. HIDE DEF r, w
  <2>8. w \in 0 .. Len(Resets)
    BY <2>3
  <2>9. EndOfList(r.info, r.maxs, w)
    BY <2>4, <2>5, <2>8, Zenon DEF EndOfList
  <2>. QED BY <2>6, <2>7, <2>8, <2>9 DEF r
<1>. QED BY <1>4, <1>5

LEMMA GetDtUses ==
  ASSUME Types, ResetsAreReached, NEW info, NEW maxs, Left(info, maxs), NEW u \in Nat,
         EndOfList(info, maxs, u), NEW now \in Nat, SplitAt(u, now, now), NEW max \in Nat,
         LimitHolds(u, max), NEW m \in 0 .. Len(prescribed), NEW p \in Nat, NEW failed \in BOOLEAN
  PROVE  LET g == GetDt(now, info, maxs, max, m, p, failed)
         IN Clean(g.resetInfo, g.resetMax, now, g.dt, g.maxdt)
<1>. DEFINE r == ResetAt(now, info, maxs, max, p)
            g == GetDt(now, info, maxs, max, m, p, failed)
<1>1. info \in Seq(Record) /\ maxs \in Seq(Record)
  BY DEF Left
<1>2. PICK w \in 0 .. Len(Resets) :
        EndOfList(r.info, r.maxs, w) /\ SplitAt(w, now, now + 1) /\ LimitHolds(w, r.max)
  BY <1>1, ResetAtUses
<1>. DEFINE s == TimeStep(now, m, r.dt, failed \/ r.failed)
<1>3. /\ g.resetInfo = r.info /\ g.resetMax = r.maxs /\ g.maxdt = r.max
      /\ g.dt = Smaller(s.dt, r.max)
  <2>. HIDE DEF r, s
  <2>. QED BY DEF GetDt, r, s
<1>4. s.dt \in Nat /\ r.max \in Nat
  <2>1. r.dt \in Nat /\ r.failed \in BOOLEAN /\ r.max \in Nat
    BY ResetAtType
  <2>. HIDE DEF r
  <2>2. failed \/ r.failed \in BOOLEAN
    BY <2>1
  <2>. QED BY <2>1, <2>2, TimeStepFits
<1>. HIDE DEF r, s, g
<1>5. g.dt <= g.maxdt
  BY <1>3, <1>4 DEF Smaller
<1>. QED BY <1>2, <1>3, <1>5 DEF Clean, g

-----------------------------------------------------------------------------
(* The steps, for the reset times                                          *)

\* Steps that leave the reset times, the time and the step alone.
LEMMA ResetsStay ==
  ASSUME RInv, pc \in Running, pc' # "down", crashes' = crashes,
         UNCHANGED <<resetInfo, resetMax, time, dt, maxdt>>
  PROVE  RInv'
  BY DEF RInv

LEMMA StartUses == ASSUME IInv, RInv, Start PROVE RInv'
<1>1. PICK p \in PKSteps :
        LET first == Periods[1]
            step == TimeStep(first.start, 0, first.dt, FALSE)
            g == GetDt(first.start, Resets, ResetMaxs, first.maxdt, step.manual, p, FALSE)
        IN /\ Load([Blank EXCEPT !.time = first.start, !.dt = g.dt, !.maxdt = g.maxdt,
                      !.resetInfo = g.resetInfo, !.resetMax = g.resetMax,
                      !.manual = g.manual])
           /\ pc' = IF step.ok /\ g.ok THEN "vis" ELSE "error"
  BY DEF Start
<1>. DEFINE now == Periods[1].start
            step == TimeStep(now, 0, Periods[1].dt, FALSE)
            g == GetDt(now, Resets, ResetMaxs, Periods[1].maxdt, step.manual, p, FALSE)
<1>2. /\ now \in Nat /\ Periods[1].dt \in Nat /\ Periods[1].maxdt \in Nat /\ p \in Nat
  BY PeriodTypes, StepsAssumption
<1>3. Types /\ 0 \in 0 .. Len(prescribed) /\ FALSE \in BOOLEAN
  BY PrescribedType DEF IInv
<1>4. step.manual \in 0 .. Len(prescribed)
  BY <1>2, <1>3, TimeStepFits
<1>5. /\ time' = now /\ dt' = g.dt /\ maxdt' = g.maxdt /\ resetInfo' = g.resetInfo
      /\ resetMax' = g.resetMax /\ pc' \in {"vis", "error"}
  <2>. HIDE DEF g
  <2>1. Load([Blank EXCEPT !.time = now, !.dt = g.dt, !.maxdt = g.maxdt,
                !.resetInfo = g.resetInfo, !.resetMax = g.resetMax, !.manual = g.manual])
    BY <1>1 DEF g
  <2>2. pc' \in {"vis", "error"}
    BY <1>1
  <2>. QED BY <2>1, <2>2 DEF Load, Blank
<1>6. ASSUME ResetsAreReached PROVE Clean(g.resetInfo, g.resetMax, now, g.dt, g.maxdt)
  <2>1. EndOfList(Resets, ResetMaxs, 0)
    <3>1. \A i \in 1 .. Len(Resets) : Resets[i] = Resets[0 + i]
      BY ResetEntries
    <3>2. /\ Len(ResetMaxs) = (IF ResetMaxs = <<>> THEN 0 ELSE Len(Resets))
      BY LimitEntries
    <3>3. \A i \in 1 .. Len(ResetMaxs) : ResetMaxs[i] = ResetMaxs[0 + i]
      <4>1. Len(ResetMaxs) \in Nat
        BY ResetEntries, <3>2
      <4>. QED BY <4>1
    <3>4. 0 \in 0 .. Len(Resets) /\ Len(Resets) = Len(Resets) - 0
      BY ResetEntries
    <3>. QED BY <3>1, <3>2, <3>3, <3>4, Zenon DEF EndOfList
  <2>2. SplitAt(0, now, now)
    <3>1. ASSUME NEW k \in 1 .. Len(Resets) PROVE Resets[k].time >= now
      <4>1. PICK i \in 1 .. N : Periods[i].start <= Resets[k].time
        <5>1. PICK i \in 1 .. N : Resets[k].time = Periods[i].start \/ Periods[i].start <= Resets[k].time
          BY <1>6, <3>1, ResetEntries DEF ResetsAreReached
        <5>2. Periods[i].start \in Nat
          BY PeriodTypes
        <5>. QED BY <5>1, <5>2
      <4>2. 1 \in 1 .. N /\ Periods[1].end \in Nat /\ now < Periods[1].end
        BY PeriodTypes
      <4>3. i = 1 \/ Periods[1].end <= Periods[i].start
        BY <4>2, PeriodTypes
      <4>4. Periods[i].start \in Nat /\ Resets[k].time \in Nat
        BY <3>1, PeriodTypes, ResetEntries
      <4>. QED BY <1>2, <4>1, <4>2, <4>3, <4>4
    <3>. QED BY <3>1 DEF SplitAt
  <2>3. LimitHolds(0, Periods[1].maxdt)
    BY DEF LimitHolds
  <2>. HIDE DEF now, step
  <2>. QED BY <1>2, <1>3, <1>4, <1>6, <2>1, <2>2, <2>3, ResetTypes, GetDtUses
<1>. HIDE DEF g, now
<1>. QED BY <1>5, <1>6 DEF RInv

LEMMA AdvanceUses == ASSUME IInv, RInv, Advance PROVE RInv'
<1>1. /\ Types /\ pc = "loop" /\ time \in Nat /\ dt \in Nat /\ Fits(time, dt) /\ maxdt \in Nat
      /\ manual \in 0 .. Len(prescribed) /\ Left(resetInfo, resetMax)
  BY DEF Advance, IInv, Types, Working, Running
<1>2. time' = time + dt /\ time' \in Nat /\ crashes' = crashes
  BY <1>1 DEF Advance
<1>3. PICK p \in PKSteps :
        LET g == GetDt(time', resetInfo, resetMax, maxdt, manual, p, FALSE)
        IN /\ TakeDt(g)
           /\ IF g.ok THEN pc' = "vis" /\ cycle' = cycle + 1 /\ vis' = vis
                      ELSE Abort(time', cycle + 1)
  BY DEF Advance
<1>. DEFINE g == GetDt(time', resetInfo, resetMax, maxdt, manual, p, FALSE)
<1>4. /\ dt' = g.dt /\ maxdt' = g.maxdt /\ resetInfo' = g.resetInfo /\ resetMax' = g.resetMax
      /\ pc' \in {"vis", "error"}
  BY <1>3 DEF TakeDt, Abort
<1>5. ASSUME ResetsAreReached, crashes = 0
      PROVE  Clean(g.resetInfo, g.resetMax, time', g.dt, g.maxdt)
  <2>1. PICK u \in 0 .. Len(Resets) :
          EndOfList(resetInfo, resetMax, u) /\ SplitAt(u, time, time + 1) /\ LimitHolds(u, maxdt)
    BY <1>1, <1>5 DEF RInv, Running, Clean
  <2>2. SplitAt(u, time', time')
    <3>1. ASSUME NEW k \in 1 .. u PROVE Resets[k].time <= time'
      <4>1. Resets[k].time <= time /\ Resets[k].time \in Nat
        BY <2>1, <3>1, ResetEntries DEF SplitAt
      <4>. QED BY <1>1, <1>2, <4>1
    <3>2. ASSUME NEW k \in u + 1 .. Len(Resets) PROVE Resets[k].time >= time'
      <4>1. k \in 1 .. Len(Resets)
        BY <2>1, <3>2, ResetEntries
      <4>2. Resets[k].time >= time + 1 /\ Resets[k].time \in Nat
        BY <2>1, <3>2, <4>1, ResetEntries DEF SplitAt
      <4>3. ListEvent({Resets[k].time}) \in TimeEvents
        BY <4>1, ResetEntries DEF TimeEvents
      <4>4. ContainsTime(ListEvent({Resets[k].time}), Resets[k].time)
        BY DEF ContainsTime, ListEvent
      <4>5. Resets[k].time > time
        BY <1>1, <4>2
      <4>6. time + dt <= Resets[k].time
        BY <1>1, <4>2, <4>3, <4>4, <4>5, Zenon DEF Fits
      <4>. QED BY <1>1, <1>2, <4>2, <4>6
    <3>. QED BY <3>1, <3>2 DEF SplitAt
  <2>3. p \in Nat /\ FALSE \in BOOLEAN /\ u \in Nat
    BY StepsAssumption, ResetEntries
  <2>. QED BY <1>1, <1>2, <1>5, <2>1, <2>2, <2>3, GetDtUses
<1>. HIDE DEF g
<1>. QED BY <1>2, <1>4, <1>5 DEF RInv

LEMMA AdvanceFailsUses == ASSUME IInv, RInv, AdvanceFails PROVE RInv'
<1>1. /\ Types /\ pc = "loop" /\ time \in Nat /\ dt \in Nat /\ maxdt \in Nat
      /\ manual \in 0 .. Len(prescribed) /\ Left(resetInfo, resetMax)
  BY DEF AdvanceFails, IInv, Types
<1>2. time' = time /\ crashes' = crashes
  BY DEF AdvanceFails
<1>3. PICK p \in PKSteps \cup {0} :
        LET g == GetDt(time, resetInfo, resetMax, maxdt, manual, p, TRUE)
        IN /\ TakeDt(g)
           /\ IF g.ok THEN pc' = pc /\ cycle' = cycle /\ vis' = vis
                      ELSE Abort(time, cycle)
  BY DEF AdvanceFails
<1>. DEFINE g == GetDt(time, resetInfo, resetMax, maxdt, manual, p, TRUE)
<1>4. /\ dt' = g.dt /\ maxdt' = g.maxdt /\ resetInfo' = g.resetInfo /\ resetMax' = g.resetMax
      /\ pc' \in {"loop", "error"}
  BY <1>1, <1>3 DEF TakeDt, Abort
<1>5. ASSUME ResetsAreReached, crashes = 0
      PROVE  Clean(g.resetInfo, g.resetMax, time, g.dt, g.maxdt)
  <2>1. PICK u \in 0 .. Len(Resets) :
          EndOfList(resetInfo, resetMax, u) /\ SplitAt(u, time, time + 1) /\ LimitHolds(u, maxdt)
    BY <1>1, <1>5 DEF RInv, Running, Clean
  <2>2. SplitAt(u, time, time)
    <3>1. ASSUME NEW k \in u + 1 .. Len(Resets) PROVE Resets[k].time >= time
      <4>1. Resets[k].time >= time + 1 /\ Resets[k].time \in Nat
        BY <2>1, <3>1, ResetEntries DEF SplitAt
      <4>. QED BY <1>1, <4>1
    <3>. QED BY <2>1, <3>1 DEF SplitAt
  <2>3. p \in Nat /\ TRUE \in BOOLEAN /\ u \in Nat
    BY StepsAssumption, ResetEntries
  <2>. QED BY <1>1, <1>2, <1>5, <2>1, <2>2, <2>3, GetDtUses
<1>. HIDE DEF g
<1>. QED BY <1>1, <1>2, <1>4, <1>5 DEF RInv

\* A period that is over has no reset time left before the next one, and the
\* limit of the next one is not above that in force.
LEMMA NextPeriodUses == ASSUME IInv, RInv, NextPeriod PROVE RInv'
<1>. DEFINE now == Periods[tp + 1].start
            max == Periods[tp + 1].maxdt
<1>1. /\ Types /\ pc = "loop" /\ time \in Nat /\ tp \in 1 .. N /\ tp < N
      /\ InItsPeriod(time, tp, position) /\ manual \in 0 .. Len(prescribed)
      /\ Left(resetInfo, resetMax) /\ ~InPeriod
  BY DEF NextPeriod, StartPeriod, IInv, Types, Working, Running, InItsPeriod
<1>2. /\ N \in Nat /\ tp + 1 \in 2 .. N /\ tp + 1 \in 1 .. N /\ now \in Nat /\ max \in Nat
      /\ Periods[tp].end <= now /\ Periods[tp].end \in Nat /\ Periods[tp].start \in Nat
      /\ Periods[tp].start <= time /\ time <= Periods[tp].end
      /\ Periods[tp].cycles = None => time = Periods[tp].end
  <2>1. N \in Nat /\ tp + 1 \in 2 .. N /\ tp + 1 \in 1 .. N /\ tp < tp + 1
    BY <1>1, PeriodTypes
  <2>2. Periods[tp].start <= time /\ time <= Periods[tp].end
    BY <1>1 DEF InItsPeriod
  <2>. QED BY <1>1, <2>1, <2>2, PeriodTypes DEF InPeriod
<1>3. time' = now /\ tp' = tp + 1 /\ crashes' = crashes
  BY DEF NextPeriod, StartPeriod
<1>4. PICK p \in PKSteps :
        LET g == GetDt(now, resetInfo, resetMax, Periods[tp'].maxdt, manual, p, FALSE)
        IN /\ TakeDt(g)
           /\ IF g.ok THEN pc' = pc ELSE pc' = "error"
  BY DEF NextPeriod, StartPeriod
<1>. DEFINE g == GetDt(now, resetInfo, resetMax, max, manual, p, FALSE)
<1>5. /\ dt' = g.dt /\ maxdt' = g.maxdt /\ resetInfo' = g.resetInfo /\ resetMax' = g.resetMax
      /\ pc' \in {"loop", "error"}
  BY <1>1, <1>3, <1>4 DEF TakeDt
<1>6. ASSUME ResetsAreReached, crashes = 0
      PROVE  Clean(g.resetInfo, g.resetMax, now, g.dt, g.maxdt)
  <2>1. PICK u \in 0 .. Len(Resets) :
          EndOfList(resetInfo, resetMax, u) /\ SplitAt(u, time, time + 1) /\ LimitHolds(u, maxdt)
    BY <1>1, <1>6 DEF RInv, Running, Clean
  <2>2. u \in Nat
    BY ResetEntries
  <2>3. ASSUME NEW k \in 1 .. u PROVE Resets[k].time <= now
    <3>1. Resets[k].time <= time /\ Resets[k].time \in Nat
      BY <2>1, <2>3, ResetEntries DEF SplitAt
    <3>. HIDE DEF now, max
    <3>. QED BY <1>1, <1>2, <3>1
  <2>4. ASSUME NEW k \in u + 1 .. Len(Resets) PROVE Resets[k].time >= now
    <3>1. k \in 1 .. Len(Resets)
      BY <2>1, <2>4, ResetEntries
    <3>2. Resets[k].time > time /\ Resets[k].time \in Nat
      <4>1. Resets[k].time >= time + 1 /\ Resets[k].time \in Nat
        BY <2>1, <2>4, <3>1, ResetEntries DEF SplitAt
      <4>. QED BY <1>1, <4>1
    <3>3. PICK i \in 1 .. N :
            \/ Resets[k].time = Periods[i].start
            \/ /\ Periods[i].cycles = None
               /\ Periods[i].start <= Resets[k].time /\ Resets[k].time <= Periods[i].end
      BY <1>6, <3>1, ResetEntries DEF ResetsAreReached
    <3>4. Periods[i].start \in Nat /\ Periods[i].end \in Nat /\ Periods[i].start < Periods[i].end
      BY PeriodTypes
    <3>5. ~(i < tp)
      <4>1. SUFFICES ASSUME i < tp PROVE FALSE
        OBVIOUS
      <4>2. Periods[i].end <= Periods[tp].start
        BY <1>1, <4>1, PeriodTypes
      <4>3. Periods[tp].start <= time /\ Periods[tp].start \in Nat /\ time \in Nat
        BY <1>1, <1>2
      <4>4. Resets[k].time <= Periods[i].end
        BY <3>2, <3>3, <3>4
      <4>. HIDE DEF now, max
      <4>. QED BY <3>2, <3>4, <4>2, <4>3, <4>4
    <3>6. i # tp
      <4>. HIDE DEF now, max
      <4>. QED BY <1>1, <1>2, <3>2, <3>3, <3>4
    <3>7. now <= Periods[i].start
      <4>1. i = tp + 1 \/ tp + 1 < i
        BY <1>1, <1>2, <3>5, <3>6
      <4>2. tp + 1 < i => Periods[tp + 1].end <= Periods[i].start
        BY <1>2, PeriodTypes
      <4>3. now < Periods[tp + 1].end /\ Periods[tp + 1].end \in Nat
        BY <1>2, PeriodTypes
      <4>. QED BY <1>2, <3>4, <4>1, <4>2, <4>3
    <3>. HIDE DEF now, max
    <3>. QED BY <1>2, <3>2, <3>3, <3>4, <3>7
  <2>5. SplitAt(u, now, now)
    BY <2>3, <2>4 DEF SplitAt
  <2>6. LimitHolds(u, max)
    <3>. SUFFICES ASSUME u > 0, ResetMaxs # <<>>, LimitsGoOn PROVE max <= ResetMaxs[u].dt
      BY DEF LimitHolds
    <3>1. u \in 1 .. Len(Resets) /\ u \in DOMAIN ResetMaxs /\ u \in 1 .. u
      BY <2>2, ResetEntries, LimitEntries
    <3>2. ResetMaxs[u].time <= now
      BY <2>3, <3>1 DEF LimitsGoOn
    <3>. QED BY <1>2, <3>1, <3>2 DEF LimitsGoOn
  <2>7. p \in Nat /\ FALSE \in BOOLEAN
    BY StepsAssumption
  <2>. HIDE DEF now, max
  <2>. QED BY <1>1, <1>2, <1>6, <2>1, <2>2, <2>5, <2>6, <2>7, GetDtUses
<1>. HIDE DEF g, now
<1>. QED BY <1>3, <1>5, <1>6 DEF RInv

LEMMA StepUses == IInv /\ RInv /\ [Next]_vars => RInv'
<1>. SUFFICES ASSUME IInv, RInv, [Next]_vars PROVE RInv'
  OBVIOUS
<1>1. CASE Start
  BY <1>1, StartUses
<1>2. CASE \E c \in DOMAIN disk : Restart(c)
  <2>1. pc = "down" /\ crashes' = crashes /\ pc' \in {"vis", "error"}
    BY <1>2 DEF Restart
  <2>2. crashes > 0 /\ crashes \in Nat
    BY <2>1, StepsAssumption DEF RInv, IInv, Types
  <2>. QED BY <2>1, <2>2 DEF RInv
<1>3. CASE Advance
  BY <1>3, AdvanceUses
<1>4. CASE AdvanceFails
  BY <1>4, AdvanceFailsUses
<1>5. CASE NextPeriod
  BY <1>5, NextPeriodUses
<1>6. CASE Finish
  BY <1>6 DEF Finish, RInv, Running
<1>7. CASE Visualize
  BY <1>7, ResetsStay DEF Visualize, memory, Running
<1>8. CASE Observe
  BY <1>8, ResetsStay DEF Observe, Running
<1>9. CASE CreateFile
  BY <1>9, ResetsStay DEF CreateFile, memory, Running
<1>10. CASE WriteCheckpoint
  BY <1>10, ResetsStay DEF WriteCheckpoint, memory, Running
<1>11. CASE Crash
  <2>1. pc' = "down" /\ crashes' = crashes + 1 /\ crashes \in Nat
    BY <1>11, StepsAssumption DEF Crash, IInv, Types
  <2>. QED BY <2>1 DEF RInv, Running
<1>12. CASE UNCHANGED vars
  BY <1>12 DEF vars, memory, RInv
<1>. QED BY <1>1, <1>2, <1>3, <1>4, <1>5, <1>6, <1>7, <1>8, <1>9, <1>10, <1>11, <1>12 DEF Next, Run

LEMMA RInvHolds == Spec => []RInv
<1>1. Init => RInv
  BY DEF Init, RInv, Running
<1>. QED BY <1>1, IInvHolds, StepUses, PTL DEF Spec

\* Before the first restart no reset time cuts a step twice, if the schedule
\* reaches every reset time; one that a period cut short has jumped over stays.
THEOREM ResetsUsedOnce ==
  Spec => [](ResetsAreReached /\ crashes = 0 => ResetsAreUsedOnce)
<1>1. IInv /\ RInv => (ResetsAreReached /\ crashes = 0 => ResetsAreUsedOnce)
  <2>. SUFFICES ASSUME IInv, RInv, ResetsAreReached, crashes = 0, pc = "loop",
                       NEW i \in DOMAIN resetInfo
                PROVE  resetInfo[i].time > time
    BY DEF ResetsAreUsedOnce
  <2>1. PICK u \in 0 .. Len(Resets) :
          EndOfList(resetInfo, resetMax, u) /\ SplitAt(u, time, time + 1)
    BY DEF RInv, Running, Clean
  <2>2. i \in 1 .. Len(resetInfo) /\ time \in Nat
    BY DEF IInv, Left, Types
  <2>3. u + i \in u + 1 .. Len(Resets) /\ u + i \in 1 .. Len(Resets) /\ resetInfo[i] = Resets[u + i]
    BY <2>1, <2>2, ResetEntries DEF EndOfList
  <2>. QED BY <2>1, <2>2, <2>3, ResetEntries DEF SplitAt
<1>. QED BY <1>1, IInvHolds, RInvHolds, PTL

\* ... and the limit of the reset time that came last is kept, if every limit
\* has its reset time and no later period allows more.
THEOREM LimitIsKept ==
  Spec => [](ResetsAreReached /\ LimitsGoOn /\ crashes = 0 => ResetMaxIsKept)
<1>1. IInv /\ RInv => (ResetsAreReached /\ LimitsGoOn /\ crashes = 0 => ResetMaxIsKept)
  <2>. SUFFICES ASSUME IInv, RInv, ResetsAreReached, LimitsGoOn, crashes = 0, pc = "loop",
                       NEW i \in DOMAIN ResetMaxs, ResetMaxs[i].time <= time,
                       \A j \in DOMAIN ResetMaxs : ResetMaxs[j].time <= ResetMaxs[i].time
                                                    \/ ResetMaxs[j].time > time
                PROVE  dt <= ResetMaxs[i].dt
    BY DEF ResetMaxIsKept
  <2>1. PICK u \in 0 .. Len(Resets) :
          /\ EndOfList(resetInfo, resetMax, u) /\ SplitAt(u, time, time + 1)
          /\ LimitHolds(u, maxdt) /\ dt <= maxdt
    BY DEF RInv, Running, Clean
  <2>2. time \in Nat /\ dt \in Nat /\ maxdt \in Nat /\ ResetMaxs # <<>>
    BY DEF IInv, Types
  <2>3. i \in 1 .. Len(Resets) /\ i \in DOMAIN Resets /\ Resets[i].time <= time
        /\ DOMAIN ResetMaxs = 1 .. Len(Resets)
    BY <2>2, LimitEntries, ResetEntries DEF LimitsGoOn
  <2>4. i \in 1 .. u
    <3>1. ASSUME i \in u + 1 .. Len(Resets) PROVE FALSE
      BY <2>1, <2>2, <2>3, <3>1, ResetEntries DEF SplitAt
    <3>. QED BY <2>3, <3>1, ResetEntries
  <2>5. u \in 1 .. Len(Resets) /\ u \in 1 .. u
    BY <2>4, ResetEntries
  <2>6. i = u
    <3>1. Resets[u].time <= time /\ Resets[u].time \in Nat /\ Resets[i].time \in Nat
      BY <2>1, <2>3, <2>5, ResetEntries DEF SplitAt
    <3>2. ResetMaxs[u].time = Resets[u].time /\ ResetMaxs[i].time = Resets[i].time
      BY <2>3, <2>5 DEF LimitsGoOn
    <3>3. Resets[u].time <= Resets[i].time
      BY <2>2, <2>3, <2>5, <3>1, <3>2
    <3>4. i < u => Resets[i].time < Resets[u].time
      BY <2>3, <2>5, ResetEntries DEF ResetsAreReached
    <3>. QED BY <2>4, <3>1, <3>3, <3>4
  <2>7. maxdt <= ResetMaxs[u].dt /\ ResetMaxs[u].dt \in Nat
    BY <2>1, <2>2, <2>5, LimitEntries DEF LimitHolds
  <2>. QED BY <2>1, <2>2, <2>6, <2>7
<1>. QED BY <1>1, IInvHolds, RInvHolds, PTL

-----------------------------------------------------------------------------
(* Why a run ends.  Liveness itself is left to TLC; what it rests on is    *)
(* stated of the states and the steps.                                     *)

\* The input asks for no step and no limit of zero.
StepsAreAsked ==
  /\ MinDt > 0
  /\ \A i \in DOMAIN Periods : Periods[i].dt > 0 /\ Periods[i].maxdt > 0
  /\ \A i \in DOMAIN ResetMaxs : ResetMaxs[i].dt > 0
  /\ \A s \in Prescriptions : \A i \in DOMAIN s : s[i] > 0

LimitRecord == [time : Nat, dt : Nat \ {0}]

\* The step about to be taken is not empty, nor is that of any checkpoint file.
PInv ==
  StepsAreAsked =>
    /\ pc \in Running => dt > 0 /\ maxdt > 0 /\ resetMax \in Seq(LimitRecord)
    /\ \A c \in DOMAIN disk : disk[c].dt > 0

LEMMA LimitRemoved ==
  ASSUME NEW s \in Seq(LimitRecord), NEW i \in 1 .. Len(s)
  PROVE  RemoveAt(s, i) \in Seq(LimitRecord)
<1>1. Len(s) \in Nat
  OBVIOUS
<1>2. SubSeq(s, 1, i - 1) \in Seq(LimitRecord) /\ SubSeq(s, i + 1, Len(s)) \in Seq(LimitRecord)
  BY <1>1
<1>. QED BY <1>2, ConcatProperties DEF RemoveAt

LEMMA LimitsArePositive == StepsAreAsked => ResetMaxs \in Seq(LimitRecord)
<1>. SUFFICES ASSUME StepsAreAsked PROVE ResetMaxs \in Seq(LimitRecord)
  OBVIOUS
<1>1. ResetMaxs \in Seq(Record)
  BY ResetsAssumption DEF Record
<1>2. Len(ResetMaxs) \in Nat /\ DOMAIN ResetMaxs = 1 .. Len(ResetMaxs)
      /\ ResetMaxs = [i \in 1 .. Len(ResetMaxs) |-> ResetMaxs[i]]
  BY <1>1
<1>3. ASSUME NEW i \in 1 .. Len(ResetMaxs) PROVE ResetMaxs[i] \in LimitRecord
  <2>1. ResetMaxs[i] \in Record /\ ResetMaxs[i].dt > 0
    BY <1>1, <1>2, ElementOfSeq DEF StepsAreAsked
  <2>. QED BY <2>1 DEF Record, LimitRecord
<1>4. ResetMaxs \in [1 .. Len(ResetMaxs) -> LimitRecord]
  BY <1>2, <1>3
<1>. QED BY <1>2, <1>4, SeqDef, Zenon

\* The timestep manager makes no step empty.
LEMMA TimeStepMoves ==
  ASSUME StepsAreAsked, Types, NEW now \in Nat, NEW m \in 0 .. Len(prescribed), NEW p \in Nat,
         NEW failed \in BOOLEAN
  PROVE  p > 0 => TimeStep(now, m, p, failed).dt > 0
<1>. DEFINE d == IF m < Len(prescribed) THEN prescribed[m + 1] ELSE p
            s == TimeStep(now, m, p, failed)
<1>1. prescribed \in Seq(Nat) /\ Len(prescribed) \in Nat /\ prescribed \in Prescriptions
  BY PrescribedType DEF Types
<1>2. d \in Nat /\ (p > 0 => d > 0)
  <2>1. CASE m < Len(prescribed)
    <3>1. m + 1 \in 1 .. Len(prescribed) /\ DOMAIN prescribed = 1 .. Len(prescribed)
      BY <1>1, <2>1
    <3>2. prescribed[m + 1] \in Nat /\ prescribed[m + 1] > 0
      BY <1>1, <3>1, ElementOfSeq DEF StepsAreAsked
    <3>. QED BY <2>1, <3>2
  <2>2. CASE ~(m < Len(prescribed))
    BY <2>2
  <2>. QED BY <2>1, <2>2
<1>3. s.dt = Limit(TimeEvents, now, d)
  BY DEF TimeStep
<1>. HIDE DEF d
<1>4. d > 0 => Limit(TimeEvents, now, d) > 0
  BY <1>2, TimeEventsAreEvents, LimitStopsAtEvents
<1>. QED BY <1>2, <1>3, <1>4

LEMMA ResetAtMoves ==
  ASSUME NEW now \in Nat, NEW info, NEW maxs, Left(info, maxs), maxs \in Seq(LimitRecord),
         NEW max \in Nat, max > 0, NEW p \in Nat
  PROVE  LET r == ResetAt(now, info, maxs, max, p)
         IN r.max > 0 /\ r.maxs \in Seq(LimitRecord)
<1>. DEFINE hits == {i \in DOMAIN info : info[i].time = now}
            it == Min(hits)
            r == ResetAt(now, info, maxs, max, p)
<1>1. /\ info \in Seq(Record) /\ Len(info) \in Nat /\ Len(maxs) \in Nat
      /\ DOMAIN info = 1 .. Len(info)
  BY DEF Left
<1>2. CASE hits = {}
  BY <1>2 DEF ResetAt
<1>3. CASE hits # {}
  <2>1. it \in 1 .. Len(info)
    <3>1. hits \in SUBSET Nat
      BY <1>1
    <3>2. it \in hits
      BY <1>3, <3>1, MinIsLeast
    <3>. QED BY <1>1, <3>2
  <2>. HIDE DEF it
  <2>2. /\ r.max = IF maxs = <<>> THEN max ELSE maxs[it].dt
        /\ r.maxs = IF maxs = <<>> THEN maxs ELSE RemoveAt(maxs, it)
    BY <1>3 DEF ResetAt, it
  <2>5. CASE maxs = <<>>
    BY <2>2, <2>5
  <2>6. CASE maxs # <<>>
    <3>1. it \in 1 .. Len(maxs)
      BY <1>1, <2>1, <2>6 DEF Left
    <3>2. maxs[it] \in LimitRecord
      BY <1>1, <3>1, ElementOfSeq
    <3>3. RemoveAt(maxs, it) \in Seq(LimitRecord)
      BY <3>1, LimitRemoved
    <3>. QED BY <2>2, <2>6, <3>2, <3>3 DEF LimitRecord
  <2>. QED BY <2>5, <2>6
<1>. QED BY <1>2, <1>3

\* get_dt returns a step that is not empty.
LEMMA GetDtMoves ==
  ASSUME StepsAreAsked, Types, NEW now \in Nat, NEW info, NEW maxs, Left(info, maxs),
         maxs \in Seq(LimitRecord), NEW max \in Nat, max > 0, NEW m \in 0 .. Len(prescribed),
         NEW p \in Nat, NEW failed \in BOOLEAN
  PROVE  LET g == GetDt(now, info, maxs, max, m, p, failed)
         IN /\ g.dt \in Nat
            /\ g.ok => g.dt > 0
            /\ g.maxdt > 0
            /\ g.resetMax \in Seq(LimitRecord)
<1>. DEFINE r == ResetAt(now, info, maxs, max, p)
            s == TimeStep(now, m, r.dt, failed \/ r.failed)
            g == GetDt(now, info, maxs, max, m, p, failed)
<1>1. /\ r.dt \in Nat /\ r.failed \in BOOLEAN /\ r.max \in Nat
  BY ResetAtType
<1>2. r.max > 0 /\ r.maxs \in Seq(LimitRecord)
  BY ResetAtMoves
<1>. HIDE DEF r
<1>3. /\ s.ok \in BOOLEAN /\ s.dt \in Nat
      /\ r.dt > 0 => s.dt > 0
  <2>1. failed \/ r.failed \in BOOLEAN
    BY <1>1
  <2>. QED BY <1>1, <2>1, TimeStepFits, TimeStepMoves
<1>. HIDE DEF s
<1>4. GetDt(now, info, maxs, max, m, p, failed)
        = [ok |-> r.dt >= MinDt /\ s.ok, dt |-> Smaller(s.dt, r.max), maxdt |-> r.max,
           resetInfo |-> r.info, resetMax |-> r.maxs, manual |-> s.manual]
  BY DEF GetDt, r, s
<1>5. MinDt \in Nat /\ MinDt > 0
  BY StepsAssumption DEF StepsAreAsked
<1>6. /\ g.dt = Smaller(s.dt, r.max) /\ g.maxdt = r.max /\ g.resetMax = r.maxs
      /\ g.ok = (r.dt >= MinDt /\ s.ok)
  BY <1>4
<1>. HIDE DEF g
<1>7. g.dt \in Nat /\ g.dt <= s.dt /\ (s.dt > 0 => g.dt > 0)
  BY <1>1, <1>2, <1>3, <1>6 DEF Smaller
<1>8. ASSUME g.ok PROVE r.dt > 0
  <2>1. r.dt >= MinDt
    BY <1>6, <1>8, Zenon
  <2>. QED BY <1>1, <1>5, <2>1
<1>. QED BY <1>1, <1>2, <1>3, <1>6, <1>7, <1>8 DEF g

-----------------------------------------------------------------------------
(* The steps                                                               *)

\* Running steps that leave the step, its limits and the files' steps alone.
LEMMA StepStays ==
  ASSUME PInv, pc \in Running, UNCHANGED <<dt, maxdt, resetMax>>,
         \A c \in DOMAIN disk' : c \in DOMAIN disk /\ disk'[c] = disk[c]
  PROVE  PInv'
  BY DEF PInv

LEMMA StartMoves == ASSUME IInv, PInv, Start PROVE PInv'
<1>1. PICK p \in PKSteps :
        LET first == Periods[1]
            step == TimeStep(first.start, 0, first.dt, FALSE)
            g == GetDt(first.start, Resets, ResetMaxs, first.maxdt, step.manual, p, FALSE)
        IN /\ Load([Blank EXCEPT !.time = first.start, !.dt = g.dt, !.maxdt = g.maxdt,
                      !.resetInfo = g.resetInfo, !.resetMax = g.resetMax,
                      !.manual = g.manual])
           /\ pc' = IF step.ok /\ g.ok THEN "vis" ELSE "error"
  BY DEF Start
<1>. DEFINE now == Periods[1].start
            step == TimeStep(now, 0, Periods[1].dt, FALSE)
            g == GetDt(now, Resets, ResetMaxs, Periods[1].maxdt, step.manual, p, FALSE)
<1>2. /\ now \in Nat /\ Periods[1].dt \in Nat /\ Periods[1].maxdt \in Nat /\ p \in Nat
      /\ 1 \in DOMAIN Periods
  BY PeriodTypes, StepsAssumption
<1>3. Types /\ 0 \in 0 .. Len(prescribed) /\ FALSE \in BOOLEAN
  BY PrescribedType DEF IInv
<1>4. step.manual \in 0 .. Len(prescribed)
  BY <1>2, <1>3, TimeStepFits
<1>5. /\ dt' = g.dt /\ maxdt' = g.maxdt /\ resetMax' = g.resetMax
      /\ pc' \in Running => g.ok
  <2>. HIDE DEF g
  <2>1. Load([Blank EXCEPT !.time = now, !.dt = g.dt, !.maxdt = g.maxdt,
                !.resetInfo = g.resetInfo, !.resetMax = g.resetMax, !.manual = g.manual])
    BY <1>1 DEF g
  <2>2. pc' = IF step.ok /\ g.ok THEN "vis" ELSE "error"
    BY <1>1 DEF g
  <2>. QED BY <2>1, <2>2 DEF Load, Blank, Running
<1>6. ASSUME StepsAreAsked
      PROVE  (g.ok => g.dt > 0) /\ g.maxdt > 0 /\ g.resetMax \in Seq(LimitRecord)
  <2>1. Periods[1].maxdt > 0
    BY <1>2, <1>6 DEF StepsAreAsked
  <2>. HIDE DEF now, step
  <2>. QED BY <1>2, <1>3, <1>4, <1>6, <2>1, ResetTypes, LimitsArePositive, GetDtMoves
<1>7. disk' = disk
  BY DEF Start
<1>. HIDE DEF g, now
<1>. QED BY <1>5, <1>6, <1>7 DEF PInv

LEMMA RestartMoves == ASSUME IInv, PInv, NEW c \in DOMAIN disk, Restart(c) PROVE PInv'
<1>. DEFINE file == disk[c]
            old == PeriodOf(file)
            turn == file.position = "end" /\ old < N
            now == IF turn THEN Periods[old + 1].start ELSE file.time
            new == IF turn THEN old + 1 ELSE old
            asked == IF turn THEN Periods[new].dt ELSE file.dt
            step == TimeStep(now, 0, asked, FALSE)
<1>1. /\ Types /\ file \in File /\ InItsPeriod(file.time, file.tp, file.position)
  BY DEF IInv, Files
<1>2. old = file.tp /\ old \in 1 .. N /\ N \in Nat
  BY <1>1, PeriodIsFound, PeriodTypes DEF File
<1>. HIDE DEF old
<1>3. new \in 1 .. N
  BY <1>2
<1>4. now \in Nat /\ asked \in Nat
  BY <1>1, <1>2, <1>3, PeriodTypes DEF File
<1>5. dt' = step.dt /\ maxdt' = Periods[new].maxdt /\ resetMax' = ResetMaxs /\ disk' = disk
  BY DEF Restart, Load, ReadCheckpoint, Blank, old
<1>6. StepsAreAsked => step.dt > 0 /\ Periods[new].maxdt > 0
  <2>1. SUFFICES ASSUME StepsAreAsked PROVE step.dt > 0 /\ Periods[new].maxdt > 0
    OBVIOUS
  <2>2. Periods[new].dt > 0 /\ Periods[new].maxdt > 0 /\ file.dt > 0
    BY <1>3, <2>1, PeriodTypes DEF PInv, StepsAreAsked
  <2>3. asked > 0 /\ 0 \in 0 .. Len(prescribed) /\ FALSE \in BOOLEAN
    BY <1>1, <2>2, PrescribedType
  <2>. HIDE DEF now, asked
  <2>. QED BY <1>1, <1>4, <2>1, <2>2, <2>3, TimeStepMoves
<1>. HIDE DEF step, new
<1>. QED BY <1>5, <1>6, LimitsArePositive DEF PInv

\* A step of a run that is under way: the one to be taken next is not empty.
LEMMA AdvanceMoves ==
  ASSUME IInv, PInv, Advance
  PROVE  /\ PInv'
         /\ StepsAreAsked => time' > time
         /\ tp' = tp /\ crashes' = crashes /\ pc' \in {"vis", "error"}
<1>1. /\ Types /\ pc = "loop" /\ pc \in Running /\ time \in Nat /\ dt \in Nat /\ maxdt \in Nat
      /\ manual \in 0 .. Len(prescribed) /\ Left(resetInfo, resetMax)
  BY DEF Advance, IInv, Types, Running
<1>2. PICK p \in PKSteps :
        LET g == GetDt(time', resetInfo, resetMax, maxdt, manual, p, FALSE)
        IN /\ TakeDt(g)
           /\ IF g.ok THEN pc' = "vis" ELSE pc' = "error"
  BY DEF Advance, Abort
<1>3. time' = time + dt /\ time' \in Nat /\ disk' = disk /\ tp' = tp /\ crashes' = crashes
  BY <1>1 DEF Advance
<1>. DEFINE g == GetDt(time', resetInfo, resetMax, maxdt, manual, p, FALSE)
<1>4. /\ dt' = g.dt /\ maxdt' = g.maxdt /\ resetMax' = g.resetMax
      /\ pc' \in Running => g.ok
      /\ pc' \in {"vis", "error"}
  BY <1>2 DEF TakeDt, Running
<1>5. ASSUME StepsAreAsked
      PROVE  (g.ok => g.dt > 0) /\ g.maxdt > 0 /\ g.resetMax \in Seq(LimitRecord) /\ dt > 0
  <2>1. maxdt > 0 /\ dt > 0 /\ resetMax \in Seq(LimitRecord)
    BY <1>1, <1>5 DEF PInv
  <2>2. p \in Nat /\ FALSE \in BOOLEAN
    BY StepsAssumption
  <2>. QED BY <1>1, <1>3, <1>5, <2>1, <2>2, GetDtMoves
<1>. HIDE DEF g
<1>6. PInv'
  BY <1>3, <1>4, <1>5 DEF PInv
<1>7. StepsAreAsked => time' > time
  BY <1>1, <1>3, <1>5
<1>. QED BY <1>3, <1>4, <1>6, <1>7

LEMMA AdvanceFailsMoves ==
  ASSUME IInv, PInv, AdvanceFails
  PROVE  /\ PInv'
         /\ time' = time /\ tp' = tp /\ crashes' = crashes
         /\ pc = "loop" /\ pc' \in {"loop", "error"}
         /\ failures' > failures
<1>1. /\ Types /\ pc = "loop" /\ pc \in Running /\ time \in Nat /\ dt \in Nat /\ maxdt \in Nat
      /\ manual \in 0 .. Len(prescribed) /\ Left(resetInfo, resetMax) /\ failures \in Nat
  BY StepsAssumption DEF AdvanceFails, IInv, Types, Running
<1>2. PICK p \in PKSteps \cup {0} :
        LET g == GetDt(time, resetInfo, resetMax, maxdt, manual, p, TRUE)
        IN /\ TakeDt(g)
           /\ IF g.ok THEN pc' = pc ELSE pc' = "error"
  BY DEF AdvanceFails, Abort
<1>3. time' = time /\ disk' = disk /\ tp' = tp /\ crashes' = crashes /\ failures' = failures + 1
  BY DEF AdvanceFails
<1>. DEFINE g == GetDt(time, resetInfo, resetMax, maxdt, manual, p, TRUE)
<1>4. /\ dt' = g.dt /\ maxdt' = g.maxdt /\ resetMax' = g.resetMax
      /\ pc' \in Running => g.ok
      /\ pc' \in {"loop", "error"}
  BY <1>1, <1>2 DEF TakeDt, Running
<1>5. p \in Nat /\ TRUE \in BOOLEAN
  BY StepsAssumption
<1>6. ASSUME StepsAreAsked
      PROVE  /\ g.dt \in Nat
             /\ g.ok => g.dt > 0
             /\ g.maxdt > 0 /\ g.resetMax \in Seq(LimitRecord)
  <2>1. maxdt > 0 /\ resetMax \in Seq(LimitRecord)
    BY <1>1, <1>6 DEF PInv
  <2>. QED BY <1>1, <1>5, <1>6, <2>1, GetDtMoves
<1>. HIDE DEF g
<1>7. PInv'
  BY <1>3, <1>4, <1>6 DEF PInv
<1>. QED BY <1>1, <1>3, <1>4, <1>7

LEMMA NextPeriodMoves == ASSUME IInv, PInv, NextPeriod PROVE PInv'
<1>. DEFINE now == Periods[tp + 1].start
<1>1. /\ Types /\ pc = "loop" /\ pc \in Running /\ tp \in 1 .. N /\ tp < N
      /\ manual \in 0 .. Len(prescribed) /\ Left(resetInfo, resetMax)
  BY DEF NextPeriod, StartPeriod, IInv, Types, Working, Running, InItsPeriod
<1>2. tp + 1 \in 1 .. N
  BY <1>1, PeriodTypes
<1>3. PICK p \in PKSteps :
        LET g == GetDt(now, resetInfo, resetMax, Periods[tp'].maxdt, manual, p, FALSE)
        IN /\ TakeDt(g)
           /\ IF g.ok THEN pc' = pc ELSE pc' = "error"
  BY DEF NextPeriod, StartPeriod
<1>4. tp' = tp + 1 /\ disk' = disk
  BY DEF NextPeriod, StartPeriod
<1>. DEFINE g == GetDt(now, resetInfo, resetMax, Periods[tp'].maxdt, manual, p, FALSE)
<1>5. /\ dt' = g.dt /\ maxdt' = g.maxdt /\ resetMax' = g.resetMax
      /\ pc' \in Running => g.ok
  BY <1>1, <1>3 DEF TakeDt, Running
<1>6. ASSUME StepsAreAsked
      PROVE  (g.ok => g.dt > 0) /\ g.maxdt > 0 /\ g.resetMax \in Seq(LimitRecord)
  <2>1. resetMax \in Seq(LimitRecord)
    BY <1>1, <1>6 DEF PInv
  <2>2. p \in Nat /\ FALSE \in BOOLEAN /\ now \in Nat
    BY <1>2, StepsAssumption, PeriodTypes
  <2>3. Periods[tp'].maxdt \in Nat /\ Periods[tp'].maxdt > 0
    BY <1>2, <1>4, <1>6, PeriodTypes DEF StepsAreAsked
  <2>. HIDE DEF now
  <2>. QED BY <1>1, <1>6, <2>1, <2>2, <2>3, GetDtMoves
<1>. HIDE DEF g
<1>. QED BY <1>4, <1>5, <1>6 DEF PInv

LEMMA StepMoves == IInv /\ PInv /\ [Next]_vars => PInv'
<1>. SUFFICES ASSUME IInv, PInv, [Next]_vars PROVE PInv'
  OBVIOUS
<1>1. CASE Start
  BY <1>1, StartMoves
<1>2. CASE \E c \in DOMAIN disk : Restart(c)
  BY <1>2, RestartMoves
<1>3. CASE Advance
  BY <1>3, AdvanceMoves
<1>4. CASE AdvanceFails
  BY <1>4, AdvanceFailsMoves
<1>5. CASE NextPeriod
  BY <1>5, NextPeriodMoves
<1>6. CASE Finish
  BY <1>6 DEF Finish, PInv, Running
<1>7. CASE Visualize
  BY <1>7, StepStays DEF Visualize, memory, Running
<1>8. CASE Observe
  BY <1>8, StepStays DEF Observe, Running
<1>9. CASE CreateFile
  <2>1. pc \in Running /\ UNCHANGED <<dt, maxdt, resetMax>>
    BY <1>9 DEF CreateFile, memory, Running
  <2>2. disk' = disk \/ disk' = [c \in DOMAIN disk \ {cycle} |-> disk[c]]
    BY <1>9 DEF CreateFile
  <2>3. \A c \in DOMAIN disk' : c \in DOMAIN disk /\ disk'[c] = disk[c]
    BY <2>2
  <2>. QED BY <2>1, <2>3, StepStays
<1>10. CASE WriteCheckpoint
  <2>1. /\ pc \in Running /\ UNCHANGED <<dt, maxdt, resetMax>>
        /\ disk' = [c \in {cycle} \cup DOMAIN disk |-> IF c = cycle THEN Contents ELSE disk[c]]
    BY <1>10 DEF WriteCheckpoint, memory, Running
  <2>2. \A c \in DOMAIN disk' : disk'[c].dt = dt \/ (c \in DOMAIN disk /\ disk'[c] = disk[c])
    BY <2>1 DEF Contents
  <2>. QED BY <2>1, <2>2 DEF PInv
<1>11. CASE Crash
  BY <1>11 DEF Crash, PInv, Running
<1>12. CASE UNCHANGED vars
  BY <1>12 DEF vars, memory, PInv
<1>. QED BY <1>1, <1>2, <1>3, <1>4, <1>5, <1>6, <1>7, <1>8, <1>9, <1>10, <1>11, <1>12 DEF Next, Run

LEMMA PInvHolds == Spec => []PInv
<1>1. Init => PInv
  BY DEF Init, PInv, Running
<1>. QED BY <1>1, IInvHolds, StepMoves, PTL DEF Spec

\* The driver never tries an empty step, whatever cuts it: reset times, events,
\* prescribed steps, limits, failures, or a restart.
THEOREM NoStepIsEmpty == Spec => [](StepsAreAsked /\ pc \in Running => dt > 0)
<1>1. PInv => (StepsAreAsked /\ pc \in Running => dt > 0)
  BY DEF PInv
<1>. QED BY <1>1, PInvHolds, PTL

-----------------------------------------------------------------------------
\* How far the process has come, and the output that is to be made before the
\* loop goes on.
Phase == IF pc \in {"start", "down"} THEN 2 ELSE IF pc \in Running THEN 1 ELSE 0
Stage == CASE pc = "vis" -> 4 [] pc = "obs" -> 3 [] pc = "check" -> 2 [] pc = "write" -> 1
           [] OTHER -> 0

\* A step is a crash; or begins or ends the process; or goes on to the next
\* period; or moves the time; or follows a failure; or makes a part of the output.
UsesUp ==
  \/ crashes' > crashes
  \/ /\ crashes' = crashes
     /\ \/ Phase' < Phase
        \/ /\ Phase' = Phase
           /\ \/ tp' > tp
              \/ /\ tp' = tp
                 /\ \/ time' > time
                    \/ /\ time' = time
                       /\ \/ failures' > failures
                          \/ failures' = failures /\ Stage' < Stage

UsesUpBounds ==
  /\ crashes \in 0 .. MaxCrashes /\ Phase \in 0 .. 2 /\ tp \in 1 .. N + 1
  /\ failures \in 0 .. MaxFailures /\ Stage \in 0 .. 4
  /\ pc \in Running => tp \in 1 .. N /\ time \in 0 .. Periods[tp].end

\* Every step of the driver uses something up, and what is used up is bounded: a
\* run with finitely many crashes and failed steps makes finitely many steps, and
\* the bound on cycles is not needed.  That on failures is: after a failure the
\* driver takes whatever step the PK asks for, the same one again included.
THEOREM EveryStepUsesUp ==
  Spec => []UsesUpBounds /\ [][StepsAreAsked => UsesUp]_vars
<1>1. IInv => UsesUpBounds
  <2>. SUFFICES ASSUME IInv PROVE UsesUpBounds
    OBVIOUS
  <2>1. pc \in Running => tp \in 1 .. N /\ time \in 0 .. Periods[tp].end
    BY PeriodTypes DEF IInv, Types, Working, InItsPeriod
  <2>. QED BY <2>1 DEF UsesUpBounds, Phase, Stage, IInv, Types
<1>2. IInv /\ PInv /\ [Next]_vars => [StepsAreAsked => UsesUp]_vars
  <2>. SUFFICES ASSUME IInv, PInv, Next, StepsAreAsked PROVE UsesUp
    OBVIOUS
  <2>0. crashes \in Nat /\ time \in Nat /\ tp \in Nat /\ N \in Nat
    BY PeriodTypes, StepsAssumption DEF IInv, Types
  <2>1. CASE Start \/ \E c \in DOMAIN disk : Restart(c)
    <3>1. pc \in {"start", "down"} /\ pc' \in {"vis", "error"} /\ crashes' = crashes
      BY <2>1 DEF Start, Restart
    <3>. QED BY <3>1 DEF UsesUp, Phase, Running
  <2>2. CASE Advance
    <3>1. pc = "loop"
      BY <2>2 DEF Advance
    <3>. QED BY <2>2, <3>1, AdvanceMoves DEF UsesUp, Phase, Running
  <2>3. CASE AdvanceFails
    BY <2>3, AdvanceFailsMoves DEF UsesUp, Phase, Running, Stage
  <2>4. CASE NextPeriod
    <3>1. pc = "loop" /\ pc' \in {"loop", "error"} /\ tp' = tp + 1 /\ crashes' = crashes
      BY <2>4 DEF NextPeriod, StartPeriod
    <3>. QED BY <2>0, <3>1 DEF UsesUp, Phase, Running
  <2>5. CASE Finish
    BY <2>5 DEF Finish, UsesUp, Phase, Running
  <2>6. CASE Visualize \/ Observe \/ CreateFile \/ WriteCheckpoint
    <3>1. /\ crashes' = crashes /\ tp' = tp /\ time' = time /\ failures' = failures
          /\ \/ pc = "vis" /\ pc' = "obs"
             \/ pc = "obs" /\ pc' = "check"
             \/ pc = "check" /\ pc' \in {"write", "loop"}
             \/ pc = "write" /\ pc' = "loop"
      BY <2>6 DEF Visualize, Observe, CreateFile, WriteCheckpoint, memory
    <3>. QED BY <3>1 DEF UsesUp, Phase, Running, Stage
  <2>7. CASE Crash
    BY <2>0, <2>7 DEF Crash, UsesUp
  <2>. QED BY <2>1, <2>2, <2>3, <2>4, <2>5, <2>6, <2>7 DEF Next, Run
<1>. QED BY <1>1, <1>2, IInvHolds, PInvHolds, PTL DEF Spec

=============================================================================
