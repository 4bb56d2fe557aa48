------------------------ MODULE TransportStep_proof ------------------------
(* TransportStep for any flow steps, stable steps, chemistry and horizon:    *)
(* the substeps fit, water contents are those of flow, boundary conditions   *)
(* are taken inside their substep.                                           *)
EXTENDS TransportStep, TLAPS

Busy == {"slave", "cycle", "chemistry"}

\* The water content on the way from the previous to the present one.
Line(i) == IF wcPrev = time THEN time + i ELSE time + dt

\* The driver stays within its horizon.
Within == TypeOK /\ time + dt <= Horizon

\* Before a step of flow all contents are of the present time.
BeforeFlow ==
  pc = "flow" => /\ wc = time /\ held = time
                 /\ time < Horizon => dt > 0

\* The coupler's loop.
InStep ==
  pc \in Busy => /\ dt > 0 /\ done < dt /\ next > 0
                 /\ inter = time + done
                 /\ wc \in {time, time + dt}
                 /\ pc = "slave" /\ wc = time => done = 0 /\ held = time
                 /\ pc = "slave" /\ kind # "reactive" /\ done = 0 => wc = time

\* Transport that subcycles by itself takes the step of flow as a whole.
WholeStep ==
  pc = "slave" /\ kind = "transport" => wc = time /\ done = 0 /\ next >= dt

\* The loop of transport, as far as the time goes.
InLoop ==
  pc \in {"cycle", "chemistry"} =>
    /\ wc = time + dt /\ wcPrev \in {time, time + dt}
    /\ shift = done /\ next <= dt - done
    /\ sum <= next /\ physics = inter + sum
    /\ stable > 0 /\ interp = (stable < dt)
    /\ kind = "transport" => done = 0 /\ next = dt
    /\ kind # "reactive" /\ done = 0 => wcPrev = time
    /\ wcPrev = time => done = 0
    /\ pc = "chemistry" => kind = "reactive"

\* The contents it works with.
Contents ==
  pc = "cycle" =>
    /\ interp => buffer[IF swap THEN "start" ELSE "end"] = Line(sum + shift)
    /\ ~interp => start = wcPrev /\ end = wc /\ sum \in {0, next}

\* The content behind the concentrations: as long as prev_water_content is that of
\* the beginning of the step of flow it is followed, later only reached.
Concentrations ==
  pc \in {"cycle", "chemistry"} =>
    /\ wcPrev = time => tcc = IF interp THEN time + sum ELSE IF sum = 0 THEN time ELSE time + dt
    /\ wcPrev # time /\ sum > 0 => tcc = time + dt
    /\ pc = "chemistry" => sum = next

\* The length of the substep before the next one: what is left is no less.
Lengths ==
  pc = "cycle" =>
    /\ sum = 0 => cycle = FirstCycle
    /\ 0 < sum /\ sum < next =>
         cycle <= stable /\ 2 * cycle >= stable /\ next - sum >= cycle

AfterStep ==
  pc = "accepted" => wc = time + dt /\ held = wc

IInv == /\ Within /\ BeforeFlow /\ InStep /\ WholeStep
        /\ InLoop /\ Contents /\ Concentrations /\ Lengths /\ AfterStep

-----------------------------------------------------------------------------
(* Arithmetic                                                              *)

\* Interpolating between the ends of a step at i gives the content of i.
LEMMA InterpolatedIsLine ==
  ASSUME NEW t \in Nat, NEW d \in Nat \ {0}, NEW i \in Nat
  PROVE  /\ Interpolated(t, t + d, i, d) = t + i
         /\ Interpolated(t + d, t + d, i, d) = t + d
<1>1. (i * d) \div d = i
  <2> DEFINE q == (i * d) \div d
  <2>1. q \in Int /\ q * d <= i * d /\ i * d < (q + 1) * d
    BY Z3
  <2> QED BY <2>1, Z3
<1>2. (t + d) - t = d /\ (t + d) - (t + d) = 0
  OBVIOUS
<1>3. (i * 0) \div d = 0
  OBVIOUS
<1> QED BY <1>1, <1>2, <1>3 DEF Interpolated

\* A substep fits into what is left, is stable, no sliver, and leaves no less
\* than itself unless it is the last.
LEMMA CycleFits ==
  ASSUME stable \in Nat \ {0}, NEW r \in Nat \ {0}
  PROVE  LET c == CycleLength(r)
         IN /\ c \in Nat \ {0} /\ c <= r /\ c <= stable
            /\ 2 * c >= stable \/ c = r
            /\ c < r => r - c >= c
            /\ r >= stable => 2 * c >= stable
            /\ stable >= r => c = r
  BY DEF CycleLength

-----------------------------------------------------------------------------
(* The inductive invariant                                                 *)

LEMMA InitHolds == Init => IInv
<1> SUFFICES ASSUME Init PROVE IInv
  OBVIOUS
<1> USE TransportAssumption
<1>1. dt \in Nat /\ dt <= Horizon /\ (0 < Horizon => dt > 0)
  BY DEF Init, Smaller
<1>2. Within
  <2>1. buffer \in [Buffers -> Int]
    BY DEF Init
  <2>2. interp \in BOOLEAN /\ swap \in BOOLEAN /\ pc \in Labels /\ kind \in Kinds
    BY DEF Init, Labels
  <2>3. time = 0 /\ TypeOK
    BY <1>1, <2>1, <2>2 DEF Init, TypeOK
  <2> QED BY <1>1, <2>3 DEF Within
<1>3. BeforeFlow
  BY <1>1 DEF Init, BeforeFlow
<1>4. InStep /\ WholeStep /\ InLoop /\ Contents /\ Concentrations /\ Lengths /\ AfterStep
  BY DEF Init, InStep, WholeStep, InLoop, Contents, Concentrations, Lengths, AfterStep, Busy
<1> QED BY <1>2, <1>3, <1>4 DEF IInv

LEMMA FlowAdvancesKeeps == IInv /\ FlowAdvances => IInv'
<1> SUFFICES ASSUME IInv, FlowAdvances PROVE IInv'
  OBVIOUS
<1> USE TransportAssumption DEF IInv, FlowAdvances, coupler, contents, loop
<1>1. next' \in Nat \ {0} /\ next' <= dt /\ (kind = "transport" => next' = dt)
  BY DEF SlaveDt, Smaller, Within, TypeOK, BeforeFlow
<1>2. Within'
  BY <1>1 DEF Within, TypeOK, Labels
<1>3. (InStep /\ WholeStep)'
  BY <1>1 DEF Within, TypeOK, BeforeFlow, InStep, WholeStep, Busy
<1>4. (BeforeFlow /\ InLoop /\ Contents /\ Concentrations /\ Lengths /\ AfterStep)'
  BY DEF BeforeFlow, InLoop, Contents, Concentrations, Lengths, AfterStep
<1> QED BY <1>2, <1>3, <1>4

LEMMA FlowFailsKeeps == IInv /\ FlowFails => IInv'
<1> SUFFICES ASSUME IInv, FlowFails PROVE IInv'
  OBVIOUS
<1> USE DEF IInv, FlowFails, contents, loop
<1>1. dt' \in Nat /\ dt' <= dt /\ dt' > 0
  <2>1. dt \in Nat /\ dt > 0
    BY DEF Within, TypeOK, BeforeFlow
  <2>2. CASE dt' = dt
    BY <2>1, <2>2
  <2>3. CASE dt' \in {d \in FlowSteps : d < dt}
    BY <2>1, <2>3, TransportAssumption
  <2> QED BY <2>2, <2>3
<1>2. Within'
  <2>1. pc' \in Labels
    BY DEF Labels
  <2>2. TypeOK'
    BY <1>1, <2>1 DEF Within, TypeOK
  <2>3. (time + dt <= Horizon)'
    <3>1. time' = time /\ time \in Nat /\ dt \in Nat /\ time + dt <= Horizon
      BY DEF Within, TypeOK
    <3>2. \A t, d, e, h \in Nat : t + d <= h /\ e <= d => t + e <= h
      OBVIOUS
    <3>3. time + dt' <= Horizon
      BY <1>1, <3>1, <3>2, TransportAssumption
    <3> QED BY <3>1, <3>3
  <2> QED BY <2>2, <2>3 DEF Within
<1>3. BeforeFlow'
  BY <1>1 DEF BeforeFlow
<1>4. (InStep /\ WholeStep /\ InLoop /\ Contents /\ Concentrations /\ Lengths /\ AfterStep)'
  BY DEF InStep, WholeStep, InLoop, Contents, Concentrations, Lengths, AfterStep, Busy
<1> QED BY <1>2, <1>3, <1>4

LEMMA AcceptKeeps == IInv /\ Accept => IInv'
<1> SUFFICES ASSUME IInv, Accept PROVE IInv'
  OBVIOUS
<1> USE TransportAssumption DEF IInv, Accept, coupler, contents, loop
<1>1. time' \in Nat /\ time' <= Horizon
  BY DEF Within, TypeOK
<1>2. dt' \in Nat /\ time' + dt' <= Horizon /\ (time' < Horizon => dt' > 0)
  <2>1. PICK d \in FlowSteps : dt' = Smaller(d, Horizon - time')
    OBVIOUS
  <2> HIDE DEF IInv, Accept
  <2>2. d \in Nat \ {0}
    OBVIOUS
  <2>3. \A h, t, e \in Nat : t <= h /\ e > 0 =>
          /\ Smaller(e, h - t) \in Nat /\ t + Smaller(e, h - t) <= h
          /\ t < h => Smaller(e, h - t) > 0
    BY DEF Smaller
  <2>4. Horizon \in Nat /\ d > 0
    BY <2>2
  <2> QED BY <1>1, <2>1, <2>2, <2>3, <2>4
<1>3. Within'
  BY <1>1, <1>2 DEF Within, TypeOK, Labels
<1>4. BeforeFlow'
  BY <1>2 DEF BeforeFlow, AfterStep
<1>5. (InStep /\ WholeStep /\ InLoop /\ Contents /\ Concentrations /\ Lengths /\ AfterStep)'
  BY DEF InStep, WholeStep, InLoop, Contents, Concentrations, Lengths, AfterStep, Busy
<1> QED BY <1>3, <1>4, <1>5

LEMMA EnterKeeps == IInv /\ Enter => IInv'
<1> SUFFICES ASSUME IInv, Enter PROVE IInv'
  OBVIOUS
<1> USE TransportAssumption DEF IInv, Enter
<1>1. /\ dt \in Nat \ {0} /\ done \in Nat /\ done < dt /\ inter = time + done
      /\ time \in Nat /\ wc \in {time, time + dt} /\ Shift = done
      /\ wc = time => done = 0 /\ held = time
      /\ kind # "reactive" /\ done = 0 => wc = time
  BY DEF Within, TypeOK, InStep, Busy, Shift
<1>2. next' \in Nat \ {0} /\ next' <= dt - done
  BY <1>1 DEF Clipped, Smaller, Within, TypeOK, InStep, Busy
<1>3. stable' \in Nat \ {0}
  OBVIOUS
<1>4. kind = "transport" => done = 0 /\ next' = dt
  BY <1>1 DEF WholeStep, Clipped, Smaller, Within, TypeOK
<1>5. Interpolated(wc, time + dt, Shift, dt) = (IF wc = time THEN time + done ELSE time + dt)
  <2>1. Interpolated(time, time + dt, done, dt) = time + done
    BY <1>1, InterpolatedIsLine
  <2>2. Interpolated(time + dt, time + dt, done, dt) = time + dt
    BY <1>1, InterpolatedIsLine
  <2> QED BY <1>1, <2>1, <2>2
<1>6. cycle' \in Nat
  BY <1>2, <1>3 DEF FirstCycle
<1>7. Within'
  <2>1. buffer' \in [Buffers -> Int]
    <3>1. (IF wc = time THEN time + done ELSE time + dt) \in Int
      BY <1>1
    <3>2. buffer \in [Buffers -> Int]
      BY DEF Within, TypeOK
    <3> QED BY <1>5, <3>1, <3>2
  <2> QED BY <1>1, <1>2, <1>3, <1>6, <2>1 DEF Within, TypeOK, Labels
<1>8. (BeforeFlow /\ WholeStep /\ AfterStep)'
  BY DEF BeforeFlow, WholeStep, AfterStep
<1>9. (InStep /\ InLoop)'
  BY <1>1, <1>2, <1>3, <1>4 DEF InStep, InLoop, Busy
<1>10. Contents'
  <2>1. interp' => buffer'["start"] = IF wc = time THEN time + done ELSE time + dt
    BY <1>5 DEF Within, TypeOK, Buffers
  <2>2. Line(sum + shift)' = IF wc = time THEN time + done ELSE time + dt
    BY <1>1 DEF Line
  <2> QED BY <1>1, <1>4, <2>1, <2>2 DEF Contents, Within, TypeOK
<1>11. Lengths'
  BY DEF Lengths
<1>12. Concentrations'
  BY <1>1 DEF Concentrations
<1> QED BY <1>7, <1>8, <1>9, <1>10, <1>11, <1>12

\* What a pass of the loop finds and does.
LEMMA SubcycleFacts ==
  ASSUME IInv, Subcycle
  PROVE  /\ time \in Nat /\ dt \in Nat \ {0} /\ done \in Nat /\ sum \in Nat /\ sum < next
         /\ stable \in Nat \ {0} /\ next \in Nat /\ shift = done /\ next <= dt - done
         /\ inter = time + done /\ physics = inter + sum
         /\ cycle' \in Nat \ {0} /\ cycle' <= stable /\ sum + cycle' <= next
         /\ 2 * cycle' >= stable \/ cycle' = next
         /\ 2 * cycle' >= cycle \/ kind # "transport"
         /\ sum + cycle' < next => next - (sum + cycle') >= cycle' /\ 2 * cycle' >= stable
         /\ sum' = sum + cycle' /\ physics' = physics + cycle'
         /\ stable >= dt => sum' = next
         /\ start' = (IF interp THEN Line(sum + shift) ELSE wcPrev)
         /\ end' = (IF interp THEN Line(sum' + shift) ELSE wc)
         /\ buffer' \in [Buffers -> Int]
         /\ interp => buffer'[IF swap' THEN "start" ELSE "end"] = end'
         /\ swap' \in BOOLEAN /\ tcc' = end'
<1> USE DEF IInv
<1>1. /\ time \in Nat /\ dt \in Nat \ {0} /\ done \in Nat /\ sum \in Nat /\ sum < next
      /\ stable \in Nat \ {0} /\ next \in Nat /\ shift = done /\ next <= dt - done
      /\ inter = time + done /\ physics = inter + sum /\ cycle \in Nat
      /\ wc = time + dt /\ wcPrev \in {time, time + dt} /\ pc = "cycle"
      /\ interp = (stable < dt) /\ interp \in BOOLEAN /\ swap \in BOOLEAN
      /\ buffer \in [Buffers -> Int]
  BY DEF Within, TypeOK, InStep, InLoop, Busy, Subcycle
<1>2. cycle' = CycleLength(next - sum) /\ sum' = sum + cycle' /\ physics' = physics + cycle'
  BY DEF Subcycle
<1>3. /\ cycle' \in Nat \ {0} /\ cycle' <= next - sum /\ cycle' <= stable
      /\ 2 * cycle' >= stable \/ cycle' = next - sum
      /\ cycle' < next - sum => next - sum - cycle' >= cycle'
      /\ next - sum >= stable => 2 * cycle' >= stable
      /\ stable >= next - sum => cycle' = next - sum
  <2>1. next - sum \in Nat \ {0}
    BY <1>1
  <2> QED BY <1>1, <1>2, <2>1, CycleFits
<1>4. /\ sum + cycle' <= next
      /\ 2 * cycle' >= stable \/ cycle' = next
      /\ kind = "transport" => 2 * cycle' >= cycle
      /\ sum + cycle' < next => next - (sum + cycle') >= cycle' /\ 2 * cycle' >= stable
      /\ stable >= dt => sum + cycle' = next
  <2>1. /\ sum = 0 => cycle = (IF stable < dt THEN stable ELSE next)
        /\ sum > 0 => cycle <= stable /\ 2 * cycle >= stable /\ next - sum >= cycle
    BY <1>1 DEF Lengths, FirstCycle
  <2>2. sum = 0 /\ kind = "transport" => next = dt
    BY <1>1 DEF InLoop
  <2>3. PICK s \in Nat \ {0}, d \in Nat, o \in Nat, n \in Nat, u \in Nat, b \in Nat, c \in Nat \ {0} :
          s = stable /\ d = dt /\ o = done /\ n = next /\ u = sum /\ b = cycle /\ c = cycle'
    BY <1>1, <1>3
  <2>4. /\ c <= n - u /\ c <= s /\ (2 * c >= s \/ c = n - u)
        /\ c < n - u => n - u - c >= c
        /\ n - u >= s => 2 * c >= s
        /\ s >= n - u => c = n - u
    BY <1>3, <2>3
  <2>5. /\ u = 0 => b = (IF s < d THEN s ELSE n)
        /\ u > 0 => b <= s /\ 2 * b >= s /\ n - u >= b
        /\ u = 0 /\ kind = "transport" => n = d
        /\ u < n /\ n <= d - o
    BY <1>1, <2>1, <2>2, <2>3
  <2>6. /\ u + c <= n
        /\ 2 * c >= s \/ c = n
        /\ u + c < n => n - (u + c) >= c /\ 2 * c >= s
        /\ s >= d => u + c = n
    BY <2>4, <2>5
  <2>7. kind = "transport" => 2 * c >= b
    BY <2>4, <2>5
  <2> QED BY <2>3, <2>6, <2>7
<1>5. Interpolated(wcPrev, wc, sum' + shift, dt) = Line(sum' + shift)
  <2>1. sum' + shift \in Nat
    BY <1>1, <1>2, <1>3
  <2>2. Interpolated(time, time + dt, sum' + shift, dt) = time + (sum' + shift)
    BY <1>1, <2>1, InterpolatedIsLine
  <2>3. Interpolated(time + dt, time + dt, sum' + shift, dt) = time + dt
    BY <1>1, <2>1, InterpolatedIsLine
  <2> QED BY <1>1, <2>2, <2>3 DEF Line
<1>6. Line(sum' + shift) \in Int
  BY <1>1, <1>2, <1>3 DEF Line
<1>7. CASE interp
  <2>1. PICK from \in Buffers : \E into \in Buffers \ {from} :
            /\ from = "start" <=> swap
            /\ buffer' = [buffer EXCEPT ![into] = Interpolated(wcPrev, wc, sum' + shift, dt)]
            /\ start' = buffer[from]
            /\ end' = buffer'[into]
    BY <1>7 DEF Subcycle
  <2>2. PICK into \in Buffers \ {from} :
            /\ from = "start" <=> swap
            /\ buffer' = [buffer EXCEPT ![into] = Interpolated(wcPrev, wc, sum' + shift, dt)]
            /\ start' = buffer[from]
            /\ end' = buffer'[into]
    BY <2>1
  <2>3. from = (IF swap THEN "start" ELSE "end") /\ into = (IF swap THEN "end" ELSE "start")
    BY <1>1, <2>2 DEF Buffers
  <2>4. buffer[from] = Line(sum + shift)
    BY <1>1, <1>7, <2>3 DEF Contents
  <2>5. buffer' \in [Buffers -> Int] /\ buffer'[into] = Line(sum' + shift)
    BY <1>1, <1>5, <1>6, <2>2
  <2>6. swap' = ~swap /\ tcc' = end'
    BY <1>7 DEF Subcycle, Rotated
  <2>7. swap' \in BOOLEAN /\ buffer'[IF swap' THEN "start" ELSE "end"] = buffer'[into]
    BY <1>1, <2>3, <2>6
  <2> QED BY <1>1, <1>2, <1>3, <1>4, <1>7, <2>2, <2>4, <2>5, <2>6, <2>7
<1>8. CASE ~interp
  <2>1. buffer' = buffer /\ start' = start /\ end' = end /\ swap' = swap /\ tcc' = end'
    BY <1>8 DEF Subcycle, Rotated
  <2>2. start = wcPrev /\ end = wc
    BY <1>1, <1>8 DEF Contents
  <2> QED BY <1>1, <1>2, <1>3, <1>4, <1>8, <2>1, <2>2
<1> QED BY <1>1, <1>7, <1>8

LEMMA SubcycleKeeps == IInv /\ Subcycle => IInv'
<1> SUFFICES ASSUME IInv, Subcycle PROVE IInv'
  OBVIOUS
<1>1. /\ pc = "cycle" /\ pc' = pc /\ UNCHANGED <<coupler, contents, stable, interp, shift>>
      /\ boundary' = 2 * physics + cycle
  BY DEF Subcycle
<1>2. Line(sum + shift) \in Int /\ Line(sum' + shift) \in Int /\ wc \in Nat /\ wcPrev \in Nat
  BY SubcycleFacts DEF IInv, Within, TypeOK, Line
<1>3. start' \in Int /\ end' \in Int
  BY <1>2, SubcycleFacts
<1>4. sum' \in Nat /\ physics' \in Nat /\ boundary' \in Nat /\ tcc' \in Int
  BY <1>1, <1>3, SubcycleFacts DEF IInv, Within, TypeOK
<1>5. Within'
  <2>1. TypeOK'
    BY <1>1, <1>3, <1>4, SubcycleFacts DEF IInv, Within, TypeOK, coupler, contents
  <2> QED BY <1>1, <2>1 DEF IInv, Within, coupler
<1>6. (BeforeFlow /\ WholeStep /\ AfterStep)'
  BY <1>1 DEF BeforeFlow, WholeStep, AfterStep
<1>7. InStep'
  BY <1>1 DEF IInv, InStep, Busy, coupler, contents
<1>8. InLoop'
  <2>1. physics' = inter' + sum'
    <3>1. \A a, b, c \in Nat : (a + b) + c = a + (b + c)
      OBVIOUS
    <3>2. inter \in Nat
      BY DEF IInv, Within, TypeOK
    <3> QED BY <1>1, <3>1, <3>2, SubcycleFacts DEF coupler
  <2>2. sum' <= next'
    BY <1>1, SubcycleFacts DEF coupler
  <2> QED BY <1>1, <2>1, <2>2 DEF IInv, InLoop, coupler, contents
<1>9. Contents'
  <2>1. interp' => buffer'[IF swap' THEN "start" ELSE "end"] = Line(sum + shift)'
    BY <1>1, SubcycleFacts DEF Line, coupler, contents
  <2>2. ~interp' => start' = wcPrev' /\ end' = wc' /\ sum' \in {0, next}'
    <3> SUFFICES ASSUME ~interp PROVE start' = wcPrev /\ end' = wc /\ sum' = next
      BY <1>1 DEF coupler, contents
    <3>1. \A a, b \in Nat : ~(a < b) => a >= b
      OBVIOUS
    <3>2. interp = (stable < dt)
      BY <1>1 DEF IInv, InLoop
    <3> QED BY <3>1, <3>2, SubcycleFacts
  <2> QED BY <2>1, <2>2 DEF Contents
<1>11. Concentrations'
  <2>1. /\ wc = time + dt /\ wcPrev \in {time, time + dt} /\ interp = (stable < dt)
        /\ wcPrev = time => done = 0
    BY <1>1 DEF IInv, InLoop
  <2>2. sum' > 0 /\ tcc' = end' /\ pc' = "cycle"
    BY <1>1, SubcycleFacts
  <2>3. CASE interp
    <3>1. tcc' = Line(sum' + shift)
      BY <2>2, <2>3, SubcycleFacts
    <3>2. wcPrev = time => tcc' = time + sum'
      BY <1>4, <2>1, <3>1, SubcycleFacts DEF Line
    <3>3. wcPrev # time => tcc' = time + dt
      BY <3>1 DEF Line
    <3> QED BY <1>1, <2>2, <2>3, <3>2, <3>3 DEF Concentrations, coupler, contents
  <2>4. CASE ~interp
    <3>1. tcc' = time + dt
      BY <2>1, <2>2, <2>4, SubcycleFacts
    <3>2. sum' # 0
      BY <1>4, <2>2
    <3> QED BY <1>1, <2>2, <2>4, <3>1, <3>2 DEF Concentrations, coupler, contents
  <2> QED BY <2>3, <2>4
<1>10. Lengths'
  <2>1. sum' > 0
    BY SubcycleFacts
  <2>2. sum' < next' => cycle' <= stable' /\ 2 * cycle' >= stable' /\ next' - sum' >= cycle'
    BY <1>1, SubcycleFacts DEF coupler
  <2> QED BY <1>4, <2>1, <2>2 DEF Lengths
<1> QED BY <1>5, <1>6, <1>7, <1>8, <1>9, <1>10, <1>11 DEF IInv

LEMMA SucceedsKeeps ==
  ASSUME IInv, Succeeds, pc \in {"cycle", "chemistry"}, sum = next
  PROVE  IInv'
<1>1. /\ dt \in Nat \ {0} /\ done \in Nat /\ next \in Nat \ {0} /\ time \in Nat
      /\ next <= dt - done /\ wc = time + dt
  BY DEF IInv, Within, TypeOK, InStep, InLoop, Busy
<1>2. done' = done + next /\ inter' = time + done' /\ held' = tcc
  BY DEF Succeeds
<1>3. done' \in Nat /\ done' <= dt /\ inter' \in Nat /\ dt - done' \in Nat
  BY <1>1, <1>2
<1>4. /\ kind = "transport" => done' = dt
      /\ done' = dt => held' = wc
  <2>1. kind = "transport" => done = 0 /\ next = dt
    BY DEF IInv, InLoop
  <2>2. ASSUME done' = dt PROVE held' = wc
    <3>1. /\ wcPrev = time => tcc = IF interp THEN time + next ELSE time + dt
          /\ wcPrev # time => tcc = time + dt
          /\ wcPrev = time => done = 0
      BY <1>1 DEF IInv, InLoop, Concentrations
    <3> QED BY <1>1, <1>2, <2>2, <3>1
  <2> QED BY <1>1, <1>2, <2>1, <2>2
<1>5. next' \in Nat
  BY <1>1, TransportAssumption DEF Succeeds
<1>6. /\ pc' \in {"thrown", "accepted", "slave"}
      /\ pc' = "slave" => next' >= MinSub /\ dt - done' # 0
      /\ pc' = "accepted" => dt - done' = 0
  BY <1>5, TransportAssumption DEF Succeeds, Continue
<1>7. Within'
  <2>1. tcc \in Int
    BY DEF IInv, Within, TypeOK
  <2>2. TypeOK'
    BY <1>2, <1>3, <1>5, <1>6, <2>1 DEF IInv, Within, TypeOK, Succeeds, Labels, loop
  <2> QED BY <2>2 DEF IInv, Within, Succeeds
<1>8. (BeforeFlow /\ InLoop /\ Contents /\ Concentrations /\ Lengths)'
  BY <1>6 DEF BeforeFlow, InLoop, Contents, Concentrations, Lengths
<1>9. InStep'
  <2>1. pc' = "slave" => next' > 0 /\ done' < dt
    <3>1. \A a, b \in Nat : a <= b /\ b - a # 0 => a < b
      OBVIOUS
    <3>2. \A a \in Nat, b \in Nat \ {0} : a >= b => a > 0
      OBVIOUS
    <3> QED BY <1>1, <1>3, <1>5, <1>6, <3>1, <3>2, TransportAssumption
  <2>2. wc' = time' + dt' /\ wc' # time' /\ done' # 0
    BY <1>1, <1>2 DEF Succeeds
  <2> QED BY <1>1, <1>2, <1>6, <2>1, <2>2 DEF InStep, Busy, Succeeds
<1>10. WholeStep'
  BY <1>1, <1>4, <1>6 DEF WholeStep, Succeeds
<1>11. AfterStep'
  BY <1>1, <1>3, <1>4, <1>6 DEF AfterStep, Succeeds
<1> QED BY <1>7, <1>8, <1>9, <1>10, <1>11 DEF IInv

LEMMA ReactKeeps == IInv /\ React => IInv'
<1> SUFFICES ASSUME IInv, React PROVE IInv'
  OBVIOUS
<1> USE DEF IInv, React, coupler, contents, loop
<1>1. Within'
  BY DEF Within, TypeOK, Labels
<1>2. (BeforeFlow /\ InStep /\ WholeStep /\ InLoop)'
  BY DEF BeforeFlow, InStep, WholeStep, InLoop, Busy
<1>3. (Contents /\ Concentrations /\ Lengths /\ AfterStep)'
  BY DEF Contents, Concentrations, Lengths, AfterStep
<1> QED BY <1>1, <1>2, <1>3

LEMMA ChemistryFailsKeeps == IInv /\ ChemistryFails => IInv'
<1> SUFFICES ASSUME IInv, ChemistryFails PROVE IInv'
  OBVIOUS
<1>1. kind = "reactive" /\ dt \in Nat /\ done \in Nat /\ done < dt /\ next \in Nat
  BY DEF IInv, InLoop, InStep, Busy, ChemistryFails, Within, TypeOK
<1>2. next' \in Nat
  BY <1>1 DEF ChemistryFails, Retried
<1>3. pc' \in {"thrown", "slave"} /\ (pc' = "slave" => next' > 0)
  BY <1>1, <1>2, TransportAssumption DEF ChemistryFails, Continue
<1> USE DEF IInv, ChemistryFails, contents, loop
<1>4. Within'
  BY <1>2, <1>3 DEF Within, TypeOK, Labels
<1>5. InStep'
  <2>1. wc = time + dt /\ dt > 0 /\ time \in Nat
    BY DEF InLoop, InStep, Busy, Within, TypeOK
  <2>2. wc # time
    BY <1>1, <2>1
  <2> QED BY <1>1, <1>3, <2>2 DEF InStep, Busy
<1>6. (BeforeFlow /\ WholeStep /\ InLoop /\ Contents /\ Concentrations /\ Lengths /\ AfterStep)'
  BY <1>1, <1>3 DEF BeforeFlow, WholeStep, InLoop, Contents, Concentrations, Lengths, AfterStep
<1> QED BY <1>4, <1>5, <1>6

LEMMA StutterKeeps == IInv /\ UNCHANGED vars => IInv'
  BY DEF vars, coupler, contents, loop, IInv, Within, TypeOK, BeforeFlow, InStep, WholeStep,
     InLoop, Contents, Concentrations, Lengths, AfterStep, Line, FirstCycle

LEMMA StepKeeps == IInv /\ [Next]_vars => IInv'
<1> SUFFICES ASSUME IInv, [Next]_vars PROVE IInv'
  OBVIOUS
<1>1. CASE FlowAdvances
  BY <1>1, FlowAdvancesKeeps
<1>2. CASE FlowFails
  BY <1>2, FlowFailsKeeps
<1>3. CASE Accept
  BY <1>3, AcceptKeeps
<1>4. CASE Enter
  BY <1>4, EnterKeeps
<1>5. CASE Subcycle
  BY <1>5, SubcycleKeeps
<1>6. CASE Leave
  BY <1>6, SucceedsKeeps DEF Leave
<1>7. CASE React
  BY <1>7, ReactKeeps
<1>8. CASE ChemistrySucceeds
  <2>1. sum = next
    BY <1>8 DEF ChemistrySucceeds, IInv, Concentrations
  <2> QED BY <1>8, <2>1, SucceedsKeeps DEF ChemistrySucceeds
<1>9. CASE ChemistryFails
  BY <1>9, ChemistryFailsKeeps
<1>10. CASE UNCHANGED vars
  BY <1>10, StutterKeeps
<1> QED BY <1>1, <1>2, <1>3, <1>4, <1>5, <1>6, <1>7, <1>8, <1>9, <1>10 DEF Next

LEMMA IInvHolds == Spec => []IInv
  BY InitHolds, StepKeeps, PTL DEF Spec

-----------------------------------------------------------------------------
(* The properties                                                          *)

LEMMA GrowsInSubcycle == IInv /\ Next /\ sum' > sum => Subcycle
<1> SUFFICES ASSUME IInv, Next, sum' > sum PROVE Subcycle
  OBVIOUS
<1>1. sum \in Nat
  BY DEF IInv, Within, TypeOK
<1>2. ~(0 > sum) /\ ~(sum > sum)
  BY <1>1
<1>3. ~Enter
  BY <1>2 DEF Enter
<1>4. ~(sum' = sum)
  BY <1>2
<1> QED BY <1>3, <1>4 DEF Next, FlowAdvances, FlowFails, Accept, Leave, React,
           ChemistrySucceeds, ChemistryFails, Succeeds, loop

LEMMA NotLess == \A a, b \in Nat : ~(a < b) => a >= b
  OBVIOUS

\* Every substep of transport that subcycles by itself starts from the content its
\* concentrations were divided by and ends with the content of its own end;
\* without it, the first part of a step of flow still starts from it.
THEOREM MassIsKept == Spec => MassFollowsFlow
<1>1. IInv /\ [Next]_vars =>
        [sum' > sum =>
           /\ kind = "transport" => start' = tcc /\ end' = physics'
           /\ kind = "unsubcycled" /\ done = 0 => start' = tcc]_vars
  <2> SUFFICES ASSUME IInv, Next, sum' > sum
               PROVE  /\ kind = "transport" => start' = tcc /\ end' = physics'
                      /\ kind = "unsubcycled" /\ done = 0 => start' = tcc
    BY DEF vars
  <2>1. Subcycle
    BY GrowsInSubcycle
  <2>2. /\ wc = time + dt /\ interp = (stable < dt)
        /\ kind = "transport" => done = 0 /\ next = dt
        /\ kind # "reactive" /\ done = 0 => wcPrev = time
        /\ ~interp => sum \in {0, next}
        /\ wcPrev = time => tcc = IF interp THEN time + sum ELSE IF sum = 0 THEN time ELSE time + dt
    BY <2>1 DEF IInv, InLoop, Contents, Concentrations, Subcycle
  <2>3. /\ sum' \in Nat /\ time \in Nat /\ sum' = sum + cycle' /\ cycle' \in Nat /\ sum \in Nat
        /\ sum < next
    <3>1. \A a, b \in Nat : a + b \in Nat
      OBVIOUS
    <3> QED BY <2>1, <3>1, SubcycleFacts
  <2>4. ASSUME wcPrev = time, done = 0 PROVE start' = tcc
    <3>1. CASE interp
      BY <2>1, <2>2, <2>3, <2>4, <3>1, SubcycleFacts DEF Line
    <3>2. CASE ~interp
      BY <2>1, <2>2, <2>3, <2>4, <3>2, SubcycleFacts
    <3> QED BY <3>1, <3>2
  <2>5. ASSUME kind = "transport" PROVE end' = physics'
    <3>1. wcPrev = time /\ done = 0 /\ next = dt
      BY <2>2, <2>5
    <3>2. physics' = time + sum'
      <4>1. \A a, b, c \in Nat : ((a + 0) + b) + c = a + (b + c)
        OBVIOUS
      <4> QED BY <2>1, <2>3, <3>1, <4>1, SubcycleFacts
    <3>3. CASE interp
      BY <2>1, <2>3, <3>1, <3>2, <3>3, SubcycleFacts DEF Line
    <3>4. CASE ~interp
      <4>1. end' = time + dt
        BY <2>1, <2>2, <3>4, SubcycleFacts
      <4>2. sum' = next
        BY <2>1, <2>2, <3>4, NotLess, SubcycleFacts
      <4> QED BY <3>1, <3>2, <4>1, <4>2
    <3> QED BY <3>3, <3>4
  <2> QED BY <2>2, <2>4, <2>5
<1> QED BY <1>1, IInvHolds, PTL DEF Spec, MassFollowsFlow

\* No water content lies outside the step of flow.
THEOREM NothingExtrapolated == Spec => NoExtrapolation
<1>1. IInv /\ [Next]_vars =>
        [sum' > sum => time <= start' /\ start' <= end' /\ end' <= time + dt]_vars
  <2> SUFFICES ASSUME IInv, Next, sum' > sum
               PROVE  time <= start' /\ start' <= end' /\ end' <= time + dt
    BY DEF vars
  <2>1. Subcycle
    BY GrowsInSubcycle
  <2>2. wc = time + dt /\ wcPrev \in {time, time + dt}
    BY <2>1 DEF IInv, InLoop, Subcycle
  <2>3. PICK t \in Nat, d \in Nat, o \in Nat, n \in Nat, u \in Nat, c \in Nat :
          /\ t = time /\ d = dt /\ o = done /\ n = next /\ u = sum /\ c = cycle'
          /\ sum' = u + c /\ u + c <= n /\ n <= d - o /\ shift = o
    BY <2>1, SubcycleFacts
  <2>4. /\ t <= t + (u + o) /\ t + (u + o) <= t + ((u + c) + o) /\ t + ((u + c) + o) <= t + d
        /\ t <= t + d
    <3>1. \A x, y, z, v, w, m \in Nat :
            v + m <= w /\ w <= y - z =>
              /\ x <= x + (v + z) /\ x + (v + z) <= x + ((v + m) + z)
              /\ x + ((v + m) + z) <= x + y
              /\ x <= x + y
      OBVIOUS
    <3> QED BY <2>3, <3>1
  <2>5. CASE interp
    <3>1. start' = Line(u + o) /\ end' = Line((u + c) + o)
      BY <2>1, <2>3, <2>5, SubcycleFacts
    <3>2. CASE wcPrev = time
      BY <2>3, <2>4, <3>1, <3>2 DEF Line
    <3>3. CASE wcPrev # time
      <4>1. start' = t + d /\ end' = t + d
        BY <2>3, <3>1, <3>3 DEF Line
      <4> QED BY <2>3, <2>4, <4>1
    <3> QED BY <3>2, <3>3
  <2>6. CASE ~interp
    BY <2>1, <2>2, <2>3, <2>4, <2>6, SubcycleFacts
  <2> QED BY <2>5, <2>6
<1> QED BY <1>1, IInvHolds, PTL DEF Spec, NoExtrapolation

\* The substeps fit into the step, are stable, and none is a sliver.
THEOREM SubstepsAreStable == Spec => StableSubsteps
<1>1. IInv /\ [Next]_vars =>
        [sum' > sum => /\ cycle' <= stable /\ sum' <= next
                       /\ 2 * cycle' >= stable \/ cycle' = next]_vars
  BY GrowsInSubcycle, SubcycleFacts DEF vars
<1> QED BY <1>1, IInvHolds, PTL DEF Spec, StableSubsteps

\* Transport that takes the step of flow as a whole evaluates its boundary
\* conditions inside the substep, though with the length of the one before.
THEOREM BoundariesAreInside == Spec => BoundariesInside
<1>1. IInv /\ [Next]_vars =>
        [kind = "transport" /\ sum' > sum =>
           2 * physics <= boundary' /\ boundary' <= 2 * physics']_vars
  <2> SUFFICES ASSUME IInv, Next, kind = "transport", sum' > sum
               PROVE  2 * physics <= boundary' /\ boundary' <= 2 * physics'
    BY DEF vars
  <2>1. Subcycle
    BY GrowsInSubcycle
  <2>2. PICK p \in Nat, b \in Nat, c \in Nat :
          p = physics /\ b = cycle /\ c = cycle' /\ physics' = p + c /\ 2 * c >= b
          /\ boundary' = 2 * p + b
    BY <2>1, SubcycleFacts DEF IInv, Within, TypeOK, Subcycle
  <2>3. \A x, y, z \in Nat : 2 * z >= y => 2 * x <= 2 * x + y /\ 2 * x + y <= 2 * (x + z)
    OBVIOUS
  <2> QED BY <2>2, <2>3
<1> QED BY <1>1, IInvHolds, PTL DEF Spec, BoundariesInside

-----------------------------------------------------------------------------
(* The types, and why the run ends.  Liveness itself is left to TLC; the   *)
(* facts it rests on are stated of the steps.                              *)

\* Contents are of times, buffers and concentrations may be anything between.
THEOREM TypeCorrect == Spec => []TypeOK
<1>1. IInv => TypeOK
  BY DEF IInv, Within
<1> QED BY <1>1, IInvHolds, PTL

\* How far a step of flow and, in it, a step of the slave are from their end.
Stage == CASE pc = "flow" -> 3 [] pc \in Busy -> 2 [] pc = "accepted" -> 1 [] OTHER -> 0
Place == CASE pc = "slave" -> 2 [] pc = "cycle" -> 1 [] OTHER -> 0

\* Within a step of the slave: the step tried gets shorter, or it gets further.
SlaveUsesUp ==
  \/ next' < next
  \/ next' = next /\ (Place' < Place \/ (Place' = Place /\ sum' > sum))

\* A step moves the time; or gets further with the step of flow; or flow asks
\* for less; or the slave covers some of the step, or uses up its own.
UsesUp ==
  \/ time' > time
  \/ /\ time' = time
     /\ \/ Stage' < Stage
        \/ Stage' = Stage /\ dt' < dt
        \/ /\ Stage' = Stage /\ dt' = dt
           /\ done' > done \/ (done' = done /\ SlaveUsesUp)

\* None of this goes on for ever, and there is always a way on: flow is tried
\* before the horizon only, and the loop ends exactly at the end of its step.
UsesUpBounds ==
  /\ time \in 0 .. Horizon /\ dt \in Nat /\ next \in Nat
  /\ Stage \in 0 .. 3 /\ Place \in 0 .. 2
  /\ pc \in Busy => done \in 0 .. dt
  /\ pc = "cycle" => sum \in 0 .. next
  /\ pc = "flow" /\ Horizon > 0 => time < Horizon

Short ==
  /\ pc = "flow" /\ Horizon > 0 => time < Horizon
  /\ pc = "accepted" => dt > 0

LEMMA BoundsOfIInv == IInv /\ Short => UsesUpBounds
<1> SUFFICES ASSUME IInv, Short PROVE UsesUpBounds
  OBVIOUS
<1>1. /\ time \in Nat /\ dt \in Nat /\ next \in Nat /\ done \in Nat /\ sum \in Nat
      /\ time + dt <= Horizon
      /\ pc \in Busy => done < dt
      /\ pc = "cycle" => sum <= next
  BY DEF IInv, Within, TypeOK, InStep, InLoop
<1>2. Stage \in 0 .. 3 /\ Place \in 0 .. 2
  BY DEF Stage, Place
<1> QED BY <1>1, <1>2, TransportAssumption DEF UsesUpBounds, Short

LEMMA ShortKept == IInv /\ Short /\ [Next]_vars => Short'
<1> SUFFICES ASSUME IInv, Short, [Next]_vars PROVE Short'
  OBVIOUS
<1>1. CASE FlowFails
  BY <1>1 DEF FlowFails, Short
<1>2. CASE Accept
  <2>1. time \in Nat /\ dt \in Nat /\ time + dt <= Horizon
    BY DEF IInv, Within, TypeOK
  <2> QED BY <1>2, <2>1, TransportAssumption DEF Accept, Short
<1>3. CASE UNCHANGED vars
  BY <1>3 DEF vars, coupler, Short
<1>4. CASE Leave \/ ChemistrySucceeds \/ ChemistryFails
  <2>1. pc \in Busy /\ dt' = dt /\ pc' \in {"thrown", "accepted", "slave"}
    BY <1>4 DEF Leave, ChemistrySucceeds, ChemistryFails, Succeeds, Continue, Busy
  <2> QED BY <2>1 DEF IInv, InStep, Short
<1>5. CASE FlowAdvances \/ Enter \/ React
  BY <1>5 DEF FlowAdvances, Enter, React, Short
<1>6. CASE Subcycle
  BY <1>6 DEF Subcycle, Short
<1> QED BY <1>1, <1>2, <1>3, <1>4, <1>5, <1>6 DEF Next

LEMMA StepUsesUp == IInv /\ Short /\ Next => UsesUp
<1> SUFFICES ASSUME IInv, Short, Next PROVE UsesUp
  OBVIOUS
<1>1. /\ time \in Nat /\ dt \in Nat /\ next \in Nat /\ done \in Nat /\ sum \in Nat
      /\ pc \in Busy => next > 0 /\ done < dt
  BY DEF IInv, Within, TypeOK, InStep
<1>2. CASE FlowAdvances
  BY <1>2 DEF FlowAdvances, UsesUp, Stage, Busy
<1>3. CASE FlowFails
  BY <1>1, <1>3 DEF FlowFails, UsesUp, Stage, Busy
<1>4. CASE Accept
  <2>1. dt > 0
    BY <1>4 DEF Accept, Short
  <2> QED BY <1>1, <1>4, <2>1 DEF Accept, UsesUp
<1>5. CASE Enter
  <2>1. next' <= next /\ next' \in Nat
    BY <1>1, <1>5 DEF Enter, Clipped, Smaller, Busy
  <2>2. Stage = 2 /\ Stage' = 2 /\ Place = 2 /\ Place' = 1
    BY <1>5 DEF Enter, Stage, Place, Busy
  <2>3. time' = time /\ dt' = dt /\ done' = done
    BY <1>5 DEF Enter
  <2> QED BY <1>1, <2>1, <2>2, <2>3 DEF UsesUp, SlaveUsesUp
<1>6. CASE Subcycle
  <2>1. sum' > sum
    BY <1>1, <1>6, SubcycleFacts
  <2>2. Stage' = Stage /\ Place' = Place
    BY <1>6 DEF Subcycle, Stage, Place, Busy
  <2>3. time' = time /\ dt' = dt /\ done' = done /\ next' = next
    BY <1>6 DEF Subcycle, coupler
  <2> QED BY <2>1, <2>2, <2>3 DEF UsesUp, SlaveUsesUp
<1>7. CASE Leave \/ ChemistrySucceeds
  <2>1. pc \in Busy /\ Succeeds
    BY <1>7 DEF Leave, ChemistrySucceeds, Busy
  <2>2. time' = time /\ dt' = dt /\ done' = done + next
    BY <2>1 DEF Succeeds
  <2>3. pc' \in {"thrown", "accepted", "slave"}
    BY <2>1 DEF Succeeds, Continue
  <2>4. Stage = 2 /\ Stage' \in {0, 1, 2}
    BY <2>1, <2>3 DEF Stage, Busy
  <2> QED BY <1>1, <2>1, <2>2, <2>4 DEF UsesUp
<1>8. CASE React
  BY <1>8 DEF React, coupler, UsesUp, SlaveUsesUp, Stage, Place, Busy
<1>9. CASE ChemistryFails
  <2>1. next' < next /\ next > 0
    BY <1>1, <1>9 DEF ChemistryFails, Retried, Busy
  <2>2. pc' \in {"thrown", "accepted", "slave"}
    BY <1>9 DEF ChemistryFails, Continue
  <2>3. Stage = 2 /\ Stage' \in {0, 1, 2}
    BY <1>9, <2>2 DEF ChemistryFails, Stage, Busy
  <2>4. time' = time /\ dt' = dt /\ done' = done
    BY <1>9 DEF ChemistryFails
  <2> QED BY <2>1, <2>3, <2>4 DEF UsesUp, SlaveUsesUp
<1> QED BY <1>2, <1>3, <1>4, <1>5, <1>6, <1>7, <1>8, <1>9 DEF Next

\* Every step of the run uses something up, and what is used up is bounded: flow
\* and chemistry cannot refuse steps, nor transport subcycle, without end.
THEOREM EveryStepUsesUp == Spec => []UsesUpBounds /\ [][UsesUp]_vars
<1>1. Init => Short
  BY DEF Init, Short
<1>2. IInv /\ Short /\ [Next]_vars => [UsesUp]_vars
  BY StepUsesUp
<1> QED BY <1>1, <1>2, ShortKept, BoundsOfIInv, IInvHolds, PTL DEF Spec
=============================================================================
