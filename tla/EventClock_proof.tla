-------------------------- MODULE EventClock_proof --------------------------
(* The clock keeps its properties for every registry of events and every     *)
(* proposed step.                                                            *)
EXTENDS EventClock, EventLemmas

ClockInv == events \in Registries /\ t \in Nat

LEMMA ClockInvHolds == Spec => []ClockInv
<1>1. Init => ClockInv
  BY DEF Init, ClockInv
<1>2. ClockInv /\ [Next]_<<events, t>> => ClockInv'
  <2>. SUFFICES ASSUME ClockInv, [Next]_<<events, t>> PROVE ClockInv'
    OBVIOUS
  <2>1. CASE Next
    <3>1. PICK d \in Steps : t' = t + Limit(events, t, d)
      BY <2>1 DEF Next
    <3>2. d \in Nat /\ \A e \in events : IsEvent(e)
      BY ClockAssumption DEF ClockInv
    <3>3. Limit(events, t, d) \in Nat
      BY <3>2, LimitStopsAtEvents DEF ClockInv
    <3>. QED BY <2>1, <3>1, <3>3 DEF Next, ClockInv
  <2>. QED BY <2>1 DEF ClockInv
<1>. QED BY <1>1, <1>2, PTL DEF Spec

\* For every registry of events, getNext is the first time after t that contains
\* accepts.
THEOREM NextIsTheFirst == Spec => []NextIsFirst
<1>1. ASSUME ClockInv PROVE NextIsFirst
  <2>. SUFFICES ASSUME NEW e \in events
                PROVE  LET next == NextOf(e, t)
                       IN IF next = None THEN \A x \in t + 1 .. t + Sight : ~ContainsTime(e, x)
                          ELSE /\ next > t
                               /\ ContainsTime(e, next)
                               /\ \A x \in t + 1 .. next - 1 : ~ContainsTime(e, x)
    BY DEF NextIsFirst
  <2>1. IsEvent(e) /\ Possible(e) /\ t \in Nat /\ Sight \in Nat
    BY <1>1, ClockAssumption DEF ClockInv
  <2>2. /\ NoneBefore(e, t, NextOf(e, t))
        /\ NextOf(e, t) # None => ContainsTime(e, NextOf(e, t))
    BY <2>1, NextOfEvent
  <2>. QED BY <2>1, <2>2 DEF NoneBefore, None
<1>. QED BY <1>1, ClockInvHolds, PTL

\* For every registry and every proposed step no sliver is left.
THEOREM NoSliverIsLeft == Spec => NoSliver
<1>. DEFINE Left == Coming(events, t) = {} \/
                LET next == Min(Coming(events, t))
                IN t' = next \/ (t' < next /\ 4 * (next - t') >= next - t)
<1>1. ASSUME ClockInv, [Next]_<<events, t>> PROVE [Left]_t
  <2>1. CASE Next
    <3>1. PICK d \in Steps : t' = t + Limit(events, t, d)
      BY <2>1 DEF Next
    <3>2. d \in Nat /\ t \in Nat /\ \A e \in events : IsEvent(e)
      BY <1>1, ClockAssumption DEF ClockInv
    <3>3. CASE Coming(events, t) # {}
      BY <3>1, <3>2, <3>3, LimitLeavesAQuarter
    <3>. QED BY <3>3
  <2>. QED BY <1>1, <2>1
<1>. QED BY <1>1, ClockInvHolds, PTL DEF Spec, NoSliver

\* Every step moves the clock, whatever is proposed and whatever cuts it.
THEOREM TheClockMoves == Spec => [][t' > t]_<<events, t>>
<1>1. ClockInv /\ [Next]_<<events, t>> => [t' > t]_<<events, t>>
  <2>. SUFFICES ASSUME ClockInv, Next PROVE t' > t
    OBVIOUS
  <2>1. PICK d \in Steps : t' = t + Limit(events, t, d)
    BY DEF Next
  <2>2. d \in Nat /\ d > 0 /\ t \in Nat /\ \A e \in events : IsEvent(e)
    BY ClockAssumption DEF ClockInv
  <2>. QED BY <2>1, <2>2, LimitStopsAtEvents
<1>. QED BY <1>1, ClockInvHolds, PTL DEF Spec
=============================================================================
