--------------------------- MODULE MCCycleDriver ---------------------------
(* Schedules for CycleDriver: two periods with a reset time in the second;   *)
(* a period cut short by its number of cycles and one with two reset times   *)
(* and step limits; one long period with reset times; prescribed timesteps.  *)
EXTENDS CycleDriver

Period(s, e, d, m, c) == [start |-> s, end |-> e, dt |-> d, maxdt |-> m, cycles |-> c]

TwoPeriods == <<Period(0, 5, 1, 3, None), Period(5, 9, 2, 2, None)>>
OneReset == <<[time |-> 7, dt |-> 1]>>

LongPeriod == <<Period(0, 9, 1, 9, None)>>
TwoResets == <<[time |-> 2, dt |-> 1], [time |-> 4, dt |-> 1]>>
TwoMaxs == <<[time |-> 2, dt |-> 3], [time |-> 4, dt |-> 2]>>

CutPeriods == <<Period(0, 6, 1, 9, 3), Period(6, 15, 1, 9, None)>>
LateResets == <<[time |-> 8, dt |-> 1], [time |-> 10, dt |-> 1]>>
LateMaxs == <<[time |-> 8, dt |-> 3], [time |-> 10, dt |-> 2]>>
ThreeSteps == <<1, 2, 3>>
NoneOrThree == {<<>>, ThreeSteps}
NonePrescribed == {<<>>}

NoEvents == {}
NoSteps == <<>>
Dumps == {ListEvent({0, 3, 6}), SpsEvent(1, 4, None)}
Checks == {SpsEvent(0, 3, None)}
EveryCycle == {SpsEvent(0, 1, None)}
Observations == {ListEvent({0, 2, 5, 8})}
LateObservations == {ListEvent({6, 11})}
OddCycles == {SpsEvent(1, 2, 7)}
=============================================================================
