------------------------- MODULE MCTimeStepManager -------------------------
(* Every pair of a short list and a start-period-stop event.                 *)
EXTENDS EventClock

Lists == {ListEvent(T) : T \in {{}, {1}, {5}, {2, 7}, {0, 3, 4}}}
Intervals == {SpsEvent(s, p, q) : s \in 0..2, p \in 1..4, q \in {None, 2, 4, 5, 7}}
Pairs == {{l, s} : l \in Lists, s \in Intervals}
=============================================================================
