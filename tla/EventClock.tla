----------------------------- MODULE EventClock -----------------------------
(* The timestep manager alone: a clock that is moved by whatever step is     *)
(* proposed, limited by the events that are registered.                      *)
EXTENDS TimeStepManager

CONSTANTS Registries,   \* sets of events that may be registered together
          Steps,        \* step sizes that are proposed
          Horizon,      \* bound: the clock stops here
          Sight         \* bound: how far ahead NextIsFirst looks for an event

ASSUME ClockAssumption ==
  /\ \A E \in Registries : \A e \in E : IsEvent(e) /\ Possible(e)
  /\ Steps \subseteq Nat \ {0}
  /\ Horizon \in Nat /\ Sight \in Nat

VARIABLES events, t

Init == events \in Registries /\ t = 0

Next == /\ t < Horizon
        /\ \E dt \in Steps : t' = t + Limit(events, t, dt)
        /\ UNCHANGED events

Spec == Init /\ [][Next]_<<events, t>> /\ WF_<<events, t>>(Next)

-----------------------------------------------------------------------------
\* getNext is the least time after t that contains() accepts: the time a step
\* is limited to is a time at which output is then made, and none is passed
\* over.
NextIsFirst ==
  \A e \in events :
    LET next == NextOf(e, t)
    IN IF next = None THEN \A x \in t + 1 .. t + Sight : ~ContainsTime(e, x)
       ELSE /\ next > t
            /\ ContainsTime(e, next)
            /\ \A x \in t + 1 .. next - 1 : ~ContainsTime(e, x)

\* A step that does not reach the next event leaves at least a quarter of the
\* way to it: the step that follows is not a sliver.
NoSliver ==
  [][Coming(events, t) = {} \/
     LET next == Min(Coming(events, t))
     IN t' = next \/ (t' < next /\ 4 * (next - t') >= next - t)]_t

\* Every step is positive: the clock arrives.
Arrives == <>(t >= Horizon)
=============================================================================
