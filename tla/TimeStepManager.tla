-------------------------- MODULE TimeStepManager --------------------------
(***************************************************************************)
(* Events and the limiter of the timestep (src/src/utils/Event.hh,         *)
(* TimeStepManager.cc).                                                    *)
(*                                                                         *)
(* Time is counted in ticks: the tolerance isNearEqual of the code is      *)
(* equality here, and half of an odd number of ticks is rounded down.      *)
(***************************************************************************)
EXTENDS Integers, FiniteSetsExt

ListEvent(times) == [kind |-> "list", times |-> times]
SpsEvent(start, period, stop) ==
  [kind |-> "sps", start |-> start, period |-> period, stop |-> stop]

None == -1

\* What can be registered.  "None" as the answer of getNext means that times are
\* not negative; the constructor of EventSPS refuses other periods.  A stop of 0
\* means no end to contains and no event to getNext.
IsEvent(e) ==
  \/ e \in [kind : {"list"}, times : SUBSET Nat]
  \/ e \in [kind : {"sps"}, start : Nat, period : Nat \ {0}, stop : Int \ {0}]

\* An event that does not stop before it starts.
Possible(e) == e.kind = "sps" => e.stop < 0 \/ e.start <= e.stop

-----------------------------------------------------------------------------
\* EventList::contains, EventSPS::contains
ContainsTime(e, t) ==
  IF e.kind = "list" THEN t \in e.times
  ELSE /\ t >= e.start
       /\ e.stop <= 0 \/ t <= e.stop
       /\ (t - e.start) % e.period = 0

\* Faulty: the present event is offered again.
NextInListOrNow(e, t) ==
  IF \E j \in e.times : j >= t THEN Min({j \in e.times : j >= t}) ELSE None

\* EventList::getNext
NextInList(e, t) ==
  IF \E j \in e.times : j > t THEN Min({j \in e.times : j > t}) ELSE None

\* Faulty: the number of periods is rounded up.
NextInSpsRoundedUp(e, t) ==
  LET periods == (t - e.start + e.period - 1) \div e.period
      next == e.start + (periods + 1) * e.period
  IN IF t < e.start THEN e.start
     ELSE IF e.stop >= 0 /\ next > e.stop THEN None
     ELSE next

\* EventSPS::getNext
NextInSps(e, t) ==
  LET periods == (t - e.start) \div e.period
      next == e.start + (periods + 1) * e.period
  IN IF t < e.start THEN e.start
     ELSE IF e.stop >= 0 /\ next > e.stop THEN None
     ELSE next

NextOf(e, t) == IF e.kind = "list" THEN NextInList(e, t) ELSE NextInSps(e, t)

\* The events of E still to come, as TimeStep collects them.
Coming(E, t) == {NextOf(e, t) : e \in E} \ {None}

-----------------------------------------------------------------------------
\* Faulty: a step just short of the event is accepted.
LimitWithSlivers(E, t, dt) ==
  IF Coming(E, t) = {} THEN dt
  ELSE LET remaining == Min(Coming(E, t)) - t
       IN IF dt >= remaining THEN remaining ELSE dt

\* Faulty: only the events met first in the list are looked at.
LimitByOne(E, t, dt) ==
  IF Coming(E, t) = {} THEN dt
  ELSE LET remaining == Max(Coming(E, t)) - t
       IN IF dt >= remaining THEN remaining
          ELSE IF 4 * dt > 3 * remaining THEN remaining \div 2
          ELSE dt

\* TimeStepManager::TimeStep after the manual override: hit the next event, or
\* take half of the way to it rather than leave a sliver.
Limit(E, t, dt) ==
  IF Coming(E, t) = {} THEN dt
  ELSE LET remaining == Min(Coming(E, t)) - t
       IN IF dt >= remaining THEN remaining
          ELSE IF 4 * dt > 3 * remaining THEN remaining \div 2
          ELSE dt

\* IOEvent::DumpRequested
DumpRequested(cycleEvents, timeEvents, cycle, time) ==
  \/ \E e \in cycleEvents : ContainsTime(e, cycle)
  \/ \E e \in timeEvents : ContainsTime(e, time)
=============================================================================
