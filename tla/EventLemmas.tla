---------------------------- MODULE EventLemmas ----------------------------
(***************************************************************************)
(* Events of any start, period, stop and any list: getNext and contains    *)
(* agree, and the limited step passes over no event and leaves no sliver.  *)
(***************************************************************************)
EXTENDS TimeStepManager, WellFoundedInduction, TLAPS

\* A set of natural numbers has a least element, and Min is it.
LEMMA MinIsLeast ==
  ASSUME NEW S \in SUBSET Nat, S # {}
  PROVE  Min(S) \in S /\ \A y \in S : Min(S) <= y
<1>1. \E x \in S : \A y \in S : ~(<<y, x>> \in OpToRel(<, Nat))
  BY WFMin, NatLessThanWellFounded, Zenon
<1>2. PICK x \in S : \A y \in S : ~(<<y, x>> \in OpToRel(<, Nat))
  BY <1>1
<1>3. ASSUME NEW y \in S PROVE x <= y
  <2>1. ~(y < x)
    <3>1. SUFFICES ASSUME y < x PROVE <<y, x>> \in OpToRel(<, Nat)
      BY <1>2
    <3>. QED BY <3>1, Zenon DEF OpToRel
  <2>. QED BY <2>1
<1>. QED BY <1>3 DEF Min

\* What division by a period does.
LEMMA Division ==
  ASSUME NEW a \in Nat, NEW p \in Nat \ {0}
  PROVE  /\ a \div p \in Nat
         /\ (a \div p) * p <= a
         /\ a < (a \div p + 1) * p
         /\ a % p = a - (a \div p) * p
  OBVIOUS

\* A multiple of the period leaves no remainder ...
LEMMA MultipleHasNoRest ==
  ASSUME NEW k \in Nat, NEW p \in Nat \ {0}
  PROVE  (k * p) % p = 0
  OBVIOUS

\* ... and between two neighbours there is none.
LEMMA NoneBetween ==
  ASSUME NEW k \in Nat, NEW p \in Nat \ {0}, NEW a \in Nat,
         k * p < a, a < (k + 1) * p
  PROVE  a % p # 0
<1>1. SUFFICES ASSUME a % p = 0 PROVE FALSE
  OBVIOUS
<1>2. PICK q \in Nat : a = q * p
  <2>1. a \div p \in Nat /\ a % p = a - (a \div p) * p
    BY Division
  <2>2. (a \div p) * p \in Nat
    BY <2>1
  <2>3. a = (a \div p) * p
    BY <2>1, <2>2, <1>1
  <2>. QED BY <2>1, <2>3
<1>3. q <= k \/ k + 1 <= q
  BY <1>2
<1>4. CASE q <= k
  BY <1>2, <1>4
<1>5. CASE k + 1 <= q
  BY <1>2, <1>5
<1>. QED BY <1>3, <1>4, <1>5

-----------------------------------------------------------------------------
(* getNext                                                                 *)

\* n is after t, and no event of e is after t and before n.
NoneBefore(e, t, n) ==
  /\ n \in Nat \cup {None}
  /\ n # None => n > t
  /\ \A x \in Nat : x > t /\ ContainsTime(e, x) => n # None /\ n <= x

LEMMA ListNext ==
  ASSUME NEW e \in [kind : {"list"}, times : SUBSET Nat], NEW t \in Nat
  PROVE  /\ NoneBefore(e, t, NextOf(e, t))
         /\ NextOf(e, t) # None => ContainsTime(e, NextOf(e, t))
<1>. DEFINE S == {j \in e.times : j > t}
<1>1. e.kind = "list" /\ S \in SUBSET Nat
  OBVIOUS
<1>2. CASE S = {}
  <2>1. NextOf(e, t) = None
    BY <1>1, <1>2 DEF NextOf, NextInList
  <2>. QED BY <1>1, <1>2, <2>1 DEF NoneBefore, ContainsTime, None
<1>3. CASE S # {}
  <2>1. NextOf(e, t) = Min(S)
    BY <1>1, <1>3 DEF NextOf, NextInList
  <2>2. Min(S) \in S /\ \A y \in S : Min(S) <= y
    BY <1>1, <1>3, MinIsLeast
  <2>3. \A x \in Nat : x > t /\ ContainsTime(e, x) => x \in S
    BY <1>1 DEF ContainsTime
  <2>4. ContainsTime(e, Min(S))
    BY <1>1, <2>2 DEF ContainsTime
  <2>. QED BY <1>1, <2>1, <2>2, <2>3, <2>4 DEF NoneBefore, None
<1>. QED BY <1>2, <1>3

LEMMA IntervalNext ==
  ASSUME NEW e \in [kind : {"sps"}, start : Nat, period : Nat \ {0}, stop : Int \ {0}],
         NEW t \in Nat
  PROVE  /\ NoneBefore(e, t, NextOf(e, t))
         /\ Possible(e) /\ NextOf(e, t) # None => ContainsTime(e, NextOf(e, t))
<1>. DEFINE p == e.period
            a == t - e.start
            k == a \div p
            next == e.start + (k + 1) * p
<1>1. /\ e.kind = "sps" /\ e.start \in Nat /\ p \in Nat \ {0} /\ e.stop \in Int \ {0}
      /\ NextOf(e, t) = IF t < e.start THEN e.start
                         ELSE IF e.stop >= 0 /\ next > e.stop THEN None ELSE next
  BY DEF NextOf, NextInSps
<1>2. CASE t < e.start
  <2>1. NextOf(e, t) = e.start
    BY <1>1, <1>2
  <2>2. \A x \in Nat : ContainsTime(e, x) => e.start <= x
    BY <1>1 DEF ContainsTime
  <2>3. (e.start - e.start) % p = 0
    BY <1>1
  <2>4. Possible(e) => ContainsTime(e, e.start)
    BY <1>1, <2>3 DEF Possible, ContainsTime
  <2>. QED BY <1>1, <1>2, <2>1, <2>2, <2>4 DEF NoneBefore, None
<1>3. CASE ~(t < e.start)
  <2>1. a \in Nat /\ k \in Nat /\ k * p <= a /\ a < (k + 1) * p
    <3>1. a \in Nat /\ p \in Nat \ {0}
      BY <1>1, <1>3
    <3>. HIDE DEF a, p
    <3>. QED BY <3>1, Division DEF k
  <2>2. (k + 1) * p \in Nat /\ next \in Nat /\ next > t
    BY <1>1, <1>3, <2>1
  <2>3. ((k + 1) * p) % p = 0
    <3>1. k + 1 \in Nat /\ p \in Nat \ {0}
      BY <1>1, <2>1
    <3>. HIDE DEF k, p
    <3>. QED BY <3>1, MultipleHasNoRest
  <2>4. ASSUME NEW x \in Nat, x > t, ContainsTime(e, x)
        PROVE  next <= x /\ (e.stop < 0 \/ x <= e.stop)
    <3>1. x - e.start \in Nat /\ (x - e.start) % p = 0
      BY <1>1, <2>4 DEF ContainsTime
    <3>2. k * p < x - e.start
      BY <1>1, <1>3, <2>1, <2>4
    <3>3. ~(x - e.start < (k + 1) * p)
      BY <1>1, <2>1, <3>1, <3>2, NoneBetween
    <3>4. e.stop < 0 \/ x <= e.stop
      BY <1>1, <2>4 DEF ContainsTime
    <3>. QED BY <1>1, <2>2, <3>3, <3>4
  <2>5. CASE e.stop >= 0 /\ next > e.stop
    <3>1. NextOf(e, t) = None
      BY <1>1, <1>3, <2>5
    <3>. QED BY <1>1, <2>2, <2>4, <2>5, <3>1 DEF NoneBefore, None
  <2>6. CASE ~(e.stop >= 0 /\ next > e.stop)
    <3>1. NextOf(e, t) = next
      BY <1>1, <1>3, <2>6
    <3>2. next - e.start = (k + 1) * p
      BY <1>1, <2>2
    <3>3. ContainsTime(e, next)
      BY <1>1, <2>2, <2>3, <2>6, <3>2 DEF ContainsTime
    <3>. QED BY <2>2, <2>4, <3>1, <3>3 DEF NoneBefore, None
  <2>. QED BY <2>5, <2>6
<1>. QED BY <1>2, <1>3

LEMMA NextOfEvent ==
  ASSUME NEW e, IsEvent(e), NEW t \in Nat
  PROVE  /\ NoneBefore(e, t, NextOf(e, t))
         /\ Possible(e) /\ NextOf(e, t) # None => ContainsTime(e, NextOf(e, t))
  BY ListNext, IntervalNext DEF IsEvent

-----------------------------------------------------------------------------
(* TimeStep                                                                *)

\* The limited step is not longer than the proposed one, ends no later than any
\* event after t, and is positive if the proposed one is.
LEMMA LimitStopsAtEvents ==
  ASSUME NEW E, \A e \in E : IsEvent(e), NEW t \in Nat, NEW d \in Nat
  PROVE  /\ Limit(E, t, d) \in Nat
         /\ Limit(E, t, d) <= d
         /\ d > 0 => Limit(E, t, d) > 0
         /\ \A e \in E : \A x \in Nat :
              x > t /\ ContainsTime(e, x) => t + Limit(E, t, d) <= x
<1>. DEFINE S == Coming(E, t)
            first == Min(S)
            r == first - t
<1>1. S \in SUBSET Nat /\ \A y \in S : y > t
  BY NextOfEvent DEF Coming, NoneBefore
<1>2. ASSUME NEW e \in E, NEW x \in Nat, x > t, ContainsTime(e, x)
      PROVE  \E y \in S : y <= x
  <2>1. NextOf(e, t) # None /\ NextOf(e, t) <= x
    BY <1>2, NextOfEvent DEF NoneBefore
  <2>2. NextOf(e, t) \in S
    BY <2>1 DEF Coming
  <2>. QED BY <2>1, <2>2
<1>3. CASE S = {}
  BY <1>2, <1>3 DEF Limit
<1>4. CASE S # {}
  <2>1. first \in S /\ \A y \in S : first <= y
    BY <1>1, <1>4, MinIsLeast
  <2>2. first \in Nat /\ first > t /\ r \in Nat /\ r > 0
    BY <1>1, <2>1
  <2>3. Limit(E, t, d) = IF d >= r THEN r ELSE IF 4 * d > 3 * r THEN r \div 2 ELSE d
    BY <1>4 DEF Limit
  <2>4. /\ Limit(E, t, d) \in Nat /\ Limit(E, t, d) <= d /\ Limit(E, t, d) <= r
        /\ d > 0 => Limit(E, t, d) > 0
    BY <2>2, <2>3
  <2>5. ASSUME NEW e \in E, NEW x \in Nat, x > t, ContainsTime(e, x)
        PROVE  t + Limit(E, t, d) <= x
    <3>1. PICK y \in S : y <= x
      BY <1>2, <2>5
    <3>2. first <= y /\ y \in Nat
      BY <1>1, <2>1, <3>1
    <3>. QED BY <2>2, <2>4, <3>1, <3>2
  <2>. QED BY <2>4, <2>5
<1>. QED BY <1>3, <1>4

\* What is left of the way to the next event is none of it or a quarter at least.
LEMMA LimitLeavesAQuarter ==
  ASSUME NEW E, \A e \in E : IsEvent(e), NEW t \in Nat, NEW d \in Nat, Coming(E, t) # {}
  PROVE  LET next == Min(Coming(E, t))
             t1 == t + Limit(E, t, d)
         IN t1 = next \/ (t1 < next /\ 4 * (next - t1) >= next - t)
<1>. DEFINE S == Coming(E, t)
            first == Min(S)
            r == first - t
<1>1. S \in SUBSET Nat /\ \A y \in S : y > t
  BY NextOfEvent DEF Coming, NoneBefore
<1>2. first \in Nat /\ r \in Nat /\ r > 0
  BY <1>1, MinIsLeast
<1>3. Limit(E, t, d) = IF d >= r THEN r ELSE IF 4 * d > 3 * r THEN r \div 2 ELSE d
  BY DEF Limit
<1>. HIDE DEF S, first
<1>4. CASE d >= r
  BY <1>2, <1>3, <1>4 DEF S, first
<1>5. CASE d < r /\ 4 * d > 3 * r
  BY <1>2, <1>3, <1>5 DEF S, first
<1>6. CASE d < r /\ 4 * d <= 3 * r
  BY <1>2, <1>3, <1>6 DEF S, first
<1>. QED BY <1>2, <1>4, <1>5, <1>6

=============================================================================
