----------------------------- MODULE NKA_proof -----------------------------
(***************************************************************************)
(* Proofs about the accelerator under SolverNKA, for any number of slots   *)
(* and iterations: the lists never lose or share a slot, the assertions of *)
(* NKA_Base.hh never fail, the lists implement the memory of NKASpace,     *)
(* each step is stored with its difference, and only entries of h_ that    *)
(* belong to the present list are read.                                    *)
(***************************************************************************)
EXTENDS SolverNKA, SequenceTheorems, TLAPS

(* The parts of the inductive invariant.  Typed: the ranges of the fields. *)
(* Distinct: no slot occurs twice.  Room: how long the list may be at each *)
(* point of a call.  Turn: where the factorisation is in the list.         *)
Typed ==
    /\ first \in Link /\ last \in Link /\ free \in Link /\ k \in Link
    /\ next \in [Slot -> Link] /\ prev \in [Slot -> Link]
    /\ pending \in BOOLEAN
    /\ call \in {"idle", "factor", "save"} /\ nvec \in Nat
    /\ list \in Seq(Slot) /\ spare \in Seq(Slot)

Distinct ==
    /\ \A i, j \in 1..Len(list) : list[i] = list[j] => i = j
    /\ \A i, j \in 1..Len(spare) : spare[i] = spare[j] => i = j
    /\ \A i \in 1..Len(list), j \in 1..Len(spare) : list[i] # spare[j]

Chains ==
    /\ first = HeadOf(list) /\ last = LastOf(list) /\ free = HeadOf(spare)
    /\ \A i \in 1..Len(list) : next[list[i]] = After(list, i)
    /\ \A i \in 1..Len(spare) : next[spare[i]] = After(spare, i)
    /\ \A i \in 2..Len(list) : prev[list[i]] = list[i - 1]
    /\ Len(list) + Len(spare) = MVec + 1
    /\ \A s \in Slot : \/ \E i \in 1..Len(list) : list[i] = s
                      \/ \E i \in 1..Len(spare) : spare[i] = s

Room ==
    /\ pending \/ call = "factor" => Len(list) >= 1
    /\ call = "save" => Len(list) <= MVec
    /\ call = "idle" /\ ~pending => Len(list) <= MVec

Turn ==
    call = "factor" =>
    /\ nvec \in 1..MVec /\ nvec <= Len(list)
    /\ k = After(list, nvec)

Pool == Distinct /\ Chains /\ Room /\ Turn

(* Before the first Solve the heads of the lists are not set.              *)
Inv == Typed /\ IF at = "new" THEN call = "idle" ELSE Pool
-----------------------------------------------------------------------------
(* Prepending, taking the tail and removing an element, as functions.      *)
LEMMA ConsFacts ==
    \A S : \A s \in Seq(S) : \A e \in S :
        /\ Cons(e, s) \in Seq(S)
        /\ Len(Cons(e, s)) = Len(s) + 1
        /\ \A i \in 1..Len(s) + 1 : Cons(e, s)[i] = IF i = 1 THEN e ELSE s[i - 1]
<1>. TAKE S
<1>. TAKE s \in Seq(S)
<1>. TAKE e \in S
<1>1. <<e>> \in Seq(S) /\ Len(<<e>>) = 1 /\ <<e>>[1] = e
  OBVIOUS
<1>2. Len(s) \in Nat
  BY LenProperties
<1>. QED BY <1>1, <1>2, ConcatProperties DEF Cons

LEMMA TailFacts ==
    ASSUME NEW S, NEW s \in Seq(S), Len(s) >= 1
    PROVE  /\ Tail(s) \in Seq(S)
           /\ Len(Tail(s)) = Len(s) - 1
           /\ \A i \in 1..Len(s) - 1 : Tail(s)[i] = s[i + 1]
<1>1. s # <<>>
  BY EmptySeq
<1>. QED BY <1>1, HeadTailProperties, LenProperties

LEMMA RemoveFacts ==
    ASSUME NEW S, NEW s \in Seq(S), NEW n \in 1..Len(s)
    PROVE  /\ RemoveAt(s, n) \in Seq(S)
           /\ Len(RemoveAt(s, n)) = Len(s) - 1
           /\ \A i \in 1..Len(s) - 1 :
                RemoveAt(s, n)[i] = IF i < n THEN s[i] ELSE s[i + 1]
<1>1. Len(s) \in Nat /\ \A i \in 1..Len(s) : s[i] \in S
  BY LenProperties, ElementOfSeq
<1>2. /\ SubSeq(s, 1, n - 1) \in Seq(S)
      /\ Len(SubSeq(s, 1, n - 1)) = n - 1
      /\ \A i \in 1..n - 1 : SubSeq(s, 1, n - 1)[i] = s[i]
  BY <1>1, SubSeqProperties
<1>3. /\ SubSeq(s, n + 1, Len(s)) \in Seq(S)
      /\ Len(SubSeq(s, n + 1, Len(s))) = Len(s) - n
      /\ \A i \in 1..Len(s) - n : SubSeq(s, n + 1, Len(s))[i] = s[i + n]
  BY <1>1, SubSeqProperties
<1>. DEFINE a == SubSeq(s, 1, n - 1)
            b == SubSeq(s, n + 1, Len(s))
<1>5. /\ a \o b \in Seq(S)
      /\ Len(a \o b) = Len(a) + Len(b)
      /\ \A i \in 1..Len(a) + Len(b) :
           (a \o b)[i] = IF i <= Len(a) THEN a[i] ELSE b[i - Len(a)]
  BY <1>2, <1>3, ConcatProperties
<1>. HIDE DEF a, b
<1>6. Len(a) = n - 1 /\ Len(b) = Len(s) - n
  BY <1>2, <1>3 DEF a, b
<1>7. \A i \in 1..Len(s) - 1 : (a \o b)[i] = IF i < n THEN s[i] ELSE s[i + 1]
  <2>. SUFFICES ASSUME NEW i \in 1..Len(s) - 1
                PROVE  (a \o b)[i] = IF i < n THEN s[i] ELSE s[i + 1]
    OBVIOUS
  <2>1. CASE i < n
    BY <1>1, <1>2, <1>5, <1>6, <2>1 DEF a
  <2>2. CASE ~(i < n)
    <3>1. i - (n - 1) \in 1..Len(s) - n /\ ~(i <= n - 1)
      BY <1>1, <2>2
    <3>2. b[i - (n - 1)] = s[i - (n - 1) + n]
      BY <1>3, <3>1 DEF b
    <3>. QED BY <1>1, <1>5, <1>6, <2>2, <3>1, <3>2
  <2>. QED BY <2>1, <2>2
<1>8. RemoveAt(s, n) = a \o b
  BY DEF a, b, RemoveAt
<1>9. a \o b \in Seq(S) /\ Len(a \o b) = Len(s) - 1
  BY <1>1, <1>5, <1>6
<1>. QED BY <1>7, <1>8, <1>9
-----------------------------------------------------------------------------
(* Each change of the lists keeps the chains and shares no slot.           *)
LEMMA EmptyListsStep ==
    ASSUME Typed, EmptyLists
    PROVE  /\ first' \in Link /\ last' \in Link /\ free' \in Link
           /\ next' \in [Slot -> Link] /\ prev' \in [Slot -> Link]
           /\ list' \in Seq(Slot) /\ spare' \in Seq(Slot)
           /\ Len(list') = 0
           /\ Distinct' /\ Chains'
<1>. USE MVecAssumption DEF Slot, Link, EOL
<1>1. list' = <<>> /\ list' \in Seq(Slot) /\ Len(list') = 0
  BY EmptySeq DEF EmptyLists
<1>2. /\ spare' \in Seq(Slot) /\ Len(spare') = MVec + 1
      /\ \A i \in 1..MVec + 1 : spare'[i] = i - 1
  BY DEF EmptyLists
<1>3. /\ first' \in Link /\ last' \in Link /\ free' \in Link
      /\ next' \in [Slot -> Link] /\ prev' \in [Slot -> Link]
  BY DEF EmptyLists, Typed
<1>4. Distinct'
  BY <1>1, <1>2 DEF Distinct
<1>5. Chains'
  <2>1. first' = HeadOf(list') /\ last' = LastOf(list') /\ free' = HeadOf(spare')
    BY <1>1, <1>2 DEF EmptyLists, HeadOf, LastOf
  <2>2. \A i \in 1..Len(spare') : next'[spare'[i]] = After(spare', i)
    BY <1>2 DEF EmptyLists, After
  <2>3. \A s \in Slot : \E i \in 1..Len(spare') : spare'[i] = s
    <3>. TAKE s \in Slot
    <3>. s + 1 \in 1..Len(spare') /\ spare'[s + 1] = s
      BY <1>2
    <3>. QED OBVIOUS
  <2>. QED BY <1>1, <1>2, <2>1, <2>2, <2>3 DEF Chains
<1>. QED BY <1>1, <1>2, <1>3, <1>4, <1>5

LEMMA RelaxStep ==
    ASSUME Typed, Distinct, Chains, Len(list) >= 1, Relax
    PROVE  /\ first' \in Link /\ last' \in Link /\ free' \in Link
           /\ next' \in [Slot -> Link] /\ prev' \in [Slot -> Link]
           /\ list' \in Seq(Slot) /\ spare' \in Seq(Slot)
           /\ Len(list') = Len(list) - 1
           /\ Distinct' /\ Chains'
<1>. MVec \in Nat \ {0} /\ EOL \notin Slot
  BY MVecAssumption DEF Slot, EOL
<1>1. /\ list \in Seq(Slot) /\ spare \in Seq(Slot)
      /\ Len(list) \in Nat /\ Len(spare) \in Nat
      /\ \A i \in 1..Len(list) : list[i] \in Slot
      /\ \A i \in 1..Len(spare) : spare[i] \in Slot
  BY LenProperties, ElementOfSeq DEF Typed
<1>2. /\ list' \in Seq(Slot) /\ Len(list') = Len(list) - 1
      /\ \A i \in 1..Len(list) - 1 : list'[i] = list[i + 1]
  BY <1>1, TailFacts DEF Relax
<1>3. first = list[1] /\ first \in Slot /\ next[first] = After(list, 1)
  BY <1>1 DEF Chains, HeadOf
<1>8. spare' = Cons(first, spare)
  BY DEF Relax
<1>4. /\ spare' \in Seq(Slot) /\ Len(spare') = Len(spare) + 1
      /\ \A i \in 1..Len(spare) + 1 : spare'[i] = IF i = 1 THEN first ELSE spare[i - 1]
  <2>1. /\ Cons(first, spare) \in Seq(Slot)
        /\ Len(Cons(first, spare)) = Len(spare) + 1
        /\ \A i \in 1..Len(spare) + 1 :
             Cons(first, spare)[i] = IF i = 1 THEN first ELSE spare[i - 1]
    <3>1. spare \in Seq(Slot) /\ first \in Slot
      BY <1>1, <1>3
    <3>. QED BY <3>1, ConsFacts
  <2>. QED BY <1>8, <2>1
<1>5. /\ first' \in Link /\ last' \in Link /\ free' \in Link
      /\ next' \in [Slot -> Link] /\ prev' \in [Slot -> Link]
  BY <1>3 DEF Relax, Typed, Link
<1>9. /\ \A i \in 2..Len(list) : list[i] # first
      /\ \A i \in 1..Len(spare) : spare[i] # first
  BY <1>1, <1>3 DEF Distinct
<1>10. /\ next'[first] = free
       /\ \A s \in Slot : s # first => next'[s] = next[s]
  BY <1>3 DEF Relax, Typed
<1>11. \A s \in Slot : s # next[first] => prev'[s] = prev[s]
  BY DEF Relax, Typed
<1>6. Distinct'
  <2>1. \A i, j \in 1..Len(list') : list'[i] = list'[j] => i = j
    <3>. SUFFICES ASSUME NEW i \in 1..Len(list'), NEW j \in 1..Len(list'),
                         list'[i] = list'[j]
                  PROVE  i = j
      OBVIOUS
    <3>1. /\ i + 1 \in 1..Len(list) /\ j + 1 \in 1..Len(list)
          /\ list[i + 1] = list[j + 1]
      BY <1>1, <1>2
    <3>2. i + 1 = j + 1
      BY <3>1 DEF Distinct
    <3>. QED BY <1>1, <1>2, <3>2
  <2>2. \A i, j \in 1..Len(spare') : spare'[i] = spare'[j] => i = j
    <3>. SUFFICES ASSUME NEW i \in 1..Len(spare'), NEW j \in 1..Len(spare'),
                         spare'[i] = spare'[j]
                  PROVE  i = j
      OBVIOUS
    <3>1. CASE i = 1 \/ j = 1
      BY <1>1, <1>4, <1>9, <3>1
    <3>2. CASE i # 1 /\ j # 1
      <4>1. /\ i - 1 \in 1..Len(spare) /\ j - 1 \in 1..Len(spare)
            /\ spare[i - 1] = spare[j - 1]
        BY <1>1, <1>4, <3>2
      <4>2. i - 1 = j - 1
        BY <4>1 DEF Distinct
      <4>. QED BY <1>1, <1>4, <4>2
    <3>. QED BY <3>1, <3>2
  <2>3. \A i \in 1..Len(list'), j \in 1..Len(spare') : list'[i] # spare'[j]
    BY <1>1, <1>2, <1>4, <1>9 DEF Distinct
  <2>. QED BY <2>1, <2>2, <2>3 DEF Distinct
<1>7. Chains'
  <2>1. first' = HeadOf(list') /\ last' = LastOf(list') /\ free' = HeadOf(spare')
    <3>1. first' = HeadOf(list')
      BY <1>1, <1>2, <1>3 DEF Relax, HeadOf, After
    <3>2. last' = LastOf(list')
      <4>1. next[first] = EOL <=> Len(list) = 1
        <5>1. Len(list) # 1 => 2 \in 1..Len(list) /\ next[first] = list[2]
          <6>. HAVE Len(list) # 1
          <6>1. 2 \in 1..Len(list)
            <7>1. ASSUME NEW n \in Nat, n >= 1, n # 1
                  PROVE  2 \in 1..n
              BY <7>1
            <7>. QED BY <1>1, <7>1
          <6>2. After(list, 1) = list[1 + 1]
            BY DEF After
          <6>. QED BY <1>3, <6>1, <6>2
        <5>2. Len(list) = 1 => next[first] = EOL
          BY <1>1, <1>3 DEF After
        <5>. QED BY <1>1, <5>1, <5>2
      <4>2. last = list[Len(list)]
        BY <1>1 DEF Chains, LastOf
      <4>. QED BY <1>1, <1>2, <4>1, <4>2 DEF Relax, LastOf
    <3>3. free' = HeadOf(spare')
      BY <1>1, <1>4 DEF Relax, HeadOf
    <3>. QED BY <3>1, <3>2, <3>3
  <2>2. \A i \in 1..Len(list') : next'[list'[i]] = After(list', i)
    <3>. SUFFICES ASSUME NEW i \in 1..Len(list')
                  PROVE  next'[list'[i]] = After(list', i)
      OBVIOUS
    <3>1. i + 1 \in 2..Len(list) /\ list'[i] = list[i + 1]
      BY <1>1, <1>2
    <3>2. next'[list'[i]] = After(list, i + 1)
      BY <1>1, <1>9, <1>10, <3>1 DEF Chains
    <3>. QED BY <1>1, <1>2, <3>1, <3>2 DEF After
  <2>3. \A i \in 1..Len(spare') : next'[spare'[i]] = After(spare', i)
    <3>. SUFFICES ASSUME NEW i \in 1..Len(spare')
                  PROVE  next'[spare'[i]] = After(spare', i)
      OBVIOUS
    <3>1. CASE i = 1
      <4>1. next'[spare'[i]] = HeadOf(spare)
        BY <1>1, <1>4, <1>10, <3>1 DEF Chains
      <4>. QED BY <1>1, <1>4, <3>1, <4>1 DEF After, HeadOf
    <3>2. CASE i # 1
      <4>1. i - 1 \in 1..Len(spare) /\ spare'[i] = spare[i - 1]
        BY <1>1, <1>4, <3>2
      <4>2. next'[spare'[i]] = After(spare, i - 1)
        BY <1>1, <1>9, <1>10, <4>1 DEF Chains
      <4>. QED BY <1>1, <1>4, <4>1, <4>2 DEF After
    <3>. QED BY <3>1, <3>2
  <2>4. \A i \in 2..Len(list') : prev'[list'[i]] = list'[i - 1]
    <3>. SUFFICES ASSUME NEW i \in 2..Len(list')
                  PROVE  prev'[list'[i]] = list'[i - 1]
      OBVIOUS
    <3>1. /\ i + 1 \in 3..Len(list) /\ list'[i] = list[i + 1]
          /\ list'[i - 1] = list[i]
      BY <1>1, <1>2
    <3>2. list[i + 1] # next[first]
      <4>1. next[first] = list[2] /\ 2 \in 1..Len(list) /\ i + 1 \in 1..Len(list)
        BY <1>1, <1>3, <3>1 DEF After
      <4>2. i + 1 # 2
        BY <3>1
      <4>. QED BY <4>1, <4>2 DEF Distinct
    <3>3. prev'[list[i + 1]] = prev[list[i + 1]]
      BY <1>1, <1>11, <3>1, <3>2
    <3>4. i + 1 \in 2..Len(list) /\ i + 1 - 1 = i
      BY <1>1, <3>1
    <3>5. prev[list[i + 1]] = list[i]
      BY <3>4 DEF Chains
    <3>. QED BY <3>1, <3>3, <3>5
  <2>5. \A s \in Slot : \/ \E i \in 1..Len(list') : list'[i] = s
                        \/ \E i \in 1..Len(spare') : spare'[i] = s
    <3>. SUFFICES ASSUME NEW s \in Slot
                  PROVE  \/ \E i \in 1..Len(list') : list'[i] = s
                         \/ \E i \in 1..Len(spare') : spare'[i] = s
      OBVIOUS
    <3>1. CASE \E i \in 1..Len(list) : list[i] = s
      <4>1. PICK i \in 1..Len(list) : list[i] = s
        BY <3>1
      <4>2. CASE i = 1
        <5>. 1 \in 1..Len(spare') /\ spare'[1] = s
          BY <1>1, <1>3, <1>4, <4>1, <4>2
        <5>. QED OBVIOUS
      <4>3. CASE i # 1
        <5>. i - 1 \in 1..Len(list') /\ list'[i - 1] = s
          BY <1>1, <1>2, <4>1, <4>3
        <5>. QED OBVIOUS
      <4>. QED BY <4>2, <4>3
    <3>2. CASE \E i \in 1..Len(spare) : spare[i] = s
      <4>1. PICK i \in 1..Len(spare) : spare[i] = s
        BY <3>2
      <4>. i + 1 \in 1..Len(spare') /\ spare'[i + 1] = s
        BY <1>1, <1>4, <4>1
      <4>. QED OBVIOUS
    <3>. QED BY <3>1, <3>2 DEF Chains
  <2>. QED BY <1>1, <1>2, <1>4, <2>1, <2>2, <2>3, <2>4, <2>5 DEF Chains
<1>. QED BY <1>2, <1>4, <1>5, <1>6, <1>7

(* Taking the vector at place n > 1 out of the list, as DropDependent and  *)
(* DropLast do.                                                            *)
Unlink(n) ==
    /\ k = list[n]
    /\ first' = first
    /\ next' = [next EXCEPT ![prev[k]] = next[k], ![k] = free]
    /\ IF next[k] = EOL
         THEN last' = prev[k] /\ UNCHANGED prev
         ELSE prev' = [prev EXCEPT ![next[k]] = prev[k]] /\ UNCHANGED last
    /\ free' = k
    /\ list' = RemoveAt(list, n)
    /\ spare' = Cons(k, spare)

LEMMA UnlinkStep ==
    ASSUME Typed, Distinct, Chains, NEW n \in 2..Len(list), Unlink(n)
    PROVE  /\ first' \in Link /\ last' \in Link /\ free' \in Link
           /\ next' \in [Slot -> Link] /\ prev' \in [Slot -> Link]
           /\ list' \in Seq(Slot) /\ spare' \in Seq(Slot)
           /\ Len(list') = Len(list) - 1
           /\ Distinct' /\ Chains'
<1>. MVec \in Nat \ {0} /\ EOL \notin Slot
  BY MVecAssumption DEF Slot, EOL
<1>1. /\ list \in Seq(Slot) /\ spare \in Seq(Slot)
      /\ Len(list) \in Nat /\ Len(spare) \in Nat
      /\ \A i \in 1..Len(list) : list[i] \in Slot
      /\ \A i \in 1..Len(spare) : spare[i] \in Slot
  BY LenProperties, ElementOfSeq DEF Typed
<1>2. n \in 1..Len(list) /\ n - 1 \in 1..Len(list) /\ n \in Nat /\ n >= 2 /\ n <= Len(list)
  BY <1>1
<1>3. /\ k = list[n] /\ k \in Slot
      /\ prev[k] = list[n - 1] /\ prev[k] \in Slot
      /\ next[k] = After(list, n)
  BY <1>1, <1>2 DEF Chains, Unlink
<1>4. k # prev[k]
  <2>1. n # n - 1
    BY <1>2
  <2>. QED BY <1>2, <1>3, <2>1 DEF Distinct
<1>5. /\ next'[k] = free
      /\ next'[list[n - 1]] = After(list, n)
      /\ \A s \in Slot : s # k /\ s # list[n - 1] => next'[s] = next[s]
      /\ next' \in [Slot -> Link]
  <2>1. next[k] \in Link /\ free \in Link /\ next \in [Slot -> Link]
    BY <1>3 DEF Typed
  <2>2. next' = [next EXCEPT ![prev[k]] = next[k], ![k] = free]
    BY DEF Unlink
  <2>. QED BY <1>3, <1>4, <2>1, <2>2
<1>6. /\ list' \in Seq(Slot) /\ Len(list') = Len(list) - 1
      /\ \A i \in 1..Len(list) - 1 : list'[i] = IF i < n THEN list[i] ELSE list[i + 1]
  <2>1. list' = RemoveAt(list, n)
    BY DEF Unlink
  <2>2. list \in Seq(Slot) /\ n \in 1..Len(list)
    BY <1>1, <1>2
  <2>3. /\ RemoveAt(list, n) \in Seq(Slot)
        /\ Len(RemoveAt(list, n)) = Len(list) - 1
        /\ \A i \in 1..Len(list) - 1 :
             RemoveAt(list, n)[i] = IF i < n THEN list[i] ELSE list[i + 1]
    BY <2>2, RemoveFacts
  <2>. QED BY <2>1, <2>3
<1>16. \A i \in 1..Len(list) - 1 : i >= n => list'[i] = list[i + 1]
  BY <1>1, <1>2, <1>6
<1>17. \A i \in 1..Len(list) - 1 : i < n => list'[i] = list[i]
  BY <1>1, <1>2, <1>6
<1>7. /\ spare' \in Seq(Slot) /\ Len(spare') = Len(spare) + 1
      /\ \A i \in 1..Len(spare) + 1 : spare'[i] = IF i = 1 THEN k ELSE spare[i - 1]
  <2>1. spare' = Cons(k, spare)
    BY DEF Unlink
  <2>2. spare \in Seq(Slot) /\ k \in Slot
    BY <1>1, <1>3
  <2>3. /\ Cons(k, spare) \in Seq(Slot)
        /\ Len(Cons(k, spare)) = Len(spare) + 1
        /\ \A i \in 1..Len(spare) + 1 :
             Cons(k, spare)[i] = IF i = 1 THEN k ELSE spare[i - 1]
    BY <2>2, ConsFacts
  <2>. QED BY <2>1, <2>3
<1>8. n < Len(list) => next[k] = list[n + 1] /\ n + 1 \in 1..Len(list)
  BY <1>1, <1>2, <1>3 DEF After
<1>9. n = Len(list) => next[k] = EOL
  BY <1>3 DEF After
<1>10. next[k] = EOL <=> n = Len(list)
  BY <1>1, <1>2, <1>8, <1>9
<1>11. /\ prev' \in [Slot -> Link]
       /\ \A s \in Slot : s # next[k] => prev'[s] = prev[s]
       /\ n < Len(list) => prev'[list[n + 1]] = list[n - 1]
  <2>1. prev \in [Slot -> Link] /\ prev[k] \in Link
    BY <1>3 DEF Typed
  <2>2. CASE n = Len(list)
    BY <1>2, <1>10, <2>1, <2>2 DEF Unlink
  <2>3. CASE n < Len(list)
    <3>1. prev' = [prev EXCEPT ![next[k]] = prev[k]]
      BY <1>2, <1>10, <2>3 DEF Unlink
    <3>2. next[k] \in Slot
      BY <1>1, <1>8, <2>3
    <3>. QED BY <1>3, <1>8, <2>1, <2>3, <3>1, <3>2
  <2>. QED BY <1>2, <2>2, <2>3, <1>1
<1>12. first' \in Link /\ last' \in Link /\ free' \in Link
  BY <1>3 DEF Unlink, Typed, Link
<1>13. /\ \A i \in 1..Len(list) : i # n => list[i] # k
       /\ \A i \in 1..Len(list) : i # n - 1 => list[i] # list[n - 1]
       /\ \A i \in 1..Len(spare) : spare[i] # k /\ spare[i] # list[n - 1]
       /\ n < Len(list) =>
            \A i \in 1..Len(list) : i # n + 1 => list[i] # next[k]
  BY <1>2, <1>3, <1>8 DEF Distinct
<1>14. Distinct'
  <2>1. \A i, j \in 1..Len(list') : list'[i] = list'[j] => i = j
    <3>. SUFFICES ASSUME NEW i \in 1..Len(list'), NEW j \in 1..Len(list'),
                         list'[i] = list'[j]
                  PROVE  i = j
      OBVIOUS
    <3>. DEFINE a == IF i < n THEN i ELSE i + 1
                b == IF j < n THEN j ELSE j + 1
    <3>1. a \in 1..Len(list) /\ b \in 1..Len(list) /\ list[a] = list[b]
      BY <1>1, <1>2, <1>6
    <3>2. a = b
      BY <3>1 DEF Distinct
    <3>. QED BY <1>1, <1>2, <1>6, <3>2
  <2>2. \A i, j \in 1..Len(spare') : spare'[i] = spare'[j] => i = j
    <3>. SUFFICES ASSUME NEW i \in 1..Len(spare'), NEW j \in 1..Len(spare'),
                         spare'[i] = spare'[j]
                  PROVE  i = j
      OBVIOUS
    <3>1. CASE i = 1 \/ j = 1
      <4>1. \A m \in 1..Len(spare') : m # 1 => spare'[m] # k
        <5>. TAKE m \in 1..Len(spare')
        <5>. HAVE m # 1
        <5>1. m - 1 \in 1..Len(spare) /\ spare'[m] = spare[m - 1]
          BY <1>1, <1>7
        <5>. QED BY <1>13, <5>1
      <4>2. spare'[1] = k
        BY <1>1, <1>7
      <4>. QED BY <3>1, <4>1, <4>2
    <3>2. CASE i # 1 /\ j # 1
      <4>1. /\ i - 1 \in 1..Len(spare) /\ j - 1 \in 1..Len(spare)
            /\ spare[i - 1] = spare[j - 1]
        BY <1>1, <1>7, <3>2
      <4>2. i - 1 = j - 1
        BY <4>1 DEF Distinct
      <4>. QED BY <1>1, <1>7, <4>2
    <3>. QED BY <3>1, <3>2
  <2>3. \A i \in 1..Len(list'), j \in 1..Len(spare') : list'[i] # spare'[j]
    <3>. SUFFICES ASSUME NEW i \in 1..Len(list'), NEW j \in 1..Len(spare')
                  PROVE  list'[i] # spare'[j]
      OBVIOUS
    <3>. DEFINE a == IF i < n THEN i ELSE i + 1
    <3>1. a \in 1..Len(list) /\ a # n /\ list'[i] = list[a]
      BY <1>1, <1>2, <1>6
    <3>2. CASE j = 1
      BY <1>1, <1>7, <1>13, <3>1, <3>2
    <3>3. CASE j # 1
      <4>1. j - 1 \in 1..Len(spare) /\ spare'[j] = spare[j - 1]
        BY <1>1, <1>7, <3>3
      <4>. QED BY <3>1, <4>1 DEF Distinct
    <3>. QED BY <3>2, <3>3
  <2>. QED BY <2>1, <2>2, <2>3 DEF Distinct
<1>15. Chains'
  <2>1. first' = HeadOf(list')
    <3>1. first = list[1]
      BY <1>1, <1>2 DEF Chains, HeadOf
    <3>2. Len(list') # 0 /\ list'[1] = list[1]
      BY <1>1, <1>2, <1>6
    <3>. QED BY <3>1, <3>2 DEF Unlink, HeadOf
  <2>2. last' = LastOf(list')
    <3>1. Len(list') # 0 /\ LastOf(list') = list'[Len(list) - 1]
      BY <1>1, <1>2, <1>6 DEF LastOf
    <3>2. CASE n = Len(list)
      <4>1. last' = list[n - 1]
        BY <1>3, <1>10, <3>2 DEF Unlink
      <4>2. list'[Len(list) - 1] = list[n - 1]
        BY <1>1, <1>2, <1>6, <3>2
      <4>. QED BY <3>1, <4>1, <4>2
    <3>3. CASE n < Len(list)
      <4>1. last' = last
        BY <1>2, <1>10, <3>3 DEF Unlink
      <4>2. last = list[Len(list)]
        BY <1>1, <1>2 DEF Chains, LastOf
      <4>3. list'[Len(list) - 1] = list[Len(list)]
        BY <1>1, <1>2, <1>6, <3>3
      <4>. QED BY <3>1, <4>1, <4>2, <4>3
    <3>. QED BY <1>1, <1>2, <3>2, <3>3
  <2>3. free' = HeadOf(spare')
    BY <1>1, <1>7 DEF Unlink, HeadOf
  <2>4. \A i \in 1..Len(list') : next'[list'[i]] = After(list', i)
    <3>. SUFFICES ASSUME NEW i \in 1..Len(list')
                  PROVE  next'[list'[i]] = After(list', i)
      OBVIOUS
    <3>1. i \in Nat /\ i >= 1 /\ i <= Len(list) - 1
      BY <1>1, <1>6
    <3>2. CASE i < n - 1
      <4>1. /\ i \in 1..Len(list) /\ i # n /\ i # n - 1
            /\ list'[i] = list[i] /\ list'[i + 1] = list[i + 1]
            /\ i # Len(list) /\ i # Len(list')
        <5>1. /\ i \in 1..Len(list) /\ i # n /\ i # n - 1
              /\ i # Len(list) /\ i # Len(list) - 1
          BY <1>1, <1>2, <3>1, <3>2
        <5>2. /\ i \in 1..Len(list) - 1 /\ i < n
              /\ i + 1 \in 1..Len(list) - 1 /\ i + 1 < n
          BY <1>1, <1>2, <3>1, <3>2
        <5>. QED BY <1>6, <1>17, <5>1, <5>2
      <4>2. next'[list[i]] = next[list[i]]
        BY <1>1, <1>5, <1>13, <4>1
      <4>3. next[list[i]] = After(list, i)
        BY <4>1 DEF Chains
      <4>. QED BY <4>1, <4>2, <4>3 DEF After
    <3>3. CASE i = n - 1
      <4>1. list'[i] = list[n - 1] /\ i + 1 = n
        BY <1>1, <1>2, <1>6, <3>1, <3>3
      <4>2. next'[list'[i]] = After(list, n)
        BY <1>5, <4>1
      <4>3. CASE n = Len(list)
        BY <1>1, <1>2, <1>6, <3>3, <4>2, <4>3 DEF After
      <4>4. CASE n < Len(list)
        <5>1. list'[n] = list[n + 1] /\ i # Len(list') /\ n # Len(list)
          BY <1>1, <1>2, <1>6, <3>3, <4>4
        <5>. QED BY <4>1, <4>2, <5>1 DEF After
      <4>. QED BY <1>1, <1>2, <4>3, <4>4
    <3>4. CASE i >= n
      <4>1. /\ i + 1 \in 1..Len(list) /\ i + 1 # n /\ i + 1 # n - 1
            /\ list'[i] = list[i + 1]
        BY <1>1, <1>2, <1>6, <3>1, <3>4
      <4>2. next'[list[i + 1]] = next[list[i + 1]]
        BY <1>1, <1>5, <1>13, <4>1
      <4>3. next[list[i + 1]] = After(list, i + 1)
        BY <4>1 DEF Chains
      <4>4. CASE i = Len(list')
        <5>1. i + 1 = Len(list)
          BY <1>1, <1>6, <4>4
        <5>. QED BY <4>1, <4>2, <4>3, <4>4, <5>1 DEF After
      <4>5. CASE i # Len(list')
        <5>1. i + 1 # Len(list) /\ list'[i + 1] = list[i + 1 + 1]
          <6>1. i + 1 # Len(list) /\ i + 1 \in 1..Len(list) - 1 /\ i + 1 >= n
            <7>1. ASSUME NEW l \in Nat, i <= l - 1, i # l - 1
                  PROVE  i + 1 # l /\ i + 1 \in 1..l - 1 /\ i + 1 >= n
              BY <1>2, <3>1, <3>4, <7>1
            <7>2. i # Len(list) - 1
              BY <1>6, <4>5
            <7>. QED BY <1>1, <3>1, <7>1, <7>2
          <6>. QED BY <1>16, <6>1
        <5>. QED BY <4>1, <4>2, <4>3, <4>5, <5>1 DEF After
      <4>. QED BY <4>4, <4>5
    <3>. QED BY <1>2, <3>1, <3>2, <3>3, <3>4
  <2>5. \A i \in 1..Len(spare') : next'[spare'[i]] = After(spare', i)
    <3>. SUFFICES ASSUME NEW i \in 1..Len(spare')
                  PROVE  next'[spare'[i]] = After(spare', i)
      OBVIOUS
    <3>1. CASE i = 1
      <4>1. next'[spare'[i]] = HeadOf(spare)
        BY <1>1, <1>5, <1>7, <3>1 DEF Chains
      <4>. QED BY <1>1, <1>7, <3>1, <4>1 DEF After, HeadOf
    <3>2. CASE i # 1
      <4>1. i - 1 \in 1..Len(spare) /\ spare'[i] = spare[i - 1]
        BY <1>1, <1>7, <3>2
      <4>2. next'[spare[i - 1]] = next[spare[i - 1]]
        BY <1>1, <1>5, <1>13, <4>1
      <4>3. next[spare[i - 1]] = After(spare, i - 1)
        BY <4>1 DEF Chains
      <4>. QED BY <1>1, <1>7, <4>1, <4>2, <4>3 DEF After
    <3>. QED BY <3>1, <3>2
  <2>6. \A i \in 2..Len(list') : prev'[list'[i]] = list'[i - 1]
    <3>. SUFFICES ASSUME NEW i \in 2..Len(list')
                  PROVE  prev'[list'[i]] = list'[i - 1]
      OBVIOUS
    <3>1. i \in Nat /\ i >= 2 /\ i <= Len(list) - 1
      BY <1>1, <1>6
    <3>2. CASE i < n
      <4>1. /\ i \in 2..Len(list) /\ i \in 1..Len(list) /\ i # n + 1
            /\ list'[i] = list[i] /\ list'[i - 1] = list[i - 1]
        <5>1. /\ i \in 2..Len(list) /\ i \in 1..Len(list) /\ i # n + 1
              /\ i \in 1..Len(list) - 1 /\ i - 1 \in 1..Len(list) - 1 /\ i - 1 < n
          <6>1. ASSUME NEW l \in Nat, i <= l - 1
                PROVE  /\ i \in 2..l /\ i \in 1..l /\ i # n + 1
                       /\ i \in 1..l - 1 /\ i - 1 \in 1..l - 1 /\ i - 1 < n
            BY <1>2, <3>1, <3>2, <6>1
          <6>. QED BY <1>1, <3>1, <6>1
        <5>2. list'[i] = list[i]
          <6>1. i \in 1..Len(list) - 1
            BY <5>1
          <6>. QED BY <1>17, <3>2, <6>1
        <5>3. list'[i - 1] = list[i - 1]
          <6>1. i - 1 \in 1..Len(list) - 1 /\ i - 1 < n
            BY <5>1
          <6>. QED BY <1>17, <6>1
        <5>4. i \in 2..Len(list) /\ i \in 1..Len(list) /\ i # n + 1
          BY <5>1
        <5>. QED BY <5>2, <5>3, <5>4
      <4>2. list[i] # next[k]
        BY <1>1, <1>2, <1>9, <1>13, <4>1
      <4>3. prev'[list[i]] = prev[list[i]]
        BY <1>1, <1>11, <4>1, <4>2
      <4>. QED BY <4>1, <4>3 DEF Chains
    <3>3. CASE i = n
      <4>1. n < Len(list) /\ list'[i] = list[n + 1] /\ list'[i - 1] = list[n - 1]
        BY <1>1, <1>2, <1>6, <3>1, <3>3
      <4>. QED BY <1>11, <4>1
    <3>4. CASE i > n
      <4>1. /\ i + 1 \in 2..Len(list) /\ i + 1 \in 1..Len(list) /\ i + 1 # n + 1
            /\ i + 1 - 1 = i /\ n < Len(list)
            /\ list'[i] = list[i + 1] /\ list'[i - 1] = list[i]
        <5>1. /\ i + 1 \in 2..Len(list) /\ i + 1 \in 1..Len(list) /\ i + 1 # n + 1
              /\ i + 1 - 1 = i /\ n < Len(list)
          BY <1>1, <1>2, <3>1, <3>4
        <5>2. i \in 1..Len(list) - 1 /\ i >= n
          BY <1>1, <1>2, <3>1, <3>4
        <5>3. i - 1 \in 1..Len(list) - 1 /\ i - 1 >= n /\ i - 1 + 1 = i
          BY <1>1, <1>2, <3>1, <3>4
        <5>4. list'[i - 1] = list[i - 1 + 1]
          BY <1>16, <5>3
        <5>. QED BY <1>16, <5>1, <5>2, <5>3, <5>4
      <4>2. prev'[list[i + 1]] = prev[list[i + 1]]
        BY <1>1, <1>11, <1>13, <4>1
      <4>3. prev[list[i + 1]] = list[i + 1 - 1]
        BY <4>1 DEF Chains
      <4>. QED BY <4>1, <4>2, <4>3
    <3>. QED BY <1>2, <3>1, <3>2, <3>3, <3>4
  <2>7. Len(list') + Len(spare') = MVec + 1
    BY <1>1, <1>6, <1>7 DEF Chains
  <2>8. \A s \in Slot : \/ \E i \in 1..Len(list') : list'[i] = s
                        \/ \E i \in 1..Len(spare') : spare'[i] = s
    <3>. SUFFICES ASSUME NEW s \in Slot
                  PROVE  \/ \E i \in 1..Len(list') : list'[i] = s
                         \/ \E i \in 1..Len(spare') : spare'[i] = s
      OBVIOUS
    <3>1. CASE \E i \in 1..Len(list) : list[i] = s
      <4>1. PICK i \in 1..Len(list) : list[i] = s
        BY <3>1
      <4>2. CASE i = n
        <5>. 1 \in 1..Len(spare') /\ spare'[1] = s
          BY <1>1, <1>3, <1>7, <4>1, <4>2
        <5>. QED OBVIOUS
      <4>3. CASE i < n
        <5>. i \in 1..Len(list') /\ list'[i] = s
          BY <1>1, <1>2, <1>6, <4>1, <4>3
        <5>. QED OBVIOUS
      <4>4. CASE i > n
        <5>. i - 1 \in 1..Len(list') /\ list'[i - 1] = s
          BY <1>1, <1>2, <1>6, <4>1, <4>4
        <5>. QED OBVIOUS
      <4>. QED BY <1>2, <4>2, <4>3, <4>4
    <3>2. CASE \E i \in 1..Len(spare) : spare[i] = s
      <4>1. PICK i \in 1..Len(spare) : spare[i] = s
        BY <3>2
      <4>. i + 1 \in 1..Len(spare') /\ spare'[i + 1] = s
        BY <1>1, <1>7, <4>1
      <4>. QED OBVIOUS
    <3>. QED BY <3>1, <3>2 DEF Chains
  <2>. QED BY <2>1, <2>2, <2>3, <2>4, <2>5, <2>6, <2>7, <2>8 DEF Chains
<1>. QED BY <1>5, <1>6, <1>7, <1>11, <1>12, <1>14, <1>15

(* Moving the first free slot to the head of the list, as Save does.       *)
Prepend ==
    /\ free' = next[free]
    /\ next' = [next EXCEPT ![free] = first]
    /\ IF first = EOL
         THEN prev' = [prev EXCEPT ![free] = EOL] /\ last' = free
         ELSE prev' = [prev EXCEPT ![free] = EOL, ![first] = free] /\ UNCHANGED last
    /\ first' = free
    /\ list' = Cons(free, list)
    /\ spare' = Tail(spare)

LEMMA PrependStep ==
    ASSUME Typed, Distinct, Chains, Len(spare) >= 1, Prepend
    PROVE  /\ first' \in Link /\ last' \in Link /\ free' \in Link
           /\ next' \in [Slot -> Link] /\ prev' \in [Slot -> Link]
           /\ list' \in Seq(Slot) /\ spare' \in Seq(Slot)
           /\ Len(list') = Len(list) + 1
           /\ Distinct' /\ Chains'
<1>. MVec \in Nat \ {0} /\ EOL \notin Slot
  BY MVecAssumption DEF Slot, EOL
<1>1. /\ list \in Seq(Slot) /\ spare \in Seq(Slot)
      /\ Len(list) \in Nat /\ Len(spare) \in Nat
      /\ \A i \in 1..Len(list) : list[i] \in Slot
      /\ \A i \in 1..Len(spare) : spare[i] \in Slot
  BY LenProperties, ElementOfSeq DEF Typed
<1>2. /\ spare' \in Seq(Slot) /\ Len(spare') = Len(spare) - 1
      /\ \A i \in 1..Len(spare) - 1 : spare'[i] = spare[i + 1]
  BY <1>1, TailFacts DEF Prepend
<1>3. free = spare[1] /\ free \in Slot /\ next[free] = After(spare, 1)
  BY <1>1 DEF Chains, HeadOf
<1>4. /\ list' \in Seq(Slot) /\ Len(list') = Len(list) + 1
      /\ \A i \in 1..Len(list) + 1 : list'[i] = IF i = 1 THEN free ELSE list[i - 1]
  <2>1. list' = Cons(free, list)
    BY DEF Prepend
  <2>2. list \in Seq(Slot) /\ free \in Slot
    BY <1>1, <1>3
  <2>3. /\ Cons(free, list) \in Seq(Slot)
        /\ Len(Cons(free, list)) = Len(list) + 1
        /\ \A i \in 1..Len(list) + 1 :
             Cons(free, list)[i] = IF i = 1 THEN free ELSE list[i - 1]
    BY <2>2, ConsFacts
  <2>. QED BY <2>1, <2>3
<1>5. list'[1] = free /\ \A i \in 2..Len(list') : i - 1 \in 1..Len(list) /\ list'[i] = list[i - 1]
  BY <1>1, <1>4
<1>6. /\ \A i \in 1..Len(list) : list[i] # free
      /\ \A i \in 2..Len(spare) : spare[i] # free
  BY <1>1, <1>3 DEF Distinct
<1>7. first = EOL <=> Len(list) = 0
  BY <1>1 DEF Chains, HeadOf
<1>8. Len(list) # 0 => first = list[1] /\ first \in Slot /\ first # free
  <2>. HAVE Len(list) # 0
  <2>1. 1 \in 1..Len(list)
    BY <1>1
  <2>. QED BY <1>1, <1>6, <2>1 DEF Chains, HeadOf
<1>9. /\ next' \in [Slot -> Link] /\ next'[free] = first
      /\ \A s \in Slot : s # free => next'[s] = next[s]
  BY <1>3 DEF Prepend, Typed
<1>10. /\ prev' \in [Slot -> Link]
       /\ \A s \in Slot : s # free /\ s # first => prev'[s] = prev[s]
       /\ Len(list) # 0 => prev'[list[1]] = free
  <2>1. prev \in [Slot -> Link] /\ free \in Link /\ EOL \in Link
    BY <1>3 DEF Typed, Link
  <2>2. CASE Len(list) = 0
    BY <1>3, <1>7, <2>1, <2>2 DEF Prepend
  <2>3. CASE Len(list) # 0
    <3>1. prev' = [prev EXCEPT ![free] = EOL, ![first] = free]
      BY <1>7, <2>3 DEF Prepend
    <3>. QED BY <1>3, <1>8, <2>1, <2>3, <3>1
  <2>. QED BY <2>2, <2>3
<1>11. first' \in Link /\ last' \in Link /\ free' \in Link
  BY <1>3 DEF Prepend, Typed, Link
<1>12. Distinct'
  <2>1. \A i, j \in 1..Len(list') : list'[i] = list'[j] => i = j
    <3>. SUFFICES ASSUME NEW i \in 1..Len(list'), NEW j \in 1..Len(list'),
                         list'[i] = list'[j]
                  PROVE  i = j
      OBVIOUS
    <3>1. CASE i = 1 \/ j = 1
      <4>1. \A m \in 2..Len(list') : list'[m] # free
        BY <1>5, <1>6
      <4>2. (i = 1 \/ i \in 2..Len(list')) /\ (j = 1 \/ j \in 2..Len(list'))
        BY <1>1, <1>4
      <4>. QED BY <1>5, <3>1, <4>1, <4>2
    <3>2. CASE i # 1 /\ j # 1
      <4>1. i \in 2..Len(list') /\ j \in 2..Len(list')
        BY <1>1, <1>4, <3>2
      <4>2. i - 1 = j - 1
        BY <1>5, <4>1 DEF Distinct
      <4>. QED BY <1>1, <1>4, <4>2
    <3>. QED BY <3>1, <3>2
  <2>2. \A i, j \in 1..Len(spare') : spare'[i] = spare'[j] => i = j
    <3>. SUFFICES ASSUME NEW i \in 1..Len(spare'), NEW j \in 1..Len(spare'),
                         spare'[i] = spare'[j]
                  PROVE  i = j
      OBVIOUS
    <3>1. /\ i + 1 \in 1..Len(spare) /\ j + 1 \in 1..Len(spare)
          /\ spare[i + 1] = spare[j + 1]
      BY <1>1, <1>2
    <3>2. i + 1 = j + 1
      BY <3>1 DEF Distinct
    <3>. QED BY <1>1, <1>2, <3>2
  <2>3. \A i \in 1..Len(list'), j \in 1..Len(spare') : list'[i] # spare'[j]
    <3>. SUFFICES ASSUME NEW i \in 1..Len(list'), NEW j \in 1..Len(spare')
                  PROVE  list'[i] # spare'[j]
      OBVIOUS
    <3>1. j + 1 \in 2..Len(spare) /\ j + 1 \in 1..Len(spare) /\ spare'[j] = spare[j + 1]
      BY <1>1, <1>2
    <3>2. CASE i = 1
      BY <1>5, <1>6, <3>1, <3>2
    <3>3. CASE i # 1
      <4>1. i \in 2..Len(list')
        BY <1>1, <1>4, <3>3
      <4>. QED BY <1>5, <3>1, <4>1 DEF Distinct
    <3>. QED BY <3>2, <3>3
  <2>. QED BY <2>1, <2>2, <2>3 DEF Distinct
<1>13. Chains'
  <2>1. first' = HeadOf(list')
    BY <1>1, <1>4, <1>5 DEF Prepend, HeadOf
  <2>2. last' = LastOf(list')
    <3>1. Len(list') # 0 /\ LastOf(list') = list'[Len(list) + 1]
      BY <1>1, <1>4 DEF LastOf
    <3>2. CASE Len(list) = 0
      BY <1>5, <1>7, <3>1, <3>2 DEF Prepend
    <3>3. CASE Len(list) # 0
      <4>1. Len(list) + 1 \in 2..Len(list') /\ Len(list) + 1 - 1 = Len(list)
        BY <1>1, <1>4, <3>3
      <4>2. list'[Len(list) + 1] = list[Len(list)]
        <5>1. list'[Len(list) + 1] = list[Len(list) + 1 - 1]
          BY <1>5, <4>1
        <5>. QED BY <4>1, <5>1
      <4>3. last' = last
        BY <1>7, <3>3 DEF Prepend
      <4>. QED BY <3>1, <3>3, <4>2, <4>3 DEF Chains, LastOf
    <3>. QED BY <3>2, <3>3
  <2>3. free' = HeadOf(spare')
    <3>1. free' = After(spare, 1)
      BY <1>3 DEF Prepend
    <3>2. CASE Len(spare) = 1
      BY <1>2, <3>1, <3>2 DEF HeadOf, After
    <3>3. CASE Len(spare) # 1
      <4>1. Len(spare') # 0 /\ spare'[1] = spare[1 + 1]
        <5>1. 1 \in 1..Len(spare) - 1
          <6>1. ASSUME NEW n \in Nat, n >= 1, n # 1
                PROVE  1 \in 1..n - 1
            BY <6>1
          <6>. QED BY <1>1, <3>3, <6>1
        <5>. QED BY <1>1, <1>2, <3>3, <5>1
      <4>. QED BY <3>1, <3>3, <4>1 DEF HeadOf, After
    <3>. QED BY <3>2, <3>3
  <2>4. \A i \in 1..Len(list') : next'[list'[i]] = After(list', i)
    <3>. SUFFICES ASSUME NEW i \in 1..Len(list')
                  PROVE  next'[list'[i]] = After(list', i)
      OBVIOUS
    <3>1. CASE i = 1
      <4>1. next'[list'[i]] = HeadOf(list)
        BY <1>5, <1>9, <3>1 DEF Chains
      <4>2. CASE Len(list) = 0
        BY <1>4, <3>1, <4>1, <4>2 DEF After, HeadOf
      <4>3. CASE Len(list) # 0
        <5>1. i # Len(list') /\ i + 1 = 2 /\ 2 \in 2..Len(list') /\ 2 - 1 = 1
          BY <1>1, <1>4, <3>1, <4>3
        <5>2. list'[2] = list[2 - 1]
          BY <1>5, <5>1
        <5>. QED BY <4>1, <4>3, <5>1, <5>2 DEF After, HeadOf
      <4>. QED BY <4>2, <4>3
    <3>2. CASE i # 1
      <4>1. i \in 2..Len(list') /\ i - 1 + 1 = i /\ i + 1 - 1 = i
        BY <1>1, <1>4, <3>2
      <4>2. i - 1 \in 1..Len(list) /\ list'[i] = list[i - 1]
        BY <1>5, <4>1
      <4>3. next'[list[i - 1]] = next[list[i - 1]]
        BY <1>1, <1>6, <1>9, <4>2
      <4>4. next[list[i - 1]] = After(list, i - 1)
        BY <4>2 DEF Chains
      <4>5. CASE i = Len(list')
        <5>1. i - 1 = Len(list)
          BY <1>1, <1>4, <4>5
        <5>. QED BY <4>2, <4>3, <4>4, <4>5, <5>1 DEF After
      <4>6. CASE i # Len(list')
        <5>1. i + 1 \in 2..Len(list') /\ i - 1 # Len(list)
          BY <1>1, <1>4, <3>2, <4>6
        <5>2. list'[i + 1] = list[i]
          <6>1. list'[i + 1] = list[i + 1 - 1]
            BY <1>5, <5>1
          <6>. QED BY <4>1, <6>1
        <5>3. After(list, i - 1) = list[i - 1 + 1]
          BY <5>1 DEF After
        <5>. QED BY <4>1, <4>2, <4>3, <4>4, <4>6, <5>2, <5>3 DEF After
      <4>. QED BY <4>5, <4>6
    <3>. QED BY <3>1, <3>2
  <2>5. \A i \in 1..Len(spare') : next'[spare'[i]] = After(spare', i)
    <3>. SUFFICES ASSUME NEW i \in 1..Len(spare')
                  PROVE  next'[spare'[i]] = After(spare', i)
      OBVIOUS
    <3>1. i + 1 \in 2..Len(spare) /\ i + 1 \in 1..Len(spare) /\ spare'[i] = spare[i + 1]
      BY <1>1, <1>2
    <3>2. next'[spare[i + 1]] = next[spare[i + 1]]
      BY <1>1, <1>6, <1>9, <3>1
    <3>3. next[spare[i + 1]] = After(spare, i + 1)
      BY <3>1 DEF Chains
    <3>4. CASE i = Len(spare')
      <4>1. i + 1 = Len(spare)
        BY <1>1, <1>2, <3>4
      <4>. QED BY <3>1, <3>2, <3>3, <3>4, <4>1 DEF After
    <3>5. CASE i # Len(spare')
      <4>1. i + 1 # Len(spare) /\ i + 1 \in 1..Len(spare) - 1
        BY <1>1, <1>2, <3>5
      <4>2. spare'[i + 1] = spare[i + 1 + 1]
        BY <1>2, <4>1
      <4>. QED BY <3>1, <3>2, <3>3, <3>5, <4>1, <4>2 DEF After
    <3>. QED BY <3>4, <3>5
  <2>6. \A i \in 2..Len(list') : prev'[list'[i]] = list'[i - 1]
    <3>. SUFFICES ASSUME NEW i \in 2..Len(list')
                  PROVE  prev'[list'[i]] = list'[i - 1]
      OBVIOUS
    <3>1. i - 1 \in 1..Len(list) /\ list'[i] = list[i - 1] /\ Len(list) # 0
      BY <1>1, <1>5
    <3>2. CASE i = 2
      BY <1>5, <1>10, <3>1, <3>2
    <3>3. CASE i # 2
      <4>1. /\ i - 1 \in 2..Len(list) /\ i - 1 \in 2..Len(list') /\ i - 1 # 1
            /\ 1 \in 1..Len(list)
        BY <1>1, <1>4, <3>1, <3>3
      <4>2. list[i - 1] # first
        BY <1>8, <3>1, <4>1 DEF Distinct
      <4>3. prev'[list[i - 1]] = prev[list[i - 1]]
        BY <1>1, <1>6, <1>10, <3>1, <4>2
      <4>4. prev[list[i - 1]] = list[i - 1 - 1]
        BY <4>1 DEF Chains
      <4>5. list'[i - 1] = list[i - 1 - 1]
        BY <1>5, <4>1
      <4>. QED BY <3>1, <4>3, <4>4, <4>5
    <3>. QED BY <3>2, <3>3
  <2>7. Len(list') + Len(spare') = MVec + 1
    BY <1>1, <1>2, <1>4 DEF Chains
  <2>8. \A s \in Slot : \/ \E i \in 1..Len(list') : list'[i] = s
                        \/ \E i \in 1..Len(spare') : spare'[i] = s
    <3>. SUFFICES ASSUME NEW s \in Slot
                  PROVE  \/ \E i \in 1..Len(list') : list'[i] = s
                         \/ \E i \in 1..Len(spare') : spare'[i] = s
      OBVIOUS
    <3>1. CASE \E i \in 1..Len(list) : list[i] = s
      <4>1. PICK i \in 1..Len(list) : list[i] = s
        BY <3>1
      <4>. i + 1 \in 1..Len(list') /\ list'[i + 1] = s
        BY <1>1, <1>4, <4>1
      <4>. QED OBVIOUS
    <3>2. CASE \E i \in 1..Len(spare) : spare[i] = s
      <4>1. PICK i \in 1..Len(spare) : spare[i] = s
        BY <3>2
      <4>2. CASE i = 1
        <5>. 1 \in 1..Len(list') /\ list'[1] = s
          BY <1>1, <1>3, <1>4, <1>5, <4>1, <4>2
        <5>. QED OBVIOUS
      <4>3. CASE i # 1
        <5>. i - 1 \in 1..Len(spare') /\ spare'[i - 1] = s
          BY <1>1, <1>2, <4>1, <4>3
        <5>. QED OBVIOUS
      <4>. QED BY <4>2, <4>3
    <3>. QED BY <3>1, <3>2 DEF Chains
  <2>. QED BY <2>1, <2>2, <2>3, <2>4, <2>5, <2>6, <2>7, <2>8 DEF Chains
<1>. QED BY <1>2, <1>4, <1>9, <1>10, <1>11, <1>12, <1>13
-----------------------------------------------------------------------------
(* The steps of the accelerator keep the pool.                             *)
LEMMA Bounds ==
    ASSUME Typed, Chains
    PROVE  /\ MVec \in Nat /\ MVec >= 1 /\ EOL \notin Slot
           /\ Len(list) \in Nat /\ Len(spare) \in Nat
           /\ Len(list) <= MVec + 1 /\ Len(list) + Len(spare) = MVec + 1
           /\ \A i \in 1..Len(list) : list[i] \in Slot
<1>1. MVec \in Nat /\ MVec >= 1 /\ EOL \notin Slot
  BY MVecAssumption DEF Slot, EOL
<1>2. /\ Len(list) \in Nat /\ Len(spare) \in Nat
      /\ \A i \in 1..Len(list) : list[i] \in Slot
  BY LenProperties, ElementOfSeq DEF Typed
<1>3. Len(list) + Len(spare) = MVec + 1
  BY DEF Chains
<1>. QED BY <1>1, <1>2, <1>3

LEMMA EmptyKeeps ==
    ASSUME Typed, EmptyLists, pending' = FALSE, call' \in {"idle", "save"},
           UNCHANGED <<k, nvec>>
    PROVE  Typed' /\ Pool'
<1>1. /\ first' \in Link /\ last' \in Link /\ free' \in Link
      /\ next' \in [Slot -> Link] /\ prev' \in [Slot -> Link]
      /\ list' \in Seq(Slot) /\ spare' \in Seq(Slot)
      /\ Len(list') = 0 /\ Distinct' /\ Chains'
  BY EmptyListsStep
<1>2. Typed'
  BY <1>1 DEF Typed
<1>3. Room' /\ Turn'
  <2>1. MVec >= 0
    BY MVecAssumption
  <2>2. call' # "factor"
    OBVIOUS
  <2>. QED BY <1>1, <2>1, <2>2 DEF Room, Turn
<1>. QED BY <1>1, <1>2, <1>3 DEF Pool

LEMMA SameLists ==
    ASSUME Typed, Pool, UNCHANGED lists
    PROVE  Distinct' /\ Chains'
<1>1. /\ first' = first /\ last' = last /\ free' = free
      /\ next' = next /\ prev' = prev /\ list' = list /\ spare' = spare
  BY DEF lists
<1>2. Distinct'
  BY <1>1 DEF Pool, Distinct
<1>3. Chains'
  BY <1>1 DEF Pool, Chains
<1>. QED BY <1>2, <1>3

LEMMA NothingPendingKeeps ==
    ASSUME Typed, Pool, NothingPending
    PROVE  Typed' /\ Pool'
<1>1. Distinct' /\ Chains'
  BY SameLists DEF NothingPending
<1>2. Typed'
  BY DEF NothingPending, Typed, lists
<1>3. list' = list /\ call = "idle" /\ ~pending /\ call' = "save" /\ pending' = pending
  BY DEF NothingPending, lists
<1>4. Room' /\ Turn'
  BY <1>3 DEF Pool, Room, Turn
<1>. QED BY <1>1, <1>2, <1>4 DEF Pool

LEMMA TossKeeps ==
    ASSUME Typed, Pool, Toss
    PROVE  Typed' /\ Pool'
<1>1. Len(list) >= 1
  BY DEF Toss, Pool, Room
<1>2. /\ first' \in Link /\ last' \in Link /\ free' \in Link
      /\ next' \in [Slot -> Link] /\ prev' \in [Slot -> Link]
      /\ list' \in Seq(Slot) /\ spare' \in Seq(Slot)
      /\ Len(list') = Len(list) - 1 /\ Distinct' /\ Chains'
  BY <1>1, RelaxStep DEF Toss, Pool
<1>3. /\ call' = "save" /\ k' = k /\ nvec' = nvec /\ pending' = FALSE
  BY DEF Toss, Relax
<1>4. Typed'
  BY <1>2, <1>3 DEF Typed
<1>5. Len(list') <= MVec
  BY <1>2, Bounds DEF Pool
<1>6. Room' /\ Turn'
  BY <1>3, <1>5 DEF Room, Turn
<1>. QED BY <1>2, <1>4, <1>6 DEF Pool

LEMMA AcceptKeeps ==
    ASSUME Typed, Pool, NEW f, NEW old, Accept(f, old)
    PROVE  Typed' /\ Pool'
<1>1. Distinct' /\ Chains'
  BY SameLists DEF Accept
<1>2. Len(list) >= 1 /\ Len(list) \in Nat /\ MVec \in Nat /\ MVec >= 1
  BY Bounds DEF Accept, Pool, Room
<1>3. first = list[1] /\ next[list[1]] = After(list, 1) /\ list[1] \in Slot
  <2>1. 1 \in 1..Len(list)
    BY <1>2
  <2>2. Len(list) # 0
    BY <1>2
  <2>. QED BY <2>1, <2>2, Bounds DEF Pool, Chains, HeadOf
<1>4. /\ list' = list /\ k' = next[first] /\ nvec' = 1 /\ call' = "factor"
      /\ pending' = pending
  BY DEF Accept, lists
<1>5. Typed'
  <2>1. k' \in Link
    BY <1>3, <1>4 DEF Typed
  <2>. QED BY <1>4, <2>1 DEF Typed, Accept, lists
<1>6. Turn'
  BY <1>2, <1>3, <1>4 DEF Turn
<1>7. Room'
  BY <1>2, <1>4 DEF Room
<1>. QED BY <1>1, <1>5, <1>6, <1>7 DEF Pool

(* During the factorisation k is the vector after the nvec kept ones.      *)
LEMMA TurnAt ==
    ASSUME Typed, Pool, call = "factor", k # EOL
    PROVE  /\ nvec \in 1..MVec /\ nvec + 1 \in 2..Len(list)
           /\ k = list[nvec + 1] /\ k \in Slot
           /\ prev[k] = list[nvec] /\ prev[k] \in Slot
           /\ next[k] = After(list, nvec + 1)
<1>1. nvec \in 1..MVec /\ nvec <= Len(list) /\ k = After(list, nvec)
  BY DEF Pool, Turn
<1>2. nvec # Len(list) /\ k = list[nvec + 1]
  BY <1>1 DEF After
<1>3. Len(list) \in Nat /\ MVec \in Nat
  BY Bounds DEF Pool
<1>4. nvec + 1 \in 2..Len(list) /\ nvec + 1 \in 1..Len(list) /\ nvec \in 1..Len(list)
  <2>1. ASSUME NEW l \in Nat, nvec <= l, nvec # l
        PROVE  nvec + 1 \in 2..l /\ nvec + 1 \in 1..l /\ nvec \in 1..l
    BY <1>1, <1>3, <2>1
  <2>. QED BY <1>1, <1>2, <1>3, <2>1
<1>5. k \in Slot /\ list[nvec] \in Slot
  BY <1>2, <1>4, Bounds DEF Pool
<1>6. next[k] = After(list, nvec + 1)
  BY <1>2, <1>4 DEF Pool, Chains
<1>7. prev[k] = list[nvec]
  <2>1. prev[list[nvec + 1]] = list[nvec + 1 - 1]
    BY <1>4 DEF Pool, Chains
  <2>2. nvec + 1 - 1 = nvec
    BY <1>1
  <2>. QED BY <1>2, <2>1, <2>2
<1>. QED BY <1>1, <1>2, <1>4, <1>5, <1>6, <1>7

LEMMA FactoredKeeps ==
    ASSUME Typed, Pool, Factored
    PROVE  Typed' /\ Pool'
<1>1. Distinct' /\ Chains'
  BY SameLists DEF Factored
<1>2. /\ nvec \in 1..MVec /\ nvec + 1 \in 2..Len(list)
      /\ k \in Slot /\ next[k] = After(list, nvec + 1)
  BY TurnAt DEF Factored
<1>3. /\ list' = list /\ k' = next[k] /\ nvec' = nvec + 1 /\ call' = "factor"
      /\ call = "factor" /\ nvec + 1 <= MVec /\ pending' = pending
  BY DEF Factored, lists
<1>4. MVec \in Nat /\ Len(list) \in Nat
  BY Bounds DEF Pool
<1>5. Typed'
  <2>1. k' \in Link /\ nvec' \in Nat
    BY <1>2, <1>3, <1>4 DEF Typed
  <2>. QED BY <1>3, <2>1 DEF Typed, Factored, lists
<1>6. Turn'
  BY <1>2, <1>3, <1>4 DEF Turn
<1>7. Room'
  BY <1>3 DEF Pool, Room
<1>. QED BY <1>1, <1>5, <1>6, <1>7 DEF Pool

LEMMA DropDependentKeeps ==
    ASSUME Typed, Pool, DropDependent
    PROVE  Typed' /\ Pool'
<1>1. /\ nvec \in 1..MVec /\ nvec + 1 \in 2..Len(list)
      /\ k = list[nvec + 1] /\ k \in Slot
      /\ prev[k] = list[nvec] /\ prev[k] \in Slot
      /\ next[k] = After(list, nvec + 1)
  BY TurnAt DEF DropDependent
<1>2. Unlink(nvec + 1)
  BY <1>1 DEF DropDependent, Unlink
<1>3. /\ first' \in Link /\ last' \in Link /\ free' \in Link
      /\ next' \in [Slot -> Link] /\ prev' \in [Slot -> Link]
      /\ list' \in Seq(Slot) /\ spare' \in Seq(Slot)
      /\ Len(list') = Len(list) - 1 /\ Distinct' /\ Chains'
  BY <1>1, <1>2, UnlinkStep DEF Pool
<1>4. /\ k' = next[k] /\ nvec' = nvec /\ call' = "factor" /\ call = "factor"
      /\ pending' = pending /\ nvec + 1 <= MVec
  BY DEF DropDependent
<1>5. MVec \in Nat /\ Len(list) \in Nat /\ list \in Seq(Slot)
  BY Bounds DEF Pool, Typed
<1>6. Typed'
  <2>1. k' \in Link /\ nvec' \in Nat
    BY <1>1, <1>4, <1>5 DEF Typed
  <2>. QED BY <1>3, <1>4, <2>1 DEF Typed
<1>7. nvec \in 1..Len(list') /\ list'[nvec] = list[nvec]
  <2>1. nvec \in 1..Len(list) - 1 /\ nvec < nvec + 1 /\ nvec + 1 \in 1..Len(list)
    BY <1>1, <1>5
  <2>2. list' = RemoveAt(list, nvec + 1)
    BY DEF DropDependent
  <2>3. \A i \in 1..Len(list) - 1 :
          RemoveAt(list, nvec + 1)[i] = IF i < nvec + 1 THEN list[i] ELSE list[i + 1]
    BY <1>5, <2>1, RemoveFacts
  <2>. QED BY <1>3, <2>1, <2>2, <2>3
<1>8. k # prev[k]
  <2>1. nvec \in 1..Len(list) /\ nvec + 1 \in 1..Len(list) /\ nvec # nvec + 1
    BY <1>1, <1>5
  <2>. QED BY <1>1, <2>1 DEF Pool, Distinct
<1>9. next'[prev[k]] = next[k]
  <2>1. next' = [next EXCEPT ![prev[k]] = next[k], ![k] = free] /\ next \in [Slot -> Link]
    BY DEF DropDependent, Typed
  <2>. QED BY <1>1, <1>8, <2>1
<1>10. k' = After(list', nvec)
  <2>1. next'[list'[nvec]] = After(list', nvec)
    BY <1>3, <1>7 DEF Chains
  <2>. QED BY <1>1, <1>4, <1>7, <1>9, <2>1
<1>11. Turn'
  BY <1>1, <1>3, <1>4, <1>7, <1>10 DEF Turn
<1>12. Room'
  BY <1>3, <1>4, <1>5, <1>7 DEF Room
<1>. QED BY <1>3, <1>6, <1>11, <1>12 DEF Pool

(* Only the last vector can be the one too many.                           *)
LEMMA LastIsDropped ==
    ASSUME Typed, Pool, call = "factor", k # EOL, nvec + 1 > MVec
    PROVE  nvec + 1 = Len(list) /\ last = k /\ next[k] = EOL
<1>1. /\ nvec \in 1..MVec /\ nvec + 1 \in 2..Len(list)
      /\ k = list[nvec + 1] /\ next[k] = After(list, nvec + 1)
  BY TurnAt
<1>2. MVec \in Nat /\ Len(list) \in Nat /\ Len(list) <= MVec + 1
  BY Bounds DEF Pool
<1>3. nvec + 1 = Len(list) /\ Len(list) # 0
  BY <1>1, <1>2
<1>. QED BY <1>1, <1>3 DEF Pool, Chains, LastOf, After

LEMMA DropLastKeeps ==
    ASSUME Typed, Pool, DropLast
    PROVE  Typed' /\ Pool'
<1>1. /\ nvec \in 1..MVec /\ nvec + 1 \in 2..Len(list)
      /\ k = list[nvec + 1] /\ k \in Slot
      /\ prev[k] = list[nvec] /\ prev[k] \in Slot
  BY TurnAt DEF DropLast
<1>2. nvec + 1 = Len(list) /\ last = k /\ next[k] = EOL
  BY LastIsDropped DEF DropLast
<1>3. MVec \in Nat /\ Len(list) \in Nat
  BY Bounds DEF Pool
<1>4. k # prev[k]
  <2>1. nvec \in 1..Len(list) /\ nvec + 1 \in 1..Len(list) /\ nvec # nvec + 1
    BY <1>1, <1>3
  <2>. QED BY <1>1, <2>1 DEF Pool, Distinct
<1>5. next' = [next EXCEPT ![prev[k]] = next[k], ![k] = free]
  <2>1. next' = [next EXCEPT ![k] = free, ![prev[k]] = EOL] /\ next \in [Slot -> Link]
    BY <1>2 DEF DropLast, Typed
  <2>. QED BY <1>1, <1>2, <1>4, <2>1
<1>6. Unlink(nvec + 1)
  BY <1>1, <1>2, <1>5 DEF DropLast, Unlink
<1>7. /\ first' \in Link /\ last' \in Link /\ free' \in Link
      /\ next' \in [Slot -> Link] /\ prev' \in [Slot -> Link]
      /\ list' \in Seq(Slot) /\ spare' \in Seq(Slot)
      /\ Len(list') = Len(list) - 1 /\ Distinct' /\ Chains'
  BY <1>1, <1>6, UnlinkStep DEF Pool
<1>8. k' = k /\ nvec' = nvec + 1 /\ call' = "save" /\ pending' = pending
  BY DEF DropLast
<1>9. Typed'
  <2>1. nvec' \in Nat
    BY <1>1, <1>3, <1>8
  <2>. QED BY <1>7, <1>8, <2>1 DEF Typed
<1>10. Len(list') >= 1 /\ Len(list') <= MVec
  BY <1>1, <1>2, <1>3, <1>7
<1>11. Room' /\ Turn'
  BY <1>8, <1>10 DEF Room, Turn
<1>. QED BY <1>7, <1>9, <1>11 DEF Pool

LEMMA AllFactoredKeeps ==
    ASSUME Typed, Pool, AllFactored
    PROVE  Typed' /\ Pool'
<1>1. Distinct' /\ Chains'
  BY SameLists DEF AllFactored
<1>2. Typed'
  BY DEF AllFactored, Typed, lists
<1>3. /\ list' = list /\ call = "factor" /\ k = EOL /\ call' = "save"
      /\ pending' = pending
  BY DEF AllFactored, lists
<1>4. nvec \in 1..MVec /\ nvec <= Len(list) /\ k = After(list, nvec)
  BY <1>3 DEF Pool, Turn
<1>5. nvec = Len(list)
  <2>. SUFFICES ASSUME nvec # Len(list) PROVE FALSE
    OBVIOUS
  <2>1. EOL = list[nvec + 1]
    BY <1>3, <1>4 DEF After
  <2>2. nvec + 1 \in 1..Len(list)
    <3>1. ASSUME NEW l \in Nat, nvec <= l, nvec # l
          PROVE  nvec + 1 \in 1..l
      BY <1>4, <3>1, MVecAssumption
    <3>. QED BY <1>4, <3>1, Bounds DEF Pool
  <2>. QED BY <2>1, <2>2, Bounds DEF Pool
<1>6. Len(list) <= MVec /\ Len(list) >= 1
  BY <1>4, <1>5, MVecAssumption
<1>7. Room' /\ Turn'
  BY <1>3, <1>6 DEF Room, Turn
<1>. QED BY <1>1, <1>2, <1>7 DEF Pool

LEMMA SaveKeeps ==
    ASSUME Typed, Pool, NEW f, NEW d, Save(f, d)
    PROVE  Typed' /\ Pool'
<1>1. Len(spare) >= 1
  BY Bounds DEF Save, Pool, Room
<1>2. Prepend
  BY DEF Save, Prepend
<1>3. /\ first' \in Link /\ last' \in Link /\ free' \in Link
      /\ next' \in [Slot -> Link] /\ prev' \in [Slot -> Link]
      /\ list' \in Seq(Slot) /\ spare' \in Seq(Slot)
      /\ Len(list') = Len(list) + 1 /\ Distinct' /\ Chains'
  BY <1>1, <1>2, PrependStep DEF Pool
<1>4. k' = k /\ nvec' = nvec /\ call' = "idle" /\ pending' = TRUE
  BY DEF Save
<1>5. Typed'
  BY <1>3, <1>4 DEF Typed
<1>6. Len(list') >= 1
  BY <1>3, Bounds DEF Pool
<1>7. Room' /\ Turn'
  BY <1>4, <1>6 DEF Room, Turn
<1>. QED BY <1>3, <1>5, <1>7 DEF Pool
-----------------------------------------------------------------------------
LEMMA InitHolds == Init => Inv
<1>. SUFFICES ASSUME Init PROVE Inv
  OBVIOUS
<1>1. list \in Seq(Slot) /\ spare \in Seq(Slot)
  BY EmptySeq DEF Init, InitAccelerator
<1>2. k \in Link /\ nvec \in Nat
  BY DEF Init, InitAccelerator, Link
<1>3. Typed
  BY <1>1, <1>2 DEF Init, InitAccelerator, Typed, Link
<1>. QED BY <1>3 DEF Init, InitAccelerator, Inv

(* The steps of NKA_ outside of Correction and Restart.                    *)
LEMMA AcceleratorUntouched ==
    ASSUME Typed, Pool, UNCHANGED accelerator
    PROVE  Typed' /\ Pool'
<1>1. UNCHANGED lists /\ pending' = pending /\ call' = call /\ k' = k /\ nvec' = nvec
  BY DEF accelerator
<1>2. Distinct' /\ Chains'
  BY <1>1, SameLists
<1>3. list' = list
  BY <1>1 DEF lists
<1>4. Typed'
  BY <1>1 DEF Typed, lists
<1>5. Room' /\ Turn'
  BY <1>1, <1>3 DEF Pool, Room, Turn, After
<1>. QED BY <1>2, <1>4, <1>5 DEF Pool

LEMMA StepKeeps == Inv /\ [Next]_vars => Inv'
<1>. SUFFICES ASSUME Inv, [Next]_vars PROVE Inv'
  OBVIOUS
<1>1. CASE Solve
  <2>1. EmptyLists /\ pending' = FALSE /\ call' = "idle" /\ UNCHANGED <<k, nvec>>
    BY <1>1 DEF Solve, Restart
  <2>2. Typed' /\ Pool'
    BY <2>1, EmptyKeeps DEF Inv
  <2>. QED BY <2>2, <1>1 DEF Inv, Solve
<1>2. CASE at # "new" /\ (Modified \/ Grown)
  <2>1. EmptyLists /\ pending' = FALSE /\ call' \in {"idle", "save"} /\ UNCHANGED <<k, nvec>>
    BY <1>2 DEF Modified, Grown, Restart, RestartedCorrection
  <2>2. Typed' /\ Pool'
    BY <2>1, EmptyKeeps DEF Inv
  <2>3. at' # "new"
    BY <1>2 DEF Modified, Grown
  <2>. QED BY <2>2, <2>3 DEF Inv
<1>3. CASE at # "new" /\ BeginCorrection
  <2>1. Typed /\ Pool
    BY <1>3 DEF Inv
  <2>2. CASE NothingPending
    BY <2>1, <2>2, <1>3, NothingPendingKeeps DEF Inv, BeginCorrection
  <2>3. CASE Toss
    BY <2>1, <2>3, <1>3, TossKeeps DEF Inv, BeginCorrection
  <2>4. CASE Accept(itr, du)
    BY <2>1, <2>4, <1>3, AcceptKeeps DEF Inv, BeginCorrection
  <2>. QED BY <1>3, <2>2, <2>3, <2>4 DEF BeginCorrection
<1>4. CASE at # "new" /\ FactorTurn
  <2>1. Typed /\ Pool /\ at' # "new"
    BY <1>4 DEF Inv, FactorTurn, control
  <2>2. CASE Factored
    BY <2>1, <2>2, FactoredKeeps DEF Inv
  <2>3. CASE DropDependent
    BY <2>1, <2>3, DropDependentKeeps DEF Inv
  <2>4. CASE DropLast
    BY <2>1, <2>4, DropLastKeeps DEF Inv
  <2>5. CASE AllFactored
    BY <2>1, <2>5, AllFactoredKeeps DEF Inv
  <2>. QED BY <1>4, <2>2, <2>3, <2>4, <2>5 DEF FactorTurn
<1>5. CASE at # "new" /\ (EndCorrection \/ EndRecovery)
  <2>1. Typed /\ Pool /\ Save(itr, Returned)
    BY <1>5 DEF Inv, EndCorrection, EndRecovery
  <2>2. Typed' /\ Pool'
    BY <2>1, SaveKeeps
  <2>3. at' # "new"
    BY <1>5 DEF EndCorrection, EndRecovery
  <2>. QED BY <2>2, <2>3 DEF Inv
<1>6. CASE /\ at # "new"
           /\ \/ TooManyIterations \/ ResidualFails \/ ResidualConverged \/ FirstCorrection
              \/ NotModified \/ FirstOverflows \/ NotGrown \/ GrownAgain \/ Recovered
              \/ Diverging \/ NotDiverging \/ Update
  <2>1. UNCHANGED accelerator
    BY <1>6 DEF TooManyIterations, ResidualFails, ResidualConverged, FirstCorrection,
         NotModified, FirstOverflows, NotGrown, GrownAgain, Recovered, Diverging,
         NotDiverging, Update
  <2>2. Typed' /\ Pool'
    BY <1>6, <2>1, AcceleratorUntouched DEF Inv
  <2>3. at' # "new"
    BY <1>6 DEF TooManyIterations, ResidualFails, ResidualConverged, FirstCorrection,
         NotModified, FirstOverflows, NotGrown, GrownAgain, Recovered, Diverging,
         NotDiverging, Update, Return
  <2>. QED BY <2>2, <2>3 DEF Inv
<1>7. CASE at = "new" /\ Step
  <2>1. call = "idle"
    BY <1>7 DEF Inv
  <2>2. ~FactorTurn
    BY <2>1 DEF FactorTurn, Factored, DropDependent, DropLast, AllFactored
  <2>. QED
    BY <1>7, <2>2 DEF Step, TooManyIterations, ResidualFails, ResidualConverged,
         FirstCorrection, BeginCorrection, EndCorrection, NotModified, Modified,
         FirstOverflows, Grown, NotGrown, EndRecovery, GrownAgain, Recovered,
         Diverging, NotDiverging, Update
<1>8. CASE UNCHANGED vars
  <2>1. UNCHANGED accelerator /\ at' = at /\ call' = call
    BY <1>8 DEF vars, control, accelerator
  <2>2. CASE at = "new"
    <3>1. Typed'
      BY <2>1 DEF Inv, Typed, accelerator, lists
    <3>. QED BY <2>1, <2>2, <3>1 DEF Inv
  <2>3. CASE at # "new"
    BY <2>1, <2>3, AcceleratorUntouched DEF Inv
  <2>. QED BY <2>2, <2>3
<1>. QED BY <1>1, <1>2, <1>3, <1>4, <1>5, <1>6, <1>7, <1>8 DEF Next, Step

LEMMA InvHolds == Spec => []Inv
<1>. QED BY InitHolds, StepKeeps, PTL DEF Spec

(* The lists of the accelerator (NKA_Base.hh:139-388) hold every slot, each *)
(* once, and the links spell them out in both directions, in every state a  *)
(* solver (SolverNKA.hh:245-469) brings it to.                              *)
THEOREM ListsStayLinked == Spec => []Linked
<1>1. Inv => Linked
  BY DEF Inv, Pool, Chains, Linked
<1>. QED BY InvHolds, <1>1, PTL

(* The assertions of NKA_Base.hh:143-338 never fail: there is a free slot   *)
(* for every new pair, and a vector that is dropped has one before it.      *)
THEOREM AssertionsNeverFail == Spec => []AssertionsHold
<1>1. Inv => AssertionsHold
  <2>. SUFFICES ASSUME Inv, at # "new" PROVE AssertionsHold
    BY DEF AssertionsHold
  <2>1. Typed /\ Pool
    BY DEF Inv
  <2>2. /\ Len(list) \in Nat /\ Len(spare) \in Nat /\ EOL \notin Slot
        /\ Len(list) + Len(spare) = MVec + 1 /\ MVec \in Nat
        /\ \A i \in 1..Len(list) : list[i] \in Slot
    BY <2>1, Bounds DEF Pool
  <2>3. pending \/ call = "factor" => first # EOL
    BY <2>1, <2>2 DEF Pool, Chains, Room, HeadOf
  <2>4. call = "save" => free # EOL
    <3>. HAVE call = "save"
    <3>1. Len(spare) >= 1
      BY <2>1, <2>2 DEF Pool, Room
    <3>2. spare[1] \in Slot
      BY <2>1, <2>2, <3>1, ElementOfSeq DEF Typed
    <3>. QED BY <2>1, <2>2, <3>1, <3>2 DEF Pool, Chains, HeadOf
  <2>5. call = "factor" /\ k # EOL => prev[k] # EOL
    BY <2>1, <2>2, TurnAt
  <2>6. call = "factor" /\ k # EOL /\ nvec + 1 > MVec => last = k
    BY <2>1, LastIsDropped
  <2>. QED BY <2>3, <2>4, <2>5, <2>6 DEF AssertionsHold
<1>. QED BY InvHolds, <1>1, PTL
-----------------------------------------------------------------------------
(* The abstract memory.  Origins: residuals and corrections are numbered   *)
(* by iterates, a correction is there before it is applied, and a pair     *)
(* that waits has its residual.                                            *)
Late == {"modify", "growth", "recovering", "regrowth", "compare", "update"}
Steps == Corrections \cup {NoCorrection}

Origins ==
    /\ itr \in 0..MaxItrs
    /\ at \in Late \cup {"correcting"} => itr < MaxItrs
    /\ itr > 0 \/ at \in Late => du \in Corrections
    /\ w \in [Slot -> Seq(0..MaxItrs)] /\ v \in [Slot -> Steps]
    /\ Waiting => w[first] # <<>>

LEMMA ListHeads ==
    ASSUME Typed, Pool
    PROVE  /\ Len(list) >= 1 => first \in Slot /\ first = list[1]
           /\ call = "save" => free \in Slot
           /\ pending \/ call = "factor" => Len(list) >= 1
<1>1. /\ Len(list) \in Nat /\ Len(spare) \in Nat /\ MVec \in Nat
      /\ Len(list) + Len(spare) = MVec + 1
      /\ \A i \in 1..Len(list) : list[i] \in Slot
  BY Bounds DEF Pool
<1>2. \A i \in 1..Len(spare) : spare[i] \in Slot
  BY ElementOfSeq DEF Typed
<1>3. first = HeadOf(list) /\ free = HeadOf(spare)
  BY DEF Pool, Chains
<1>4. call = "save" => Len(spare) >= 1
  BY <1>1 DEF Pool, Room
<1>5. pending \/ call = "factor" => Len(list) >= 1
  BY DEF Pool, Room
<1>. QED BY <1>1, <1>2, <1>3, <1>4, <1>5 DEF HeadOf

LEMMA OriginsAtFirst == Init => Origins
<1>. SUFFICES ASSUME Init PROVE Origins
  OBVIOUS
<1>1. MaxItrs \in Nat \ {0}
  BY SolverAssumption
<1>2. <<>> \in Seq(0..MaxItrs) /\ <<>> \in Steps
  BY EmptySeq DEF Steps, NoCorrection
<1>3. itr = 0 /\ at = "new" /\ ~Waiting
  BY DEF Init, InitAccelerator, Waiting
<1>4. w \in [Slot -> Seq(0..MaxItrs)] /\ v \in [Slot -> Steps]
  BY <1>2 DEF Init, InitAccelerator
<1>5. 0 \in 0..MaxItrs /\ ~(0 > 0) /\ at \notin Late \cup {"correcting"}
  BY <1>1, <1>3 DEF Late
<1>. QED BY <1>3, <1>4, <1>5 DEF Origins

LEMMA OriginsAfterRestart ==
    ASSUME EmptyLists, pending' = FALSE
    PROVE  /\ w' \in [Slot -> Seq(0..MaxItrs)] /\ v' \in [Slot -> Steps]
           /\ ~Waiting'
<1>1. <<>> \in Seq(0..MaxItrs) /\ <<>> \in Steps
  BY EmptySeq DEF Steps, NoCorrection
<1>. QED BY <1>1 DEF EmptyLists, Waiting

LEMMA OriginsAfterCorrection ==
    ASSUME Inv, at # "new", Origins,
           \/ itr > 0 /\ itr < MaxItrs /\ (NothingPending \/ Toss \/ Accept(itr, du))
           \/ Factored \/ DropDependent \/ DropLast \/ AllFactored
    PROVE  /\ w' \in [Slot -> Seq(0..MaxItrs)] /\ v' \in [Slot -> Steps]
           /\ ~Waiting'
<1>1. Typed /\ Pool
  BY DEF Inv
<1>2. <<>> \in Seq(0..MaxItrs) /\ <<>> \in Steps
  BY EmptySeq DEF Steps, NoCorrection
<1>3. w \in [Slot -> Seq(0..MaxItrs)] /\ v \in [Slot -> Steps]
  BY DEF Origins
<1>4. CASE NothingPending \/ Factored \/ AllFactored
  BY <1>3, <1>4 DEF NothingPending, Factored, AllFactored, data, Waiting
<1>5. CASE Toss
  BY <1>2, <1>3, <1>5 DEF Toss, Waiting
<1>6. CASE itr > 0 /\ itr < MaxItrs /\ Accept(itr, du)
  <2>1. itr \in 0..MaxItrs /\ du \in Steps
    BY <1>6 DEF Origins, Steps
  <2>2. first \in Slot
    BY <1>1, <1>6, ListHeads DEF Accept
  <2>3. Append(w[first], itr) \in Seq(0..MaxItrs)
    BY <1>3, <2>1, <2>2, AppendProperties
  <2>. QED BY <1>3, <1>6, <2>1, <2>3 DEF Accept, Waiting
<1>7. CASE DropDependent \/ DropLast
  BY <1>2, <1>3, <1>7 DEF DropDependent, DropLast, Waiting
<1>. QED BY <1>4, <1>5, <1>6, <1>7

LEMMA OriginsAfterSave ==
    ASSUME Inv, at # "new", Origins, itr < MaxItrs, Save(itr, Returned)
    PROVE  /\ w' \in [Slot -> Seq(0..MaxItrs)] /\ v' \in [Slot -> Steps]
           /\ w'[first'] = <<itr>> /\ <<itr>> # <<>>
           /\ Returned \in Corrections /\ <<itr, "picard">> \in Corrections
<1>1. free \in Slot
  BY ListHeads DEF Inv, Save
<1>2. itr \in 0..MaxItrs
  BY DEF Origins
<1>3. <<itr>> \in Seq(0..MaxItrs) /\ <<itr>> # <<>>
  BY <1>2
<1>4. Returned \in Corrections /\ <<itr, "picard">> \in Corrections
  BY <1>2 DEF Returned, Corrections, Made
<1>. QED BY <1>1, <1>3, <1>4 DEF Save, Origins, Steps

LEMMA OriginsKept == Inv /\ Origins /\ [Next]_vars => Origins'
<1>. SUFFICES ASSUME Inv, Origins, [Next]_vars PROVE Origins'
  OBVIOUS
<1>0. MaxItrs \in Nat \ {0}
  BY SolverAssumption
<1>1. CASE Solve
  <2>1. EmptyLists /\ pending' = FALSE /\ at' = "iterate" /\ itr' = 0
    BY <1>1 DEF Solve, Restart
  <2>2. 0 \in 0..MaxItrs /\ ~(0 > 0) /\ at' \notin Late \cup {"correcting"}
    BY <1>0, <2>1 DEF Late
  <2>. QED BY <2>1, <2>2, OriginsAfterRestart DEF Origins
<1>2. CASE Modified \/ Grown
  <2>1. EmptyLists /\ pending' = FALSE /\ itr' = itr /\ at \in Late /\ at' \in Late
    BY <1>2 DEF Modified, Grown, Restart, RestartedCorrection, Late
  <2>2. du' \in Corrections
    BY <1>2, <2>1 DEF Modified, Grown, Origins, Corrections, Made
  <2>. QED BY <2>1, <2>2, OriginsAfterRestart DEF Origins
<1>3. CASE BeginCorrection
  <2>1. /\ at # "new" /\ itr > 0 /\ itr < MaxItrs /\ at' = "correcting"
        /\ itr' = itr /\ du' = du
        /\ NothingPending \/ Toss \/ Accept(itr, du)
    BY <1>3 DEF BeginCorrection
  <2>. QED BY <2>1, OriginsAfterCorrection DEF Origins, Late
<1>4. CASE FactorTurn
  <2>1. /\ Factored \/ DropDependent \/ DropLast \/ AllFactored
        /\ UNCHANGED <<at, itr, du>>
    BY <1>4 DEF FactorTurn, control
  <2>2. at # "new"
    BY <2>1 DEF Inv, Factored, DropDependent, DropLast, AllFactored
  <2>. QED BY <2>1, <2>2, OriginsAfterCorrection DEF Origins
<1>5. CASE EndCorrection \/ EndRecovery
  <2>1. /\ at \in {"correcting", "recovering"} /\ at' \in Late /\ itr' = itr
        /\ Save(itr, Returned) /\ du' \in {Returned, <<itr, "picard">>}
    BY <1>5 DEF EndCorrection, EndRecovery, Late
  <2>2. itr < MaxItrs /\ at # "new"
    BY <2>1 DEF Origins, Late
  <2>. QED BY <2>1, <2>2, OriginsAfterSave DEF Origins
<1>6. CASE \/ TooManyIterations \/ ResidualFails \/ ResidualConverged \/ FirstCorrection
           \/ NotModified \/ FirstOverflows \/ NotGrown \/ GrownAgain \/ Recovered
           \/ Diverging \/ NotDiverging \/ Update
  <2>1. UNCHANGED <<w, v, first, pending, call>>
    BY <1>6 DEF TooManyIterations, ResidualFails, ResidualConverged, FirstCorrection,
         NotModified, FirstOverflows, NotGrown, GrownAgain, Recovered, Diverging,
         NotDiverging, Update, accelerator, lists, data
  <2>2. CASE FirstCorrection
    <3>1. itr' = itr /\ itr < MaxItrs /\ du' = <<itr, "picard">>
      BY <2>2 DEF FirstCorrection
    <3>2. du' \in Corrections
      BY <3>1 DEF Origins, Corrections, Made
    <3>. QED BY <2>1, <3>1, <3>2 DEF Origins, Waiting
  <2>3. CASE Update
    <3>1. at = "update" /\ itr' = itr + 1 /\ du' = du /\ at' \in {"iterate", "returned"}
      BY <2>3 DEF Update, Return
    <3>2. itr + 1 \in 0..MaxItrs /\ du \in Corrections
      BY <1>0, <3>1 DEF Origins, Late
    <3>. QED BY <2>1, <3>1, <3>2 DEF Origins, Waiting, Late
  <2>4. CASE \/ TooManyIterations \/ ResidualFails \/ ResidualConverged
             \/ FirstOverflows \/ GrownAgain
    <3>1. itr' = itr /\ du' = du /\ at' = "returned"
      BY <2>4 DEF TooManyIterations, ResidualFails, ResidualConverged, FirstOverflows,
           GrownAgain, Return
    <3>. QED BY <2>1, <3>1 DEF Origins, Waiting, Late
  <2>5. CASE NotModified \/ NotGrown \/ Recovered \/ Diverging \/ NotDiverging
    <3>1. itr' = itr /\ du' = du /\ at \in Late
      BY <2>5 DEF NotModified, NotGrown, Recovered, Diverging, NotDiverging, Late
    <3>. QED BY <2>1, <3>1 DEF Origins, Waiting
  <2>. QED BY <1>6, <2>2, <2>3, <2>4, <2>5
<1>7. CASE UNCHANGED vars
  BY <1>7 DEF vars, accelerator, lists, data, control, Origins, Waiting
<1>. QED BY <1>1, <1>2, <1>3, <1>4, <1>5, <1>6, <1>7 DEF Next, Step

(* A list of slots, and what the slots hold.                               *)
Pairs == [w : Seq(0..MaxItrs), v : Steps]
Contents(l, ws, vs) == [i \in DOMAIN l |-> [w |-> ws[l[i]], v |-> vs[l[i]]]]

LEMMA ContentsFacts ==
    ASSUME NEW l \in Seq(Slot),
           NEW ws \in [Slot -> Seq(0..MaxItrs)], NEW vs \in [Slot -> Steps]
    PROVE  /\ Contents(l, ws, vs) \in Seq(Pairs)
           /\ Len(Contents(l, ws, vs)) = Len(l)
           /\ \A i \in 1..Len(l) : Contents(l, ws, vs)[i] = [w |-> ws[l[i]], v |-> vs[l[i]]]
<1>. DEFINE c == Contents(l, ws, vs)
<1>1. Len(l) \in Nat /\ DOMAIN l = 1..Len(l)
  BY LenProperties
<1>2. \A i \in 1..Len(l) : l[i] \in Slot
  BY ElementOfSeq
<1>3. c = [i \in 1..Len(l) |-> [w |-> ws[l[i]], v |-> vs[l[i]]]]
  BY <1>1 DEF Contents
<1>4. \A i \in 1..Len(l) : [w |-> ws[l[i]], v |-> vs[l[i]]] \in Pairs
  BY <1>2 DEF Pairs
<1>5. c \in [1..Len(l) -> Pairs]
  BY <1>3, <1>4
<1>. HIDE DEF c
<1>6. c \in Seq(Pairs) /\ Len(c) = Len(l)
  BY <1>1, <1>5
<1>. QED BY <1>3, <1>6 DEF c

LEMMA TailOfContents ==
    ASSUME NEW l \in Seq(Slot), Len(l) >= 1,
           NEW ws \in [Slot -> Seq(0..MaxItrs)], NEW vs \in [Slot -> Steps]
    PROVE  Tail(Contents(l, ws, vs)) = Contents(Tail(l), ws, vs)
<1>. DEFINE c == Contents(l, ws, vs)
            d == Contents(Tail(l), ws, vs)
<1>1. /\ Tail(l) \in Seq(Slot) /\ Len(Tail(l)) = Len(l) - 1 /\ Len(l) \in Nat
      /\ \A i \in 1..Len(l) - 1 : Tail(l)[i] = l[i + 1]
  BY TailFacts, LenProperties
<1>2. /\ c \in Seq(Pairs) /\ Len(c) = Len(l)
      /\ \A i \in 1..Len(l) : c[i] = [w |-> ws[l[i]], v |-> vs[l[i]]]
  BY ContentsFacts
<1>3. /\ d \in Seq(Pairs) /\ Len(d) = Len(l) - 1
      /\ \A i \in 1..Len(l) - 1 : d[i] = [w |-> ws[Tail(l)[i]], v |-> vs[Tail(l)[i]]]
  BY <1>1, ContentsFacts
<1>. HIDE DEF c, d
<1>4. /\ Tail(c) \in Seq(Pairs) /\ Len(Tail(c)) = Len(l) - 1
      /\ \A i \in 1..Len(l) - 1 : Tail(c)[i] = c[i + 1]
  BY <1>2, TailFacts
<1>5. \A i \in 1..Len(l) - 1 : Tail(c)[i] = d[i]
  <2>. SUFFICES ASSUME NEW i \in 1..Len(l) - 1 PROVE Tail(c)[i] = d[i]
    OBVIOUS
  <2>1. i + 1 \in 1..Len(l) /\ Tail(l)[i] = l[i + 1]
    BY <1>1
  <2>2. Tail(c)[i] = [w |-> ws[l[i + 1]], v |-> vs[l[i + 1]]]
    BY <1>2, <1>4, <2>1
  <2>. QED BY <1>3, <2>1, <2>2
<1>6. Tail(c) = d
  BY <1>3, <1>4, <1>5, SeqEqual
<1>. QED BY <1>6 DEF c, d

(* What is written to a slot outside the list is not seen.                 *)
LEMMA SameContents ==
    ASSUME NEW l \in Seq(Slot),
           NEW ws \in [Slot -> Seq(0..MaxItrs)], NEW vs \in [Slot -> Steps],
           NEW wt \in [Slot -> Seq(0..MaxItrs)], NEW vt \in [Slot -> Steps],
           \A i \in 1..Len(l) : wt[l[i]] = ws[l[i]] /\ vt[l[i]] = vs[l[i]]
    PROVE  Contents(l, wt, vt) = Contents(l, ws, vs)
<1>1. DOMAIN l = 1..Len(l)
  BY LenProperties
<1>. QED BY <1>1 DEF Contents

LEMMA RemoveFromContents ==
    ASSUME NEW l \in Seq(Slot), NEW n \in 1..Len(l),
           NEW ws \in [Slot -> Seq(0..MaxItrs)], NEW vs \in [Slot -> Steps]
    PROVE  RemoveAt(Contents(l, ws, vs), n) = Contents(RemoveAt(l, n), ws, vs)
<1>. DEFINE c == Contents(l, ws, vs)
            d == Contents(RemoveAt(l, n), ws, vs)
<1>1. /\ RemoveAt(l, n) \in Seq(Slot) /\ Len(RemoveAt(l, n)) = Len(l) - 1 /\ Len(l) \in Nat
      /\ \A i \in 1..Len(l) - 1 : RemoveAt(l, n)[i] = IF i < n THEN l[i] ELSE l[i + 1]
  BY RemoveFacts, LenProperties
<1>2. /\ c \in Seq(Pairs) /\ Len(c) = Len(l)
      /\ \A i \in 1..Len(l) : c[i] = [w |-> ws[l[i]], v |-> vs[l[i]]]
  BY ContentsFacts
<1>3. /\ d \in Seq(Pairs) /\ Len(d) = Len(l) - 1
      /\ \A i \in 1..Len(l) - 1 :
           d[i] = [w |-> ws[RemoveAt(l, n)[i]], v |-> vs[RemoveAt(l, n)[i]]]
  BY <1>1, ContentsFacts
<1>. HIDE DEF c, d
<1>4. /\ RemoveAt(c, n) \in Seq(Pairs) /\ Len(RemoveAt(c, n)) = Len(l) - 1
      /\ \A i \in 1..Len(l) - 1 : RemoveAt(c, n)[i] = IF i < n THEN c[i] ELSE c[i + 1]
  BY <1>2, RemoveFacts
<1>5. \A i \in 1..Len(l) - 1 : RemoveAt(c, n)[i] = d[i]
  <2>. SUFFICES ASSUME NEW i \in 1..Len(l) - 1 PROVE RemoveAt(c, n)[i] = d[i]
    OBVIOUS
  <2>1. i \in 1..Len(l) /\ i + 1 \in 1..Len(l)
    BY <1>1
  <2>2. CASE i < n
    BY <1>1, <1>2, <1>3, <1>4, <2>1, <2>2
  <2>3. CASE ~(i < n)
    BY <1>1, <1>2, <1>3, <1>4, <2>1, <2>3
  <2>. QED BY <2>2, <2>3
<1>6. RemoveAt(c, n) = d
  BY <1>3, <1>4, <1>5, SeqEqual
<1>. QED BY <1>6 DEF c, d

LEMMA StoredIsContents ==
    /\ Stored = Contents(list, w, v)
    /\ Stored' = Contents(list', w', v')
  BY DEF Stored, Contents, Held

\* Each step of the solver is a step of the memory, or none.
LEMMA RestartIsRestart ==
    ASSUME EmptyLists, pending' = FALSE
    PROVE  Memory!Next
<1>1. Stored' = <<>>
  <2>1. list' = <<>> /\ DOMAIN <<>> = {}
    BY DEF EmptyLists
  <2>. QED BY <2>1 DEF Stored
<1>2. ~Waiting'
  BY DEF Waiting
<1>3. Space' = <<>> /\ Candidate' = Memory!None
  BY <1>1, <1>2 DEF Space, Candidate, Memory!None, Memory!Pair
<1>. QED BY <1>3 DEF Memory!Next, Memory!Restart

LEMMA SameMemory ==
    ASSUME list' = list, w' = w, v' = v, first' = first, Waiting' = Waiting
    PROVE  UNCHANGED Memory!vars
<1>1. Stored' = Stored
  BY StoredIsContents
<1>2. Space' = Space /\ Candidate' = Candidate
  BY <1>1 DEF Space, Candidate, Held
<1>. QED BY <1>2 DEF Memory!vars

\* The pair that waits is the head of the list.
LEMMA WaitingIsHead ==
    ASSUME Inv, at # "new", Origins, Waiting
    PROVE  /\ Len(list) >= 1 /\ first \in Slot /\ first = list[1]
           /\ Space = Contents(Tail(list), w, v)
           /\ Candidate = [w |-> w[first], v |-> v[first]]
           /\ Candidate # Memory!None
<1>1. Len(list) >= 1 /\ first \in Slot /\ first = list[1]
  BY ListHeads DEF Inv, Waiting
<1>2. Space = Contents(Tail(list), w, v)
  BY <1>1, StoredIsContents, TailOfContents DEF Space, Inv, Typed, Origins
<1>3. Candidate = [w |-> w[first], v |-> v[first]] /\ w[first] # <<>>
  BY DEF Candidate, Held, Origins
<1>4. Memory!None = [w |-> <<>>, v |-> <<>>]
  BY DEF Memory!None, Memory!Pair
<1>. QED BY <1>1, <1>2, <1>3, <1>4

LEMMA NoneWaits ==
    ASSUME ~Waiting
    PROVE  Space = Contents(list, w, v) /\ Candidate = Memory!None
  BY StoredIsContents DEF Space, Candidate, Memory!None, Memory!Pair

\* The slots of a list without its head, or without its element n, are others.
LEMMA OtherSlots ==
    ASSUME Typed, Distinct, Len(list) >= 1
    PROVE  /\ \A i \in 1..Len(Tail(list)) : Tail(list)[i] \in Slot /\ Tail(list)[i] # list[1]
           /\ \A n \in 1..Len(list) : \A i \in 1..Len(list) - 1 :
                RemoveAt(list, n)[i] \in Slot /\ RemoveAt(list, n)[i] # list[n]
<1>1. Len(list) \in Nat /\ \A i \in 1..Len(list) : list[i] \in Slot
  BY LenProperties, ElementOfSeq DEF Typed
<1>2. \A i, j \in 1..Len(list) : list[i] = list[j] => i = j
  BY DEF Distinct
<1>3. ASSUME NEW i \in 1..Len(Tail(list))
      PROVE  Tail(list)[i] \in Slot /\ Tail(list)[i] # list[1]
  <2>1. /\ Len(Tail(list)) = Len(list) - 1
        /\ \A j \in 1..Len(list) - 1 : Tail(list)[j] = list[j + 1]
    BY TailFacts DEF Typed
  <2>2. i + 1 \in 1..Len(list) /\ 1 \in 1..Len(list) /\ i + 1 # 1 /\ Tail(list)[i] = list[i + 1]
    BY <1>1, <2>1
  <2>. QED BY <1>1, <1>2, <2>2
<1>4. ASSUME NEW n \in 1..Len(list), NEW i \in 1..Len(list) - 1
      PROVE  RemoveAt(list, n)[i] \in Slot /\ RemoveAt(list, n)[i] # list[n]
  <2>1. RemoveAt(list, n)[i] = IF i < n THEN list[i] ELSE list[i + 1]
    BY RemoveFacts DEF Typed
  <2>2. i \in 1..Len(list) /\ i + 1 \in 1..Len(list) /\ (i < n => i # n) /\ (~(i < n) => i + 1 # n)
    BY <1>1
  <2>. QED BY <1>1, <1>2, <2>1, <2>2
<1>. QED BY <1>3, <1>4

LEMMA TossDiscards ==
    ASSUME Inv, at # "new", Origins, Inv', Origins', Toss
    PROVE  Memory!Next
<1>1. Waiting /\ ~Waiting' /\ list' = Tail(list)
  BY DEF Toss, Relax, Waiting
<1>2. /\ Len(list) >= 1 /\ first \in Slot /\ first = list[1]
      /\ Space = Contents(Tail(list), w, v) /\ Candidate # Memory!None
  BY <1>1, WaitingIsHead
<1>3. Space' = Contents(Tail(list), w', v') /\ Candidate' = Memory!None
  BY <1>1, StoredIsContents DEF Space, Candidate, Memory!None, Memory!Pair
<1>4. \A i \in 1..Len(Tail(list)) :
        w'[Tail(list)[i]] = w[Tail(list)[i]] /\ v'[Tail(list)[i]] = v[Tail(list)[i]]
  BY <1>2, OtherSlots DEF Toss, Inv, Pool, Origins
<1>5. Tail(list) \in Seq(Slot)
  BY <1>2, TailFacts DEF Inv, Typed
<1>6. Space' = Space
  BY <1>2, <1>3, <1>4, <1>5, SameContents DEF Origins
<1>. QED BY <1>2, <1>3, <1>6 DEF Memory!Next, Memory!Discard

LEMMA AcceptAccepts ==
    ASSUME Inv, at # "new", Origins, Inv', Origins', itr > 0, Accept(itr, du)
    PROVE  Memory!Next
<1>1. /\ Waiting /\ ~Waiting' /\ list' = list
      /\ w' = [w EXCEPT ![first] = Append(@, itr)] /\ v' = [v EXCEPT ![first] = du]
  BY DEF Accept, Waiting, lists
<1>2. /\ Len(list) >= 1 /\ first \in Slot /\ first = list[1]
      /\ Space = Contents(Tail(list), w, v) /\ Candidate # Memory!None
      /\ Candidate = [w |-> w[first], v |-> v[first]]
  BY <1>1, WaitingIsHead
<1>3. Space' = Contents(list, w', v') /\ Candidate' = Memory!None
  BY <1>1, StoredIsContents DEF Space, Candidate, Memory!None, Memory!Pair
<1>. DEFINE new == Memory!Pair(Append(Candidate.w, itr), du)
<1>4. itr \in 0..MaxItrs /\ du \in Corrections
  BY DEF Origins
<1>5. new = [w |-> w'[first], v |-> v'[first]] /\ new \in Pairs
  BY <1>1, <1>2, <1>4 DEF Memory!Pair, Origins, Pairs, Steps
<1>6. /\ Tail(list) \in Seq(Slot) /\ Len(Tail(list)) = Len(list) - 1 /\ Len(list) \in Nat
      /\ \A i \in 1..Len(list) - 1 : Tail(list)[i] = list[i + 1]
      /\ list \in Seq(Slot)
  BY <1>2, TailFacts, LenProperties DEF Inv, Typed
<1>7. \A i \in 1..Len(Tail(list)) :
        w'[Tail(list)[i]] = w[Tail(list)[i]] /\ v'[Tail(list)[i]] = v[Tail(list)[i]]
  BY <1>1, <1>2, OtherSlots DEF Inv, Pool, Origins
<1>8. Space = Contents(Tail(list), w', v')
  BY <1>2, <1>6, <1>7, SameContents DEF Origins
<1>9. /\ Space \in Seq(Pairs) /\ Len(Space) = Len(list) - 1
      /\ \A i \in 1..Len(list) - 1 :
           Space[i] = [w |-> w'[Tail(list)[i]], v |-> v'[Tail(list)[i]]]
  <2>1. w' \in [Slot -> Seq(0..MaxItrs)] /\ v' \in [Slot -> Steps]
    BY DEF Origins
  <2>2. Tail(list) \in Seq(Slot)
    BY <1>6
  <2>3. /\ Contents(Tail(list), w', v') \in Seq(Pairs)
        /\ Len(Contents(Tail(list), w', v')) = Len(Tail(list))
        /\ \A i \in 1..Len(Tail(list)) : Contents(Tail(list), w', v')[i] =
             [w |-> w'[Tail(list)[i]], v |-> v'[Tail(list)[i]]]
    BY <2>1, <2>2, ContentsFacts
  <2>4. Len(Tail(list)) = Len(list) - 1
    BY <1>6
  <2>. QED BY <1>8, <2>3, <2>4
<1>10. /\ Space' \in Seq(Pairs) /\ Len(Space') = Len(list)
       /\ \A i \in 1..Len(list) : Space'[i] = [w |-> w'[list[i]], v |-> v'[list[i]]]
  BY <1>3, <1>6, ContentsFacts DEF Origins
<1>. HIDE DEF new
<1>11. /\ Cons(new, Space) \in Seq(Pairs) /\ Len(Cons(new, Space)) = Len(list)
       /\ \A i \in 1..Len(list) : Cons(new, Space)[i] = IF i = 1 THEN new ELSE Space[i - 1]
  <2>1. /\ Cons(new, Space) \in Seq(Pairs) /\ Len(Cons(new, Space)) = Len(Space) + 1
        /\ \A i \in 1..Len(Space) + 1 : Cons(new, Space)[i] = IF i = 1 THEN new ELSE Space[i - 1]
    <3>1. new \in Pairs /\ Space \in Seq(Pairs)
      BY <1>5, <1>9
    <3>. QED BY <3>1, ConsFacts, Zenon
  <2>2. Len(Space) + 1 = Len(list)
    BY <1>6, <1>9
  <2>. QED BY <2>1, <2>2
<1>12. \A i \in 1..Len(list) : Space'[i] = Cons(new, Space)[i]
  <2>. SUFFICES ASSUME NEW i \in 1..Len(list) PROVE Space'[i] = Cons(new, Space)[i]
    OBVIOUS
  <2>1. CASE i = 1
    BY <1>2, <1>5, <1>10, <1>11, <2>1
  <2>2. CASE i # 1
    <3>1. i - 1 \in 1..Len(list) - 1 /\ (i - 1) + 1 = i
      BY <1>6, <2>2
    <3>2. Tail(list)[i - 1] = list[i]
      BY <1>6, <3>1
    <3>3. Space[i - 1] = [w |-> w'[list[i]], v |-> v'[list[i]]]
      BY <1>9, <3>1, <3>2
    <3>4. Space'[i] = [w |-> w'[list[i]], v |-> v'[list[i]]]
      BY <1>10
    <3>5. Cons(new, Space)[i] = Space[i - 1]
      BY <1>11, <2>2
    <3>. QED BY <3>3, <3>4, <3>5
  <2>. QED BY <2>1, <2>2
<1>13. Space' = Cons(new, Space)
  BY <1>10, <1>11, <1>12, SeqEqual
<1>14. Memory!Accept(itr, du)
  <2>1. Space' = Memory!Cons(Memory!Pair(Append(Candidate.w, itr), du), Space)
    BY <1>13 DEF new, Cons, Memory!Cons
  <2>. QED BY <1>2, <1>3, <2>1 DEF Memory!Accept
<1>. QED BY <1>4, <1>14 DEF Memory!Next

LEMMA DropForgets ==
    ASSUME Inv, at # "new", Origins, Inv', Origins', DropDependent \/ DropLast
    PROVE  Memory!Next
<1>. DEFINE n == nvec + 1
<1>1. call = "factor" /\ k # EOL /\ list' = RemoveAt(list, nvec + 1)
      /\ w' = [w EXCEPT ![k] = <<>>] /\ v' = [v EXCEPT ![k] = <<>>]
      /\ ~Waiting /\ ~Waiting'
  BY DEF DropDependent, DropLast, Waiting
<1>2. n \in 2..Len(list) /\ k = list[n] /\ k \in Slot /\ Len(list) \in Nat /\ nvec \in Nat
  BY <1>1, TurnAt, LenProperties DEF Inv, Typed
<1>. HIDE DEF n
<1>3. n \in 1..Len(list) /\ n > 1 /\ Len(list) >= 1 /\ list \in Seq(Slot)
  BY <1>2 DEF Inv, Typed
<1>4. /\ Space = Contents(list, w, v) /\ Candidate = Memory!None
      /\ Space' = Contents(RemoveAt(list, n), w', v') /\ Candidate' = Memory!None
  BY <1>1, StoredIsContents DEF Space, Candidate, Memory!None, Memory!Pair, n
<1>5. /\ RemoveAt(list, n) \in Seq(Slot) /\ Len(RemoveAt(list, n)) = Len(list) - 1
  BY <1>3, RemoveFacts
<1>6. \A i \in 1..Len(RemoveAt(list, n)) :
        /\ w'[RemoveAt(list, n)[i]] = w[RemoveAt(list, n)[i]]
        /\ v'[RemoveAt(list, n)[i]] = v[RemoveAt(list, n)[i]]
  BY <1>1, <1>2, <1>3, <1>5, OtherSlots DEF Inv, Pool, Origins
<1>7. Space' = Contents(RemoveAt(list, n), w, v)
  BY <1>4, <1>5, <1>6, SameContents DEF Origins
<1>8. Space' = RemoveAt(Space, n)
  BY <1>3, <1>4, <1>7, RemoveFromContents DEF Origins
<1>9. Len(Space) = Len(list)
  BY <1>3, <1>4, ContentsFacts DEF Origins
<1>10. Memory!Forget(n) /\ n \in 1..Len(Space)
  <2>1. Space' = Memory!RemoveAt(Space, n)
    BY <1>8 DEF RemoveAt, Memory!RemoveAt
  <2>2. n > 1 /\ n \in 1..Len(Space) /\ Candidate = Memory!None /\ Candidate' = Candidate
    BY <1>3, <1>4, <1>9
  <2>. QED BY <2>1, <2>2 DEF Memory!Forget
<1>. QED BY <1>10 DEF Memory!Next

LEMMA TailOfCons ==
    ASSUME NEW S, NEW e \in S, NEW l \in Seq(S)
    PROVE  Tail(Cons(e, l)) = l
<1>1. /\ Cons(e, l) \in Seq(S) /\ Len(Cons(e, l)) = Len(l) + 1 /\ Len(l) \in Nat
      /\ \A i \in 1..Len(l) + 1 : Cons(e, l)[i] = IF i = 1 THEN e ELSE l[i - 1]
  BY ConsFacts, LenProperties
<1>2. /\ Tail(Cons(e, l)) \in Seq(S) /\ Len(Tail(Cons(e, l))) = Len(l)
      /\ \A i \in 1..Len(l) : Tail(Cons(e, l))[i] = Cons(e, l)[i + 1]
  BY <1>1, TailFacts
<1>3. \A i \in 1..Len(l) : Cons(e, l)[i + 1] = l[i]
  BY <1>1
<1>. QED BY <1>2, <1>3, SeqEqual

\* The slot a new pair is put in is not in the list.
LEMMA FreeIsElsewhere ==
    ASSUME Typed, Pool, call = "save"
    PROVE  /\ Len(list) <= MVec /\ free = spare[1]
           /\ \A i \in 1..Len(list) : list[i] # free /\ list[i] \in Slot
<1>1. Len(list) <= MVec /\ Len(spare) >= 1 /\ free = spare[1]
  BY Bounds DEF Pool, Room, Chains, HeadOf
<1>. QED BY <1>1, Bounds DEF Pool, Distinct

LEMMA SaveProposes ==
    ASSUME Inv, at # "new", Origins, Inv', Origins', itr < MaxItrs, Save(itr, Returned)
    PROVE  Memory!Next
<1>1. /\ ~Waiting /\ Waiting' /\ list' = Cons(free, list) /\ first' = free
      /\ w' = [w EXCEPT ![free] = <<itr>>] /\ v' = [v EXCEPT ![free] = Returned]
      /\ call = "save"
  BY DEF Save, Waiting
<1>2. Space = Contents(list, w, v) /\ Candidate = Memory!None
  BY <1>1, NoneWaits
<1>3. Typed /\ Pool /\ list \in Seq(Slot) /\ Len(list) \in Nat /\ free \in Slot
  BY <1>1, ListHeads, LenProperties DEF Inv, Typed
<1>4. Len(list) <= MVec
  BY <1>1, <1>3, FreeIsElsewhere
<1>5. \A i \in 1..Len(list) : list[i] # free /\ list[i] \in Slot
  BY <1>1, <1>3, FreeIsElsewhere
<1>6. Cons(free, list) \in Seq(Slot) /\ Len(Cons(free, list)) = Len(list) + 1
  BY <1>3, ConsFacts
<1>7. Tail(Cons(free, list)) = list
  BY <1>3, TailOfCons
<1>8. Space' = Contents(list, w', v')
  <2>1. Space' = Tail(Contents(Cons(free, list), w', v'))
    BY <1>1, StoredIsContents DEF Space
  <2>2. Tail(Contents(Cons(free, list), w', v')) = Contents(Tail(Cons(free, list)), w', v')
    <3>1. w' \in [Slot -> Seq(0..MaxItrs)] /\ v' \in [Slot -> Steps]
      BY DEF Origins
    <3>2. Cons(free, list) \in Seq(Slot) /\ Len(Cons(free, list)) >= 1
      BY <1>3, <1>6
    <3>. QED BY <3>1, <3>2, TailOfContents
  <2>. QED BY <1>7, <2>1, <2>2
<1>9. \A i \in 1..Len(list) : w'[list[i]] = w[list[i]] /\ v'[list[i]] = v[list[i]]
  BY <1>1, <1>3, <1>5 DEF Origins
<1>10. Space' = Space
  BY <1>2, <1>3, <1>8, <1>9, SameContents DEF Origins
<1>11. Len(Space) <= MVec
  BY <1>2, <1>3, <1>4, ContentsFacts DEF Origins
<1>12. Candidate' = Memory!Pair(<<itr>>, Returned)
  BY <1>1, <1>3 DEF Candidate, Held, Memory!Pair, Origins
<1>13. Returned \in Corrections /\ itr \in 0..MaxItrs
  BY OriginsAfterSave DEF Origins
<1>14. Memory!Propose(itr, Returned)
  BY <1>2, <1>10, <1>11, <1>12 DEF Memory!Propose
<1>. QED BY <1>13, <1>14 DEF Memory!Next

LEMMA MemoryStep ==
    Inv /\ Origins /\ Inv' /\ Origins' /\ [Next]_vars => [Memory!Next]_Memory!vars
<1>. SUFFICES ASSUME Inv, Origins, Inv', Origins', [Next]_vars
              PROVE  Memory!Next \/ UNCHANGED Memory!vars
  OBVIOUS
<1>1. CASE Solve \/ Modified \/ Grown
  BY <1>1, RestartIsRestart DEF Solve, Modified, Grown, Restart, RestartedCorrection
<1>2. CASE BeginCorrection
  <2>1. at # "new" /\ itr > 0 /\ (NothingPending \/ Toss \/ Accept(itr, du))
    BY <1>2 DEF BeginCorrection
  <2>2. CASE NothingPending
    BY <2>2, SameMemory DEF NothingPending, lists, data, Waiting
  <2>. QED BY <2>1, <2>2, TossDiscards, AcceptAccepts
<1>3. CASE FactorTurn
  <2>1. at # "new" /\ (Factored \/ DropDependent \/ DropLast \/ AllFactored)
    BY <1>3 DEF FactorTurn, Inv, Factored, DropDependent, DropLast, AllFactored
  <2>2. CASE Factored \/ AllFactored
    BY <2>2, SameMemory DEF Factored, AllFactored, lists, data, Waiting
  <2>. QED BY <2>1, <2>2, DropForgets
<1>4. CASE EndCorrection \/ EndRecovery
  <2>1. at # "new" /\ itr < MaxItrs /\ Save(itr, Returned)
    BY <1>4 DEF EndCorrection, EndRecovery, Origins, Late
  <2>. QED BY <2>1, SaveProposes
<1>5. CASE \/ TooManyIterations \/ ResidualFails \/ ResidualConverged \/ FirstCorrection
           \/ NotModified \/ FirstOverflows \/ NotGrown \/ GrownAgain \/ Recovered
           \/ Diverging \/ NotDiverging \/ Update
  <2>1. UNCHANGED accelerator
    BY <1>5 DEF TooManyIterations, ResidualFails, ResidualConverged, FirstCorrection,
         NotModified, FirstOverflows, NotGrown, GrownAgain, Recovered, Diverging,
         NotDiverging, Update
  <2>. QED BY <2>1, SameMemory DEF accelerator, lists, data, Waiting
<1>6. CASE UNCHANGED vars
  BY <1>6, SameMemory DEF vars, accelerator, lists, data, Waiting
<1>. QED BY <1>1, <1>2, <1>3, <1>4, <1>5, <1>6 DEF Next, Step

(* The linked lists (NKA_Base.hh:139-388) keep the memory of pairs that the *)
(* class promises in its file comment (NKASpace), for any number of slots   *)
(* and whatever the solver and the process kernel do: each call takes a     *)
(* step of the memory, and what a reused slot held before is never seen.    *)
THEOREM ListsImplementMemory == Spec => ImplementsMemory
<1>1. Init => Memory!Init
  <2>. SUFFICES ASSUME Init PROVE Space = <<>> /\ Candidate = Memory!None
    BY DEF Memory!Init
  <2>1. list = <<>> /\ ~Waiting
    BY DEF Init, InitAccelerator, Waiting
  <2>2. Stored = <<>>
    BY <2>1 DEF Stored
  <2>. QED BY <2>1, <2>2 DEF Space, Candidate, Memory!None, Memory!Pair
<1>. QED BY <1>1, InitHolds, OriginsAtFirst, StepKeeps, OriginsKept, MemoryStep, PTL
         DEF Spec, ImplementsMemory, Memory!Spec
-----------------------------------------------------------------------------
(* Which step belongs to which difference.  The pair that waits was saved  *)
(* in the iteration before; all others have had the step that was applied. *)
Paired(l, ws, vs, ap) ==
    \A i \in 1..Len(l) : \E n \in 1..Len(ap) : ws[l[i]] = <<n - 1, n>> /\ vs[l[i]] = ap[n]

Pairing ==
    /\ applied \in Seq(Corrections) /\ Len(applied) = itr
    /\ at = "new" => list = <<>>
    /\ at = "iterate" /\ itr > 0 => du = applied[itr]
    /\ Waiting /\ at = "iterate" => itr > 0 /\ w[first] = <<itr - 1>>
    /\ Waiting /\ at \in Late => w[first] = <<itr>>
    /\ Waiting => Len(w[first]) = 1
    /\ Paired(IF Waiting THEN Tail(list) ELSE list, w, v, applied)

LEMMA PairedPart ==
    ASSUME NEW l, NEW m, NEW ws, NEW vs, NEW wt, NEW vt, NEW ap,
           Paired(l, ws, vs, ap),
           \A i \in 1..Len(m) : \E j \in 1..Len(l) :
             m[i] = l[j] /\ wt[m[i]] = ws[m[i]] /\ vt[m[i]] = vs[m[i]]
    PROVE  Paired(m, wt, vt, ap)
<1>. SUFFICES ASSUME NEW i \in 1..Len(m)
              PROVE  \E n \in 1..Len(ap) : wt[m[i]] = <<n - 1, n>> /\ vt[m[i]] = ap[n]
  BY DEF Paired
<1>1. PICK j \in 1..Len(l) : m[i] = l[j] /\ wt[m[i]] = ws[m[i]] /\ vt[m[i]] = vs[m[i]]
  OBVIOUS
<1>2. PICK n \in 1..Len(ap) : ws[l[j]] = <<n - 1, n>> /\ vs[l[j]] = ap[n]
  BY DEF Paired
<1>. QED BY <1>1, <1>2

LEMMA PairedLater ==
    ASSUME NEW l, NEW ws, NEW vs, NEW ap \in Seq(Corrections), NEW d \in Corrections,
           Paired(l, ws, vs, ap)
    PROVE  Paired(l, ws, vs, Append(ap, d))
<1>1. /\ Len(Append(ap, d)) = Len(ap) + 1 /\ Len(ap) \in Nat
      /\ \A n \in 1..Len(ap) : Append(ap, d)[n] = ap[n]
  BY AppendProperties, LenProperties
<1>2. 1..Len(ap) \subseteq 1..Len(Append(ap, d))
  BY <1>1
<1>. QED BY <1>1, <1>2 DEF Paired

LEMMA PairedNothing ==
    ASSUME NEW l, Len(l) = 0, NEW ws, NEW vs, NEW ap
    PROVE  Paired(l, ws, vs, ap)
  BY DEF Paired

LEMMA PairingAtFirst == Init => Pairing
<1>. SUFFICES ASSUME Init PROVE Pairing
  OBVIOUS
<1>1. /\ applied = <<>> /\ itr = 0 /\ at = "new" /\ list = <<>> /\ ~Waiting
  BY DEF Init, InitAccelerator, Waiting
<1>2. <<>> \in Seq(Corrections) /\ Len(<<>>) = 0
  BY EmptySeq
<1>3. Paired(list, w, v, applied)
  BY <1>1, <1>2, PairedNothing
<1>. QED BY <1>1, <1>2, <1>3 DEF Pairing, Late

LEMMA PairingAfterToss ==
    ASSUME Inv, at # "new", Origins, Pairing, Toss
    PROVE  ~Waiting' /\ Paired(list', w', v', applied)
<1>1. Waiting /\ ~Waiting' /\ list' = Tail(list)
      /\ w' = [w EXCEPT ![first] = <<>>] /\ v' = [v EXCEPT ![first] = <<>>]
  BY DEF Toss, Relax, Waiting
<1>2. Len(list) >= 1 /\ first \in Slot /\ first = list[1]
  BY <1>1, WaitingIsHead
<1>3. Paired(Tail(list), w, v, applied)
  BY <1>1 DEF Pairing
<1>4. \A i \in 1..Len(Tail(list)) :
        w'[Tail(list)[i]] = w[Tail(list)[i]] /\ v'[Tail(list)[i]] = v[Tail(list)[i]]
  BY <1>1, <1>2, OtherSlots DEF Inv, Pool, Origins
<1>. QED BY <1>1, <1>3, <1>4, PairedPart

LEMMA AppendToOne == ASSUME NEW a \in Int, NEW b \in Int PROVE Append(<<a>>, b) = <<a, b>>
<1>1. <<a>> \in Seq(Int) /\ Len(<<a>>) = 1 /\ <<a>>[1] = a
  OBVIOUS
<1>2. <<a, b>> \in Seq(Int) /\ Len(<<a, b>>) = 2 /\ <<a, b>>[1] = a /\ <<a, b>>[2] = b
  OBVIOUS
<1>. DEFINE c == Append(<<a>>, b)
<1>3. c \in Seq(Int) /\ Len(c) = 2 /\ c[1] = a /\ c[2] = b
  BY <1>1, AppendProperties
<1>. HIDE DEF c
<1>4. \A i \in 1..2 : c[i] = <<a, b>>[i]
  BY <1>2, <1>3
<1>5. c = <<a, b>>
  BY <1>2, <1>3, <1>4, SeqEqual
<1>. QED BY <1>5 DEF c

LEMMA PairingAfterAccept ==
    ASSUME Inv, at = "iterate", itr > 0, Origins, Pairing, Accept(itr, du)
    PROVE  ~Waiting' /\ Paired(list', w', v', applied)
<1>1. /\ Waiting /\ ~Waiting' /\ list' = list
      /\ w' = [w EXCEPT ![first] = Append(@, itr)] /\ v' = [v EXCEPT ![first] = du]
  BY DEF Accept, Waiting, lists
<1>2. Len(list) >= 1 /\ first \in Slot /\ first = list[1]
  BY <1>1, WaitingIsHead
<1>3. itr \in Nat /\ Len(applied) = itr /\ w[first] = <<itr - 1>> /\ du = applied[itr]
  BY <1>1 DEF Pairing, Origins
<1>4. w'[first] = <<itr - 1, itr>> /\ v'[first] = applied[itr]
  <2>1. Append(<<itr - 1>>, itr) = <<itr - 1, itr>>
    BY <1>3, AppendToOne
  <2>. QED BY <1>1, <1>2, <1>3, <2>1 DEF Origins
<1>5. /\ Len(Tail(list)) = Len(list) - 1 /\ Len(list) \in Nat
      /\ \A i \in 1..Len(list) - 1 : Tail(list)[i] = list[i + 1]
  BY <1>2, TailFacts, LenProperties DEF Inv, Typed
<1>6. \A i \in 1..Len(Tail(list)) :
        w'[Tail(list)[i]] = w[Tail(list)[i]] /\ v'[Tail(list)[i]] = v[Tail(list)[i]]
  BY <1>1, <1>2, OtherSlots DEF Inv, Pool, Origins
<1>7. ASSUME NEW i \in 1..Len(list)
      PROVE  \E n \in 1..Len(applied) : w'[list[i]] = <<n - 1, n>> /\ v'[list[i]] = applied[n]
  <2>1. CASE i = 1
    BY <1>2, <1>3, <1>4, <2>1
  <2>2. CASE i # 1
    <3>1. i - 1 \in 1..Len(Tail(list)) /\ Tail(list)[i - 1] = list[i]
      BY <1>5, <2>2
    <3>2. \E n \in 1..Len(applied) :
            w[Tail(list)[i - 1]] = <<n - 1, n>> /\ v[Tail(list)[i - 1]] = applied[n]
      BY <1>1, <3>1 DEF Pairing, Paired
    <3>. QED BY <1>6, <3>1, <3>2
  <2>. QED BY <2>1, <2>2
<1>. QED BY <1>1, <1>7 DEF Paired

LEMMA PairingAfterDrop ==
    ASSUME Inv, at # "new", Origins, Pairing, DropDependent \/ DropLast
    PROVE  ~Waiting' /\ Paired(list', w', v', applied)
<1>. DEFINE n == nvec + 1
<1>1. call = "factor" /\ k # EOL /\ list' = RemoveAt(list, nvec + 1)
      /\ w' = [w EXCEPT ![k] = <<>>] /\ v' = [v EXCEPT ![k] = <<>>]
      /\ ~Waiting /\ ~Waiting'
  BY DEF DropDependent, DropLast, Waiting
<1>2. n \in 2..Len(list) /\ k = list[n] /\ k \in Slot /\ Len(list) \in Nat
  BY <1>1, TurnAt, LenProperties DEF Inv, Typed
<1>3. list' = RemoveAt(list, n)
  BY <1>1
<1>. HIDE DEF n
<1>4. n \in 1..Len(list) /\ Len(list) >= 1 /\ list \in Seq(Slot)
  BY <1>2 DEF Inv, Typed
<1>5. /\ Len(RemoveAt(list, n)) = Len(list) - 1
      /\ \A i \in 1..Len(list) - 1 :
           RemoveAt(list, n)[i] = IF i < n THEN list[i] ELSE list[i + 1]
  BY <1>4, RemoveFacts
<1>6. \A i \in 1..Len(list) - 1 :
        /\ w'[RemoveAt(list, n)[i]] = w[RemoveAt(list, n)[i]]
        /\ v'[RemoveAt(list, n)[i]] = v[RemoveAt(list, n)[i]]
  BY <1>1, <1>2, <1>4, OtherSlots DEF Inv, Pool, Origins
<1>7. \A i \in 1..Len(list) - 1 : \E j \in 1..Len(list) : RemoveAt(list, n)[i] = list[j]
  <2>. SUFFICES ASSUME NEW i \in 1..Len(list) - 1
                PROVE  \E j \in 1..Len(list) : RemoveAt(list, n)[i] = list[j]
    OBVIOUS
  <2>1. i \in 1..Len(list) /\ i + 1 \in 1..Len(list)
    BY <1>2
  <2>. QED BY <1>5, <2>1
<1>8. Paired(list, w, v, applied)
  BY <1>1 DEF Pairing
<1>9. Paired(RemoveAt(list, n), w', v', applied)
  BY <1>5, <1>6, <1>7, <1>8, PairedPart
<1>. QED BY <1>1, <1>3, <1>9

LEMMA PairingAfterSave ==
    ASSUME Inv, at # "new", Origins, Pairing, Save(itr, Returned)
    PROVE  /\ Waiting' /\ w'[first'] = <<itr>>
           /\ Paired(Tail(list'), w', v', applied)
<1>1. /\ ~Waiting /\ Waiting' /\ list' = Cons(free, list) /\ first' = free
      /\ w' = [w EXCEPT ![free] = <<itr>>] /\ v' = [v EXCEPT ![free] = Returned]
      /\ call = "save"
  BY DEF Save, Waiting
<1>2. free \in Slot
  BY <1>1, ListHeads DEF Inv
<1>3. \A i \in 1..Len(list) : list[i] # free /\ list[i] \in Slot
  BY <1>1, FreeIsElsewhere DEF Inv
<1>4. Tail(list') = list
  BY <1>1, <1>2, TailOfCons DEF Inv, Typed
<1>5. Paired(list, w, v, applied)
  BY <1>1 DEF Pairing
<1>6. Paired(list, w', v', applied)
  BY <1>1, <1>3, <1>5, PairedPart DEF Origins
<1>. QED BY <1>1, <1>2, <1>4, <1>6 DEF Origins

LEMMA PairingKept == Inv /\ Origins /\ Pairing /\ [Next]_vars => Pairing'
<1>. SUFFICES ASSUME Inv, Origins, Pairing, [Next]_vars PROVE Pairing'
  OBVIOUS
<1>0. itr \in Nat
  BY DEF Origins
<1>1. CASE Solve
  <2>1. /\ EmptyLists /\ pending' = FALSE /\ at' = "iterate" /\ itr' = 0 /\ applied' = <<>>
    BY <1>1 DEF Solve, Restart
  <2>2. ~Waiting' /\ list' = <<>>
    BY <2>1 DEF Waiting, EmptyLists
  <2>3. <<>> \in Seq(Corrections) /\ Len(<<>>) = 0
    BY EmptySeq
  <2>4. Paired(list', w', v', applied')
    BY <2>2, <2>3, PairedNothing
  <2>. QED BY <2>1, <2>2, <2>3, <2>4 DEF Pairing, Late
<1>2. CASE Modified \/ Grown
  <2>1. /\ EmptyLists /\ pending' = FALSE /\ at' \in Late /\ itr' = itr /\ applied' = applied
    BY <1>2 DEF Modified, Grown, Restart, RestartedCorrection, Late
  <2>2. ~Waiting' /\ list' = <<>>
    BY <2>1 DEF Waiting, EmptyLists
  <2>3. Len(list') = 0
    BY <2>2
  <2>4. Paired(list', w', v', applied')
    BY <2>3, PairedNothing
  <2>. QED BY <2>1, <2>2, <2>4 DEF Pairing, Late
<1>3. CASE BeginCorrection
  <2>1. /\ at = "iterate" /\ itr > 0 /\ itr < MaxItrs /\ at' = "correcting"
        /\ itr' = itr /\ du' = du /\ applied' = applied
        /\ NothingPending \/ Toss \/ Accept(itr, du)
    BY <1>3 DEF BeginCorrection
  <2>2. CASE NothingPending
    <3>1. ~Waiting /\ ~Waiting' /\ list' = list /\ w' = w /\ v' = v
      BY <2>2 DEF NothingPending, Waiting, lists, data
    <3>. QED BY <2>1, <3>1 DEF Pairing, Late
  <2>3. CASE Toss \/ Accept(itr, du)
    <3>1. ~Waiting' /\ Paired(list', w', v', applied)
      BY <2>1, <2>3, PairingAfterToss, PairingAfterAccept
    <3>. QED BY <2>1, <3>1 DEF Pairing, Late
  <2>. QED BY <2>1, <2>2, <2>3
<1>4. CASE FactorTurn
  <2>1. /\ Factored \/ DropDependent \/ DropLast \/ AllFactored
        /\ UNCHANGED <<at, itr, du, applied>>
    BY <1>4 DEF FactorTurn, control
  <2>2. at # "new"
    BY <2>1 DEF Inv, Factored, DropDependent, DropLast, AllFactored
  <2>3. CASE Factored \/ AllFactored
    <3>1. ~Waiting /\ ~Waiting' /\ list' = list /\ w' = w /\ v' = v
      BY <2>3 DEF Factored, AllFactored, Waiting, lists, data
    <3>. QED BY <2>1, <3>1 DEF Pairing
  <2>4. CASE DropDependent \/ DropLast
    <3>1. ~Waiting' /\ Paired(list', w', v', applied)
      BY <2>2, <2>4, PairingAfterDrop
    <3>. QED BY <2>1, <2>2, <3>1 DEF Pairing
  <2>. QED BY <2>1, <2>3, <2>4
<1>5. CASE EndCorrection \/ EndRecovery
  <2>1. /\ at # "new" /\ at' \in Late /\ itr' = itr /\ applied' = applied
        /\ Save(itr, Returned)
    BY <1>5 DEF EndCorrection, EndRecovery, Late
  <2>2. /\ Waiting' /\ w'[first'] = <<itr>> /\ Paired(Tail(list'), w', v', applied)
    BY <2>1, PairingAfterSave
  <2>3. at' # "new" /\ at' # "iterate" /\ Len(<<itr>>) = 1
    BY <2>1 DEF Late
  <2>. QED BY <2>1, <2>2, <2>3 DEF Pairing
<1>6. CASE \/ TooManyIterations \/ ResidualFails \/ ResidualConverged \/ FirstCorrection
           \/ NotModified \/ FirstOverflows \/ NotGrown \/ GrownAgain \/ Recovered
           \/ Diverging \/ NotDiverging
  <2>1. /\ UNCHANGED <<w, v, first, pending, call, list>>
        /\ itr' = itr /\ applied' = applied
    BY <1>6 DEF TooManyIterations, ResidualFails, ResidualConverged, FirstCorrection,
         NotModified, FirstOverflows, NotGrown, GrownAgain, Recovered, Diverging,
         NotDiverging, accelerator, lists, data
  <2>2. \/ at \in Late /\ at' \in Late \cup {"returned"}
        \/ at = "iterate" /\ at' = "returned"
        \/ at = "iterate" /\ at' = "modify" /\ itr = 0
    BY <1>6 DEF TooManyIterations, ResidualFails, ResidualConverged, FirstCorrection,
         NotModified, FirstOverflows, NotGrown, GrownAgain, Recovered, Diverging,
         NotDiverging, Return, Late
  <2>3. Waiting' = Waiting
    BY <2>1 DEF Waiting
  <2>4. at' # "new" /\ at' # "iterate" /\ (at' \in Late => at \in Late \/ ~Waiting)
    BY <2>2 DEF Late, Pairing
  <2>. QED BY <2>1, <2>3, <2>4 DEF Pairing
<1>7. CASE Update
  <2>1. /\ UNCHANGED <<w, v, first, pending, call, list, du>>
        /\ at = "update" /\ itr' = itr + 1 /\ applied' = Append(applied, du)
        /\ at' \in {"iterate", "returned"}
    BY <1>7 DEF Update, Return, accelerator, lists, data
  <2>2. Waiting' = Waiting
    BY <2>1 DEF Waiting
  <2>3. du \in Corrections /\ applied \in Seq(Corrections) /\ Len(applied) = itr
    BY <2>1 DEF Origins, Pairing, Late
  <2>4. /\ applied' \in Seq(Corrections) /\ Len(applied') = itr'
        /\ applied'[itr'] = du
    BY <2>1, <2>3, AppendProperties
  <2>5. Paired(IF Waiting THEN Tail(list) ELSE list, w, v, applied')
    BY <2>1, <2>3, PairedLater DEF Pairing
  <2>6. Waiting => w[first] = <<itr>> /\ Len(w[first]) = 1
    BY <2>1 DEF Pairing, Late
  <2>7. itr' > 0 /\ itr' - 1 = itr /\ at' \notin Late /\ at' # "new"
    BY <1>0, <2>1 DEF Late
  <2>. QED BY <2>1, <2>2, <2>4, <2>5, <2>6, <2>7 DEF Pairing
<1>8. CASE UNCHANGED vars
  BY <1>8 DEF vars, accelerator, lists, data, control, Pairing, Waiting
<1>. QED BY <1>1, <1>2, <1>3, <1>4, <1>5, <1>6, <1>7, <1>8 DEF Next, Step

(* Each stored correction is the one that was applied between the two       *)
(* residuals of its difference (NKA_Base.hh:189-260, SolverNKA.hh:335-407),  *)
(* however often corrections were lagged, modified, recovered or dropped.   *)
THEOREM PairsBelongTogether == Spec => []PairsMatch
<1>1. Inv /\ Origins /\ Pairing => PairsMatch
  <2>. SUFFICES ASSUME Inv, Origins, Pairing, NEW i \in DOMAIN list
                PROVE  IF i = 1 /\ pending /\ call = "idle"
                         THEN Len(w[list[i]]) = 1
                         ELSE \E n \in 1..Len(applied) :
                                w[list[i]] = <<n - 1, n>> /\ v[list[i]] = applied[n]
    BY DEF PairsMatch
  <2>1. list \in Seq(Slot) /\ Len(list) \in Nat /\ i \in 1..Len(list)
    BY LenProperties DEF Inv, Typed
  <2>2. at # "new"
    BY <2>1 DEF Pairing
  <2>3. CASE ~Waiting
    BY <2>1, <2>3 DEF Waiting, Pairing, Paired
  <2>4. CASE Waiting
    <3>1. first = list[1] /\ Len(w[first]) = 1 /\ Len(list) >= 1
      BY <2>2, <2>4, WaitingIsHead DEF Pairing
    <3>2. CASE i = 1
      BY <2>4, <3>1, <3>2 DEF Waiting
    <3>3. CASE i # 1
      <4>1. i - 1 \in 1..Len(Tail(list)) /\ Tail(list)[i - 1] = list[i]
        BY <2>1, <3>1, <3>3, TailFacts
      <4>2. Paired(Tail(list), w, v, applied)
        BY <2>4 DEF Pairing
      <4>. QED BY <3>3, <4>1, <4>2 DEF Paired
    <3>. QED BY <3>2, <3>3
  <2>. QED BY <2>3, <2>4
<1>. QED BY <1>1, InitHolds, OriginsAtFirst, PairingAtFirst, StepKeeps, OriginsKept, PairingKept, PTL
         DEF Spec
-----------------------------------------------------------------------------
(* The matrix.  Above the diagonal, for two vectors in the list, is their  *)
(* product; on it and below, as far as the factorisation has come, what    *)
(* belongs to the list as it is now.                                       *)
Products(l, m) == \A i, j \in 1..Len(l) : i < j => m[l[i]][l[j]] = Product
Rows(l, m, n) == \A j \in 1..n : \A i \in 1..j : m[l[j]][l[i]] = SubSeq(l, 1, i)
Kept == IF Waiting THEN Tail(list) ELSE list

Factors ==
    /\ DOMAIN h = Slot
    /\ Products(Kept, h)
    /\ call = "factor" => Rows(list, h, nvec)
    /\ call # "factor" /\ subspace => Rows(Kept, h, Len(Kept))

LEMMA ListFacts ==
    ASSUME Typed, Pool
    PROVE  /\ list \in Seq(Slot) /\ Len(list) \in Nat
           /\ \A i \in 1..Len(list) : list[i] \in Slot
           /\ \A i, j \in 1..Len(list) : list[i] = list[j] => i = j
  BY LenProperties, ElementOfSeq DEF Typed, Pool, Distinct

LEMMA PrefixFacts ==
    ASSUME NEW l \in Seq(Slot), NEW n \in 1..Len(l)
    PROVE  /\ SubSeq(l, 1, n) \in Seq(Slot) /\ Len(SubSeq(l, 1, n)) = n
           /\ \A i \in 1..n : SubSeq(l, 1, n)[i] = l[i]
<1>1. Len(l) \in Nat /\ \A i \in 1..Len(l) : l[i] \in Slot
  BY LenProperties, ElementOfSeq
<1>2. n \in Int /\ 1 <= n /\ 1 \in Int /\ \A i \in 1..n : l[i] \in Slot
  BY <1>1
<1>3. /\ SubSeq(l, 1, n) \in Seq(Slot)
      /\ Len(SubSeq(l, 1, n)) = IF 1 <= n THEN n - 1 + 1 ELSE 0
      /\ \A i \in 1..n - 1 + 1 : SubSeq(l, 1, n)[i] = l[1 + i - 1]
  BY <1>2, SubSeqProperties
<1>. QED BY <1>2, <1>3

LEMMA SamePrefix ==
    ASSUME NEW l \in Seq(Slot), NEW m \in Seq(Slot), NEW n \in 1..Len(l),
           n <= Len(m), \A i \in 1..n : m[i] = l[i]
    PROVE  SubSeq(m, 1, n) = SubSeq(l, 1, n)
<1>1. Len(l) \in Nat /\ Len(m) \in Nat
  BY LenProperties
<1>2. n \in 1..Len(m)
  BY <1>1
<1>. DEFINE a == SubSeq(l, 1, n)
            b == SubSeq(m, 1, n)
<1>3. a \in Seq(Slot) /\ Len(a) = n /\ \A i \in 1..n : a[i] = l[i]
  BY PrefixFacts
<1>4. b \in Seq(Slot) /\ Len(b) = n /\ \A i \in 1..n : b[i] = m[i]
  BY <1>2, PrefixFacts
<1>. HIDE DEF a, b
<1>5. a = b
  BY <1>3, <1>4, SeqEqual
<1>. QED BY <1>5 DEF a, b

LEMMA OnePrefix ==
    ASSUME NEW l \in Seq(Slot), Len(l) >= 1
    PROVE  SubSeq(l, 1, 1) = <<l[1]>>
<1>1. Len(l) \in Nat /\ 1 \in 1..Len(l)
  BY LenProperties
<1>2. l[1] \in Slot
  BY <1>1, ElementOfSeq
<1>. DEFINE a == SubSeq(l, 1, 1)
<1>3. a \in Seq(Slot) /\ Len(a) = 1 /\ a[1] = l[1]
  BY <1>1, PrefixFacts
<1>4. <<l[1]>> \in Seq(Slot) /\ Len(<<l[1]>>) = 1 /\ <<l[1]>>[1] = l[1]
  BY <1>2
<1>. HIDE DEF a
<1>5. \A i \in 1..Len(a) : a[i] = <<l[1]>>[i]
  BY <1>3, <1>4
<1>6. a = <<l[1]>>
  BY <1>3, <1>4, <1>5, SeqEqual
<1>. QED BY <1>6 DEF a

(* An empty list, a matrix that changed nowhere it matters, and the part    *)
(* of a list that a drop leaves.                                            *)
LEMMA NothingFactored ==
    ASSUME NEW l, Len(l) = 0, NEW m
    PROVE  Products(l, m) /\ Rows(l, m, Len(l))
  BY DEF Products, Rows

LEMMA FactorsAtFirst == Init => Factors
<1>. SUFFICES ASSUME Init PROVE Factors
  OBVIOUS
<1>1. /\ list = <<>> /\ call = "idle" /\ subspace = FALSE /\ ~Waiting /\ h = AllStale
  BY DEF Init, InitAccelerator, Waiting
<1>2. Len(<<>>) = 0
  BY EmptySeq
<1>3. Products(<<>>, h)
  BY <1>2, NothingFactored
<1>. QED BY <1>1, <1>3 DEF Factors, Kept, AllStale

LEMMA FactorsAfterRestart ==
    ASSUME EmptyLists, subspace' = FALSE, pending' = FALSE, call' # "factor"
    PROVE  Factors'
<1>1. list' = <<>> /\ h' = AllStale /\ ~Waiting'
  BY DEF EmptyLists, Waiting
<1>2. Len(<<>>) = 0
  BY EmptySeq
<1>3. Products(<<>>, h')
  BY <1>2, NothingFactored
<1>. QED BY <1>1, <1>3 DEF Factors, Kept, AllStale

LEMMA FactorsAfterToss ==
    ASSUME Factors, Toss
    PROVE  Factors'
<1>1. /\ Waiting /\ ~Waiting' /\ list' = Tail(list) /\ h' = h /\ subspace' = subspace
      /\ call # "factor" /\ call' = "save"
  BY DEF Toss, Relax, Waiting
<1>2. Kept' = Kept
  BY <1>1 DEF Kept
<1>. QED BY <1>1, <1>2 DEF Factors

LEMMA FactorsAfterAccept ==
    ASSUME Inv, at # "new", Origins, Factors, NEW f, NEW d, Accept(f, d)
    PROVE  Factors'
<1>1. /\ Waiting /\ ~Waiting' /\ list' = list /\ nvec' = 1 /\ call' = "factor"
  BY DEF Accept, Waiting, lists
<1>2. /\ Len(list) >= 1 /\ first \in Slot /\ first = list[1]
  BY <1>1, WaitingIsHead
<1>3. /\ list \in Seq(Slot) /\ Len(list) \in Nat
      /\ \A i \in 1..Len(list) : list[i] \in Slot
      /\ \A i, j \in 1..Len(list) : list[i] = list[j] => i = j
  BY ListFacts DEF Inv
<1>4. /\ Len(Tail(list)) = Len(list) - 1
      /\ \A i \in 1..Len(list) - 1 : Tail(list)[i] = list[i + 1]
  BY <1>2, <1>3, TailFacts
<1>5. \A r, c \in Slot :
        h'[r][c] = IF r # first THEN h[r][c]
                   ELSE IF c = first THEN <<first>>
                   ELSE IF \E i \in 2..Len(list) : list[i] = c THEN Product
                   ELSE h[r][c]
  BY <1>2 DEF Accept, Factors
<1>6. Products(list, h')
  <2>. SUFFICES ASSUME NEW i \in 1..Len(list), NEW j \in 1..Len(list), i < j
                PROVE  h'[list[i]][list[j]] = Product
    BY DEF Products
  <2>1. list[i] \in Slot /\ list[j] \in Slot /\ 1 \in 1..Len(list)
    BY <1>2, <1>3
  <2>2. CASE i = 1
    <3>1. j \in 2..Len(list) /\ list[j] # first
      BY <1>2, <1>3, <2>1, <2>2
    <3>. QED BY <1>2, <1>5, <2>1, <2>2, <3>1
  <2>3. CASE i # 1
    <3>1. /\ i - 1 \in 1..Len(Tail(list)) /\ j - 1 \in 1..Len(Tail(list)) /\ i - 1 < j - 1
          /\ Tail(list)[i - 1] = list[i] /\ Tail(list)[j - 1] = list[j]
      BY <1>3, <1>4, <2>3
    <3>2. Products(Tail(list), h)
      BY <1>1 DEF Factors, Kept
    <3>3. h[list[i]][list[j]] = Product
      BY <3>1, <3>2 DEF Products
    <3>4. list[i] # first
      BY <1>2, <1>3, <2>1, <2>3
    <3>. QED BY <1>5, <2>1, <3>3, <3>4
  <2>. QED BY <2>2, <2>3
<1>7. Rows(list, h', 1)
  <2>1. h'[first][first] = <<first>>
    BY <1>2, <1>5
  <2>2. SubSeq(list, 1, 1) = <<first>>
    BY <1>2, <1>3, OnePrefix
  <2>. SUFFICES ASSUME NEW j \in 1..1, NEW i \in 1..j
                PROVE  h'[list[j]][list[i]] = SubSeq(list, 1, i)
    BY DEF Rows
  <2>3. j = 1 /\ i = 1
    OBVIOUS
  <2>. QED BY <1>2, <2>1, <2>2, <2>3
<1>8. DOMAIN h' = Slot
  BY DEF Accept, Factors
<1>. QED BY <1>1, <1>6, <1>7, <1>8 DEF Factors, Kept
(* What a turn writes: the row of vector s = list[n + 1], as far as column *)
(* n + 1 or only n of the list.                                            *)
LEMMA RowFacts ==
    ASSUME Typed, Pool, DOMAIN h = Slot,
           NEW n \in Nat, NEW p \in Nat, n + 1 <= Len(list), p <= n + 1
    PROVE  /\ DOMAIN RowOf(list[n + 1], p) = Slot
           /\ \A j \in 1..Len(list) : j # n + 1 =>
                \A c \in Slot : RowOf(list[n + 1], p)[list[j]][c] = h[list[j]][c]
           /\ \A i \in 1..Len(list) : RowOf(list[n + 1], p)[list[n + 1]][list[i]] =
                IF i <= p THEN SubSeq(list, 1, i) ELSE h[list[n + 1]][list[i]]
<1>1. /\ Len(list) \in Nat
      /\ \A i \in 1..Len(list) : list[i] \in Slot
      /\ \A i, j \in 1..Len(list) : list[i] = list[j] => i = j
  BY ListFacts
<1>. DEFINE s == list[n + 1]
            In(c) == \E i \in 1..p : list[i] = c
            Place(c) == CHOOSE i \in 1..p : list[i] = c
            row == [c \in Slot |-> IF In(c) THEN SubSeq(list, 1, Place(c)) ELSE h[s][c]]
<1>2. n + 1 \in 1..Len(list) /\ s \in Slot
  BY <1>1
<1>3. RowOf(s, p) = [h EXCEPT ![s] = row]
  BY DEF RowOf, Factor
<1>4. \A i \in 1..Len(list) : row[list[i]] =
        IF i <= p THEN SubSeq(list, 1, i) ELSE h[s][list[i]]
  <2>. SUFFICES ASSUME NEW i \in 1..Len(list)
                PROVE  row[list[i]] = IF i <= p THEN SubSeq(list, 1, i) ELSE h[s][list[i]]
    OBVIOUS
  <2>0. p <= Len(list)
    BY <1>1
  <2>1. row[list[i]] = IF In(list[i]) THEN SubSeq(list, 1, Place(list[i])) ELSE h[s][list[i]]
    BY <1>1
  <2>2. CASE i <= p
    <3>1. i \in 1..p /\ In(list[i])
      BY <1>1, <2>2
    <3>2. Place(list[i]) \in 1..p /\ list[Place(list[i])] = list[i]
      BY <3>1
    <3>3. Place(list[i]) = i
      <4>. HIDE DEF Place
      <4>. QED BY <1>1, <2>0, <3>2
    <3>. HIDE DEF row, Place, In
    <3>. QED BY <2>1, <2>2, <3>1, <3>3
  <2>3. CASE ~(i <= p)
    <3>1. ~In(list[i])
      BY <1>1, <2>0, <2>3
    <3>. HIDE DEF row, Place, In
    <3>. QED BY <2>1, <2>3, <3>1
  <2>. QED BY <2>2, <2>3
<1>. HIDE DEF row
<1>5. \A j \in 1..Len(list) : j # n + 1 => list[j] # s /\ list[j] \in Slot
  BY <1>1, <1>2
<1>6. DOMAIN RowOf(s, p) = Slot /\ RowOf(s, p)[s] = row
      /\ \A r \in Slot : r # s => RowOf(s, p)[r] = h[r]
  BY <1>2, <1>3
<1>. QED BY <1>4, <1>5, <1>6

LEMMA FactorsAfterFactored ==
    ASSUME Inv, at # "new", Factors, Factored
    PROVE  Factors'
<1>1. /\ call = "factor" /\ call' = "factor" /\ ~Waiting /\ ~Waiting'
      /\ list' = list /\ nvec' = nvec + 1
  BY DEF Factored, Waiting, lists
<1>2. /\ nvec \in Nat /\ nvec + 1 <= Len(list) /\ k = list[nvec + 1] /\ Len(list) \in Nat
  BY <1>1, TurnAt, ListFacts DEF Inv, Factored
<1>3. h' = RowOf(list[nvec + 1], nvec + 1)
  BY <1>2 DEF Factored
<1>4. \A i \in 1..Len(list) : list[i] \in Slot
  BY <1>1, ListFacts DEF Inv
<1>5. /\ DOMAIN h' = Slot
      /\ \A j \in 1..Len(list) : j # nvec + 1 =>
           \A c \in Slot : h'[list[j]][c] = h[list[j]][c]
      /\ \A i \in 1..Len(list) : h'[list[nvec + 1]][list[i]] =
           IF i <= nvec + 1 THEN SubSeq(list, 1, i) ELSE h[list[nvec + 1]][list[i]]
  <2>1. nvec + 1 \in Nat /\ nvec + 1 <= nvec + 1 /\ DOMAIN h = Slot /\ Typed /\ Pool
    BY <1>2 DEF Inv, Factors
  <2>. QED BY <1>2, <1>3, <2>1, RowFacts
<1>6. Products(list, h) /\ Rows(list, h, nvec)
  BY <1>1 DEF Factors, Kept
<1>7. Products(list, h')
  <2>. SUFFICES ASSUME NEW i \in 1..Len(list), NEW j \in 1..Len(list), i < j
                PROVE  h'[list[i]][list[j]] = Product
    BY DEF Products
  <2>1. h[list[i]][list[j]] = Product /\ list[j] \in Slot
    BY <1>4, <1>6 DEF Products
  <2>2. CASE i # nvec + 1
    BY <1>5, <2>1, <2>2
  <2>3. CASE i = nvec + 1
    BY <1>2, <1>5, <2>1, <2>3
  <2>. QED BY <2>2, <2>3
<1>8. Rows(list, h', nvec + 1)
  <2>. SUFFICES ASSUME NEW j \in 1..nvec + 1, NEW i \in 1..j
                PROVE  h'[list[j]][list[i]] = SubSeq(list, 1, i)
    BY DEF Rows
  <2>1. i \in 1..Len(list) /\ j \in 1..Len(list) /\ list[i] \in Slot /\ i <= nvec + 1
    BY <1>2, <1>4
  <2>2. CASE j = nvec + 1
    BY <1>5, <2>1, <2>2
  <2>3. CASE j # nvec + 1
    <3>1. j \in 1..nvec
      BY <1>2, <2>3
    <3>2. h[list[j]][list[i]] = SubSeq(list, 1, i)
      BY <1>6, <3>1 DEF Rows
    <3>. QED BY <1>5, <2>1, <2>3, <3>2
  <2>. QED BY <2>2, <2>3
<1>. QED BY <1>1, <1>5, <1>7, <1>8 DEF Factors, Kept

(* Removing the vector after the factored ones leaves their products and   *)
(* their rows.                                                             *)
LEMMA RemovedVector ==
    ASSUME NEW n \in Nat, n + 1 <= Len(list), Typed, Pool, NEW m,
           \A j \in 1..Len(list) : j # n + 1 =>
              \A c \in Slot : m[list[j]][c] = h[list[j]][c],
           Products(list, h), Rows(list, h, n)
    PROVE  Products(RemoveAt(list, n + 1), m) /\ Rows(RemoveAt(list, n + 1), m, n)
<1>. DEFINE rest == RemoveAt(list, n + 1)
            Old(i) == IF i < n + 1 THEN i ELSE i + 1
<1>1. /\ list \in Seq(Slot) /\ Len(list) \in Nat
      /\ \A i \in 1..Len(list) : list[i] \in Slot
  BY ListFacts
<1>2. n + 1 \in 1..Len(list)
  BY <1>1
<1>3. /\ rest \in Seq(Slot) /\ Len(rest) = Len(list) - 1
      /\ \A i \in 1..Len(list) - 1 : rest[i] = IF i < n + 1 THEN list[i] ELSE list[i + 1]
  BY <1>1, <1>2, RemoveFacts
<1>. HIDE DEF rest
<1>4. \A i \in 1..Len(rest) : /\ Old(i) \in 1..Len(list) /\ Old(i) # n + 1
                               /\ rest[i] = list[Old(i)]
  BY <1>1, <1>3
<1>5. \A i, j \in 1..Len(rest) : i < j => Old(i) < Old(j)
  BY <1>1, <1>3
<1>6. Products(rest, m)
  <2>. SUFFICES ASSUME NEW i \in 1..Len(rest), NEW j \in 1..Len(rest), i < j
                PROVE  m[rest[i]][rest[j]] = Product
    BY DEF Products
  <2>1. /\ Old(i) \in 1..Len(list) /\ Old(j) \in 1..Len(list)
        /\ Old(i) < Old(j) /\ Old(i) # n + 1
        /\ rest[i] = list[Old(i)] /\ rest[j] = list[Old(j)]
    BY <1>4, <1>5
  <2>. HIDE DEF Old
  <2>2. h[list[Old(i)]][list[Old(j)]] = Product
    BY <2>1 DEF Products
  <2>3. m[list[Old(i)]][list[Old(j)]] = h[list[Old(i)]][list[Old(j)]]
    BY <1>1, <2>1
  <2>. QED BY <2>1, <2>2, <2>3
<1>7. Rows(rest, m, n)
  <2>. SUFFICES ASSUME NEW j \in 1..n, NEW i \in 1..j
                PROVE  m[rest[j]][rest[i]] = SubSeq(rest, 1, i)
    BY DEF Rows
  <2>1. /\ i \in 1..Len(list) /\ j \in 1..Len(list) /\ j # n + 1 /\ i <= Len(rest)
        /\ rest[i] = list[i] /\ rest[j] = list[j]
    BY <1>1, <1>3
  <2>2. h[list[j]][list[i]] = SubSeq(list, 1, i)
    BY DEF Rows
  <2>3. \A x \in 1..i : rest[x] = list[x]
    BY <1>1, <1>3
  <2>4. SubSeq(rest, 1, i) = SubSeq(list, 1, i)
    BY <1>1, <1>3, <2>1, <2>3, SamePrefix
  <2>5. m[list[j]][list[i]] = h[list[j]][list[i]]
    BY <1>1, <2>1
  <2>. QED BY <2>1, <2>2, <2>4, <2>5
<1>. QED BY <1>6, <1>7 DEF rest

LEMMA FactorsAfterDependent ==
    ASSUME Inv, at # "new", Factors, DropDependent
    PROVE  Factors'
<1>1. /\ call = "factor" /\ call' = "factor" /\ ~Waiting /\ ~Waiting'
      /\ list' = RemoveAt(list, nvec + 1) /\ nvec' = nvec
  BY DEF DropDependent, Waiting
<1>2. /\ nvec \in Nat /\ nvec + 1 <= Len(list) /\ k = list[nvec + 1] /\ Len(list) \in Nat
  BY <1>1, TurnAt, ListFacts DEF Inv, DropDependent
<1>3. h' = RowOf(list[nvec + 1], nvec)
  BY <1>2 DEF DropDependent
<1>4. /\ DOMAIN h' = Slot
      /\ \A j \in 1..Len(list) : j # nvec + 1 =>
           \A c \in Slot : h'[list[j]][c] = h[list[j]][c]
  <2>1. nvec <= nvec + 1 /\ DOMAIN h = Slot /\ Typed /\ Pool
    BY <1>2 DEF Inv, Factors
  <2>. QED BY <1>2, <1>3, <2>1, RowFacts
<1>5. Products(list, h) /\ Rows(list, h, nvec)
  BY <1>1 DEF Factors, Kept
<1>6. Products(RemoveAt(list, nvec + 1), h') /\ Rows(RemoveAt(list, nvec + 1), h', nvec)
  BY <1>2, <1>4, <1>5, RemovedVector DEF Inv
<1>. QED BY <1>1, <1>4, <1>6 DEF Factors, Kept

LEMMA FactorsAfterLast ==
    ASSUME Inv, at # "new", Factors, DropLast
    PROVE  Factors'
<1>1. /\ call = "factor" /\ call' = "save" /\ ~Waiting /\ ~Waiting'
      /\ list' = RemoveAt(list, nvec + 1) /\ h' = h
      /\ k # EOL /\ nvec + 1 > MVec
  BY DEF DropLast, Waiting
<1>2. nvec \in Nat /\ nvec + 1 = Len(list) /\ list \in Seq(Slot) /\ Len(list) \in Nat
  BY <1>1, LastIsDropped, ListFacts DEF Inv, Typed
<1>3. Products(list, h) /\ Rows(list, h, nvec) /\ DOMAIN h = Slot
  BY <1>1 DEF Factors, Kept
<1>4. Products(RemoveAt(list, nvec + 1), h) /\ Rows(RemoveAt(list, nvec + 1), h, nvec)
  <2>1. nvec + 1 <= Len(list)
    BY <1>2
  <2>. QED BY <1>2, <1>3, <2>1, RemovedVector DEF Inv
<1>5. Len(RemoveAt(list, nvec + 1)) = nvec
  <2>1. nvec + 1 \in 1..Len(list)
    BY <1>2
  <2>2. Len(RemoveAt(list, nvec + 1)) = Len(list) - 1
    BY <1>2, <2>1, RemoveFacts
  <2>. QED BY <1>2, <2>2
<1>. QED BY <1>1, <1>3, <1>4, <1>5 DEF Factors, Kept

LEMMA FactorsAfterAll ==
    ASSUME Inv, at # "new", Factors, AllFactored
    PROVE  Factors'
<1>1. /\ call = "factor" /\ k = EOL /\ call' = "save" /\ ~Waiting /\ ~Waiting'
      /\ list' = list /\ h' = h
  BY DEF AllFactored, Waiting, lists, data
<1>2. nvec = Len(list)
  <2>1. nvec \in 1..Len(list) /\ EOL = After(list, nvec) /\ EOL \notin Slot
    BY <1>1, ListFacts, MVecAssumption DEF Inv, Pool, Turn, Slot, EOL
  <2>2. \A i \in 1..Len(list) : list[i] \in Slot
    BY <1>1, ListFacts DEF Inv
  <2>3. Len(list) \in Nat
    BY ListFacts, <1>1 DEF Inv
  <2>. QED BY <2>1, <2>2, <2>3 DEF After
<1>. QED BY <1>1, <1>2 DEF Factors, Kept

LEMMA FactorsAfterSave ==
    ASSUME Inv, at # "new", Factors, NEW f, NEW d, Save(f, d)
    PROVE  Factors'
<1>1. /\ call = "save" /\ call' = "idle" /\ ~Waiting /\ Waiting'
      /\ list' = Cons(free, list) /\ subspace' = subspace
  BY DEF Save, Waiting
<1>2. /\ list \in Seq(Slot) /\ Len(list) \in Nat /\ free \in Slot /\ free # EOL
      /\ \A i \in 1..Len(list) : list[i] # free /\ list[i] \in Slot
  BY <1>1, ListHeads, ListFacts, FreeIsElsewhere, MVecAssumption DEF Inv, Slot, EOL
<1>3. Kept = list /\ Kept' = list
  BY <1>1, <1>2, TailOfCons DEF Kept
<1>4. \A r, c \in Slot : r # free /\ c # free /\ free \notin Range(h[r][c]) =>
        h'[r][c] = h[r][c]
  BY DEF Save
<1>5. Products(list, h')
  <2>. SUFFICES ASSUME NEW i \in 1..Len(list), NEW j \in 1..Len(list), i < j
                PROVE  h'[list[i]][list[j]] = Product
    BY DEF Products
  <2>1. h[list[i]][list[j]] = Product
    BY <1>3 DEF Factors, Products
  <2>2. free \notin Range(Product)
    BY <1>2 DEF Product, Range
  <2>. QED BY <1>2, <1>4, <2>1, <2>2
<1>6. subspace => Rows(list, h', Len(list))
  <2>. SUFFICES ASSUME subspace, NEW j \in 1..Len(list), NEW i \in 1..j
                PROVE  h'[list[j]][list[i]] = SubSeq(list, 1, i)
    BY DEF Rows
  <2>1. i \in 1..Len(list)
    BY <1>2
  <2>2. h[list[j]][list[i]] = SubSeq(list, 1, i)
    BY <1>1, <1>3 DEF Factors, Rows
  <2>3. free \notin Range(SubSeq(list, 1, i))
    <3>. DEFINE a == SubSeq(list, 1, i)
    <3>1. a \in Seq(Slot) /\ Len(a) = i /\ \A x \in 1..i : a[x] = list[x]
      BY <1>2, <2>1, PrefixFacts
    <3>. HIDE DEF a
    <3>2. \A x \in DOMAIN a : a[x] # free
      <4>1. DOMAIN a = 1..i
        BY <3>1, LenProperties
      <4>2. \A x \in 1..i : x \in 1..Len(list)
        BY <1>2, <2>1
      <4>. QED BY <1>2, <3>1, <4>1, <4>2
    <3>3. free \notin Range(a)
      BY <3>2 DEF Range
    <3>. QED BY <3>3 DEF a
  <2>. QED BY <1>2, <1>4, <2>1, <2>2, <2>3
<1>7. DOMAIN h' = Slot
  BY DEF Save
<1>. QED BY <1>1, <1>3, <1>5, <1>6, <1>7 DEF Factors

LEMMA SameFactors ==
    ASSUME Factors, UNCHANGED <<list, h, subspace, nvec>>,
           \/ UNCHANGED <<call, pending>>
           \/ NothingPending
    PROVE  Factors'
<1>1. \/ call' = call /\ Waiting' = Waiting
      \/ call = "idle" /\ call' = "save" /\ ~Waiting /\ ~Waiting'
  BY DEF NothingPending, Waiting
<1>2. Kept' = Kept
  BY <1>1 DEF Kept
<1>. QED BY <1>1, <1>2 DEF Factors

LEMMA FactorsKept == Inv /\ Origins /\ Factors /\ [Next]_vars => Factors'
<1>. SUFFICES ASSUME Inv, Origins, Factors, [Next]_vars PROVE Factors'
  OBVIOUS
<1>1. CASE Solve \/ Modified \/ Grown
  <2>1. /\ EmptyLists /\ subspace' = FALSE /\ pending' = FALSE /\ call' # "factor"
    BY <1>1 DEF Solve, Modified, Grown, Restart, RestartedCorrection
  <2>. QED BY <2>1, FactorsAfterRestart
<1>2. CASE BeginCorrection
  <2>1. at # "new" /\ (NothingPending \/ Toss \/ Accept(itr, du))
    BY <1>2 DEF BeginCorrection
  <2>2. CASE NothingPending
    BY <2>2, SameFactors DEF NothingPending, lists, data
  <2>. QED BY <2>1, <2>2, FactorsAfterToss, FactorsAfterAccept
<1>3. CASE FactorTurn
  <2>1. /\ Factored \/ DropDependent \/ DropLast \/ AllFactored
        /\ at # "new"
    BY <1>3 DEF FactorTurn, Inv, Factored, DropDependent, DropLast, AllFactored
  <2>. QED BY <2>1, FactorsAfterFactored, FactorsAfterDependent, FactorsAfterLast,
              FactorsAfterAll
<1>4. CASE EndCorrection \/ EndRecovery
  <2>1. at # "new" /\ Save(itr, Returned)
    BY <1>4 DEF EndCorrection, EndRecovery
  <2>. QED BY <2>1, FactorsAfterSave
<1>5. CASE UNCHANGED accelerator
  BY <1>5, SameFactors DEF accelerator, lists, data
<1>6. CASE \/ TooManyIterations \/ ResidualFails \/ ResidualConverged \/ FirstCorrection
           \/ NotModified \/ FirstOverflows \/ NotGrown \/ GrownAgain \/ Recovered
           \/ Diverging \/ NotDiverging \/ Update
  <2>1. UNCHANGED accelerator
    BY <1>6 DEF TooManyIterations, ResidualFails, ResidualConverged, FirstCorrection,
         NotModified, FirstOverflows, NotGrown, GrownAgain, Recovered, Diverging,
         NotDiverging, Update
  <2>. QED BY <1>5, <2>1
<1>7. CASE UNCHANGED vars
  BY <1>5, <1>7 DEF vars
<1>. QED BY <1>1, <1>2, <1>3, <1>4, <1>6, <1>7 DEF Next, Step

(* The products and factors read by the factorisation and the two          *)
(* substitutions (NKA_Base.hh:263-415) are those of the vectors in the     *)
(* list and of their order, whatever was dropped or saved in between.      *)
THEOREM ReadsAreOfTheList == Spec => []ReadsFit
<1>1. Inv /\ Factors => ReadsFit
  <2>. SUFFICES ASSUME Inv, Factors PROVE ReadsFit
    OBVIOUS
  <2>1. ASSUME call = "factor", k # EOL, nvec + 1 <= MVec
        PROVE  /\ \A i \in 1..nvec : h[list[i]][k] = Product
               /\ \A j \in 1..nvec : \A i \in 1..j : h[list[j]][list[i]] = Factor(i)
    <3>1. /\ nvec \in Nat /\ nvec + 1 \in 2..Len(list) /\ k = list[nvec + 1]
          /\ Len(list) \in Nat
      BY <2>1, TurnAt, ListFacts DEF Inv
    <3>2. Products(list, h) /\ Rows(list, h, nvec)
      BY <2>1 DEF Factors, Kept, Waiting
    <3>3. ASSUME NEW i \in 1..nvec PROVE h[list[i]][k] = Product
      <4>1. i \in 1..Len(list) /\ nvec + 1 \in 1..Len(list) /\ i < nvec + 1
        BY <3>1
      <4>. QED BY <3>1, <3>2, <4>1 DEF Products
    <3>. QED BY <3>2, <3>3 DEF Rows, Factor
  <2>2. ASSUME call = "save", subspace
        PROVE  \A j \in 1..Len(list) : \A i \in 1..j : h[list[j]][list[i]] = Factor(i)
    BY <2>2 DEF Factors, Kept, Waiting, Rows, Factor
  <2>. QED BY <2>1, <2>2 DEF ReadsFit
<1>. QED BY <1>1, InitHolds, OriginsAtFirst, FactorsAtFirst, StepKeeps, OriginsKept, FactorsKept, PTL
         DEF Spec

-----------------------------------------------------------------------------
(* Why a Solve ends.  Liveness itself is left to TLC; what it rests on is  *)
(* stated of the steps.                                                    *)

(* The accelerator is in the middle of a call exactly while the solver     *)
(* waits for its correction.                                               *)
Matched ==
    /\ call # "idle" <=> at \in {"correcting", "recovering"}
    /\ at = "recovering" => call = "save"

LEMMA MatchedAtFirst == Init => Matched
  BY DEF Init, InitAccelerator, Matched

LEMMA MatchedKept == Matched /\ [Next]_vars => Matched'
<1>. SUFFICES ASSUME Matched, [Next]_vars PROVE Matched'
  OBVIOUS
<1>1. CASE Solve \/ Modified \/ Grown
  BY <1>1 DEF Solve, Modified, Grown, Restart, RestartedCorrection, Matched
<1>2. CASE BeginCorrection
  BY <1>2 DEF BeginCorrection, NothingPending, Toss, Accept, Matched
<1>3. CASE FactorTurn
  <2>1. call = "factor" /\ call' \in {"factor", "save"} /\ at' = at
    BY <1>3 DEF FactorTurn, Factored, DropDependent, DropLast, AllFactored, control
  <2>. QED BY <2>1 DEF Matched
<1>4. CASE EndCorrection \/ EndRecovery
  BY <1>4 DEF EndCorrection, EndRecovery, Save, Matched
<1>5. CASE \/ TooManyIterations \/ ResidualFails \/ ResidualConverged \/ FirstCorrection
           \/ NotModified \/ FirstOverflows \/ NotGrown \/ GrownAgain \/ Recovered
           \/ Diverging \/ NotDiverging \/ Update
  <2>1. /\ call' = call
        /\ {at, at'} \cap {"correcting", "recovering"} = {}
    BY <1>5 DEF TooManyIterations, ResidualFails, ResidualConverged, FirstCorrection,
         NotModified, FirstOverflows, NotGrown, GrownAgain, Recovered, Diverging,
         NotDiverging, Update, Return, accelerator
  <2>. QED BY <2>1 DEF Matched
<1>6. CASE UNCHANGED vars
  BY <1>6 DEF vars, accelerator, control, Matched
<1>. QED BY <1>1, <1>2, <1>3, <1>4, <1>5, <1>6 DEF Next, Step

(* Every Correction that is begun is ended before NKA_ goes on, and one is *)
(* never begun inside of another (SolverNKA.hh:345-407).                   *)
THEOREM CallsAreMatched == Spec => []Matched
<1>. QED BY MatchedAtFirst, MatchedKept, PTL DEF Spec

(* How much of an iteration, and of a factorisation in it, is to come.     *)
Place == CASE at = "iterate" -> 8 [] at = "correcting" -> 7 [] at = "modify" -> 6
           [] at = "growth" -> 5 [] at = "recovering" -> 4 [] at = "regrowth" -> 3
           [] at = "compare" -> 2 [] at = "update" -> 1 [] OTHER -> 0
Turns == IF call = "factor" THEN Len(list) - nvec + 1 ELSE 0

(* A step begins a new iteration, or gets further in this one, or is a     *)
(* turn of the factorisation, which factors a vector or drops one.         *)
UsesUp ==
    \/ itr' > itr
    \/ itr' = itr /\ (Place' < Place \/ (Place' = Place /\ Turns' < Turns))

UsesUpBounds == itr \in 0..MaxItrs /\ Place \in 0..8 /\ Turns \in Nat

LEMMA TurnsAreNumbers == Inv => Turns \in Nat /\ (call = "factor" => Turns > 0)
<1>. SUFFICES ASSUME Inv, call = "factor" PROVE Turns \in Nat /\ Turns > 0
  BY DEF Turns
<1>1. at # "new" /\ Len(list) \in Nat /\ nvec \in Nat /\ nvec <= Len(list)
  BY Bounds DEF Inv, Pool, Turn, Typed
<1>. QED BY <1>1 DEF Turns

LEMMA TurnUsesUp == Inv /\ FactorTurn => UsesUp
<1>. SUFFICES ASSUME Inv, FactorTurn PROVE UsesUp
  OBVIOUS
<1>1. itr' = itr /\ at' = at /\ call = "factor" /\ at # "new" /\ itr' = itr
  BY DEF FactorTurn, control, Factored, DropDependent, DropLast, AllFactored, Inv
<1>2. Place' = Place
  BY <1>1 DEF Place
<1>3. Typed /\ Pool /\ Turns \in Nat /\ Turns > 0 /\ Turns = Len(list) - nvec + 1
      /\ Len(list) \in Nat /\ nvec \in Nat
  BY <1>1, TurnsAreNumbers, Bounds DEF Inv, Turns, Pool, Typed
<1>4. CASE Factored
  <2>1. Turns' = Len(list) - (nvec + 1) + 1
    BY <1>1, <1>4 DEF Factored, Turns, lists
  <2>. QED BY <1>1, <1>2, <1>3, <2>1 DEF UsesUp
<1>5. CASE DropDependent
  <2>1. nvec + 1 \in 2..Len(list) /\ list \in Seq(Slot)
    BY <1>1, <1>3, <1>5, TurnAt DEF DropDependent, Typed
  <2>2. nvec + 1 \in 1..Len(list)
    BY <1>3, <2>1
  <2>3. Len(RemoveAt(list, nvec + 1)) = Len(list) - 1
    BY <2>1, <2>2, RemoveFacts
  <2>4. Turns' = Len(list) - 1 - nvec + 1
    BY <1>1, <1>5, <2>3 DEF DropDependent, Turns
  <2>. QED BY <1>1, <1>2, <1>3, <2>4 DEF UsesUp
<1>6. CASE DropLast \/ AllFactored
  <2>1. Turns' = 0
    BY <1>6 DEF DropLast, AllFactored, Turns
  <2>. QED BY <1>1, <1>2, <1>3, <2>1 DEF UsesUp
<1>. QED BY <1>4, <1>5, <1>6 DEF FactorTurn

LEMMA StepUsesUp == Inv /\ Origins /\ Step => UsesUp
<1>. SUFFICES ASSUME Inv, Origins, Step PROVE UsesUp
  OBVIOUS
<1>1. CASE FactorTurn
  BY <1>1, TurnUsesUp
<1>2. CASE Update
  <2>1. itr \in Nat /\ itr' = itr + 1
    BY <1>2, SolverAssumption DEF Update, Origins
  <2>. QED BY <2>1 DEF UsesUp
<1>3. CASE TooManyIterations \/ ResidualFails \/ ResidualConverged \/ FirstCorrection
  BY <1>3 DEF TooManyIterations, ResidualFails, ResidualConverged, FirstCorrection, Return,
       UsesUp, Place
<1>4. CASE BeginCorrection \/ EndCorrection \/ EndRecovery
  BY <1>4 DEF BeginCorrection, EndCorrection, EndRecovery, UsesUp, Place
<1>5. CASE NotModified \/ Modified \/ FirstOverflows \/ Grown \/ NotGrown
  BY <1>5 DEF NotModified, Modified, FirstOverflows, Grown, NotGrown, Return, UsesUp, Place
<1>6. CASE GrownAgain \/ Recovered \/ Diverging \/ NotDiverging
  <2>1. itr' = itr /\ Place \in {2, 3} /\ at' \in {"returned", "compare", "update"}
        /\ (Place = 2 => at' \in {"returned", "update"})
    BY <1>6 DEF GrownAgain, Recovered, Diverging, NotDiverging, Return, Place
  <2>. QED BY <2>1 DEF UsesUp, Place
<1>. QED BY <1>1, <1>2, <1>3, <1>4, <1>5, <1>6 DEF Step

(* From its call to its return every step of a Solve uses something up,    *)
(* and what is used up is bounded, by max_itrs_ and by the length of the   *)
(* list: no pattern of drops, regrowths and modifications goes on for ever.*)
THEOREM EveryStepUsesUp ==
    Spec => []UsesUpBounds /\ [][at \notin {"new", "returned"} => UsesUp]_vars
<1>1. Inv /\ Origins => UsesUpBounds
  <2>. SUFFICES ASSUME Inv, Origins PROVE UsesUpBounds
    OBVIOUS
  <2>1. Place \in 0..8
    BY DEF Place
  <2>. QED BY <2>1, TurnsAreNumbers DEF UsesUpBounds, Origins
<1>2. Inv /\ Origins /\ [Next]_vars => [at \notin {"new", "returned"} => UsesUp]_vars
  BY StepUsesUp DEF Next, Solve
<1>. QED BY <1>1, <1>2, InitHolds, OriginsAtFirst, StepKeeps, OriginsKept, PTL DEF Spec
-----------------------------------------------------------------------------
(* The types of what is not in Inv and Origins: a vector of the first kind *)
(* belongs to at most two iterates, an entry of h_ to slots, the counters  *)
(* keep their limits.                                                      *)
Entries == [Slot -> [Slot -> Seq(Link)]]
Places == {"new", "iterate", "correcting", "returned"} \cup Late
Rest ==
    /\ subspace \in BOOLEAN /\ nvec \in 0..MVec + 1 /\ h \in Entries
    /\ \A s \in Slot : Len(w[s]) <= 2
    /\ at \in Places /\ diverged \in 0..MaxDivergence
    /\ at # "returned" => diverged < MaxDivergence
    /\ monitor \in Monitors /\ result \in {"none", "converged", "failed"}

LEMMA StaleEntries == AllStale \in Entries
<1>1. Stale \in Seq(Link)
  BY EmptySeq DEF Stale
<1>. QED BY <1>1 DEF AllStale, Entries

LEMMA EntryKinds ==
    ASSUME Typed, Pool
    PROVE  /\ Product \in Seq(Link)
           /\ \A s \in Slot : <<s>> \in Seq(Link)
           /\ \A n \in 1..Len(list) : Factor(n) \in Seq(Link)
<1>1. Product \in Seq(Link) /\ \A s \in Slot : <<s>> \in Seq(Link)
  BY DEF Product, Link, EOL
<1>2. ASSUME NEW n \in 1..Len(list) PROVE Factor(n) \in Seq(Link)
  <2>1. SubSeq(list, 1, n) \in Seq(Slot)
    BY PrefixFacts DEF Typed
  <2>2. Seq(Slot) \subseteq Seq(Link)
    BY DEF Link
  <2>. QED BY <2>1, <2>2 DEF Factor
<1>. QED BY <1>1, <1>2

LEMMA RowEntries ==
    ASSUME Typed, Pool, h \in Entries, NEW s \in Slot, NEW n \in Nat, n <= Len(list)
    PROVE  RowOf(s, n) \in Entries
<1>1. \A i \in 1..n : Factor(i) \in Seq(Link)
  BY EntryKinds, Bounds DEF Pool
<1>2. ASSUME NEW c \in Slot
      PROVE  (IF \E i \in 1..n : list[i] = c
                THEN Factor(CHOOSE i \in 1..n : list[i] = c) ELSE h[s][c]) \in Seq(Link)
  <2>1. CASE \E i \in 1..n : list[i] = c
    <3>1. (CHOOSE i \in 1..n : list[i] = c) \in 1..n
      BY <2>1
    <3>. QED BY <1>1, <2>1, <3>1
  <2>2. CASE ~\E i \in 1..n : list[i] = c
    BY <2>2 DEF Entries
  <2>. QED BY <2>1, <2>2
<1>. QED BY <1>2 DEF RowOf, Entries

LEMMA RestAtFirst == Init => Rest
<1>. SUFFICES ASSUME Init PROVE Rest
  OBVIOUS
<1>1. MVec \in Nat /\ MaxDivergence \in Nat \ {0}
  BY MVecAssumption, SolverAssumption
<1>2. h \in Entries
  BY StaleEntries DEF Init, InitAccelerator
<1>3. \A s \in Slot : Len(w[s]) <= 2
  BY EmptySeq DEF Init, InitAccelerator
<1>4. 0 \in 0..MVec + 1 /\ 0 \in 0..MaxDivergence /\ 0 < MaxDivergence
  BY <1>1
<1>5. at \in Places /\ subspace \in BOOLEAN /\ result \in {"none", "converged", "failed"}
  BY DEF Init, InitAccelerator, Places
<1>. QED BY <1>2, <1>3, <1>4, <1>5 DEF Init, InitAccelerator, Rest

LEMMA RestAfterRestart ==
    ASSUME Rest, EmptyLists, subspace' = FALSE, nvec' = nvec,
           at' \in Places, diverged' \in 0..MaxDivergence,
           at' # "returned" => diverged' < MaxDivergence,
           monitor' = monitor, result' \in {"none", "converged", "failed"}
    PROVE  Rest'
<1>1. \A s \in Slot : Len(w'[s]) <= 2
  BY EmptySeq DEF EmptyLists
<1>2. h' \in Entries
  BY StaleEntries DEF EmptyLists
<1>. QED BY <1>1, <1>2 DEF Rest

(* The calls of the accelerator change nothing of the solver's.            *)
LEMMA RestAfterCall ==
    ASSUME Rest, UNCHANGED <<diverged, monitor, result>>,
           at # "returned", at' \in Places, at' # "returned",
           subspace' \in BOOLEAN, nvec' \in 0..MVec + 1, h' \in Entries,
           \A s \in Slot : Len(w'[s]) <= 2
    PROVE  Rest'
  BY DEF Rest

LEMMA RestAfterBegin ==
    ASSUME Inv, Origins, Pairing, Rest, BeginCorrection
    PROVE  Rest'
<1>0. MVec \in Nat /\ MVec >= 1
  BY MVecAssumption
<1>1. /\ UNCHANGED <<diverged, monitor, result>>
      /\ at = "iterate" /\ at' = "correcting"
      /\ at' \in Places /\ at' # "returned"
  BY DEF BeginCorrection, Places
<1>2. Typed /\ Pool /\ w \in [Slot -> Seq(0..MaxItrs)] /\ itr \in 0..MaxItrs
  BY <1>1 DEF Inv, Origins
<1>3. CASE NothingPending
  BY <1>1, <1>3, RestAfterCall DEF NothingPending, data, Rest
<1>4. CASE Toss
  <2>1. w' = [w EXCEPT ![first] = <<>>] /\ h' = h /\ subspace' = subspace /\ nvec' = nvec
    BY <1>4 DEF Toss
  <2>2. \A s \in Slot : Len(w'[s]) <= 2
    BY <1>2, <2>1, EmptySeq DEF Rest
  <2>. QED BY <1>1, <2>1, <2>2, RestAfterCall DEF Rest
<1>5. CASE Accept(itr, du)
  <2>1. /\ w' = [w EXCEPT ![first] = Append(@, itr)]
        /\ subspace' = subspace /\ nvec' = 1 /\ Waiting
    BY <1>5 DEF Accept, Waiting
  <2>2. first \in Slot /\ Len(w[first]) = 1
    BY <1>2, <2>1, ListHeads DEF Pairing, Waiting
  <2>3. Len(Append(w[first], itr)) = 2
    <3>1. w[first] \in Seq(0..MaxItrs)
      BY <1>2, <2>2
    <3>2. Len(Append(w[first], itr)) = Len(w[first]) + 1
      BY <1>2, <3>1, AppendProperties
    <3>. QED BY <2>2, <3>2
  <2>4. \A s \in Slot : Len(w'[s]) <= 2
    BY <1>2, <2>1, <2>2, <2>3 DEF Rest
  <2>5. ASSUME NEW c \in Slot
        PROVE  (IF c = first THEN <<first>>
                ELSE IF \E i \in 2..Len(list) : list[i] = c THEN Product
                ELSE h[first][c]) \in Seq(Link)
    BY <1>2, <2>2, EntryKinds DEF Rest, Entries
  <2>6. h' \in Entries
    BY <1>5, <2>2, <2>5 DEF Accept, Rest, Entries
  <2>7. nvec' \in 0..MVec + 1
    BY <1>0, <2>1
  <2>. QED BY <1>1, <2>1, <2>4, <2>6, <2>7, RestAfterCall DEF Rest
<1>. QED BY <1>3, <1>4, <1>5 DEF BeginCorrection

LEMMA RestAfterTurn ==
    ASSUME Inv, Matched, Origins, Rest, FactorTurn
    PROVE  Rest'
<1>0. MVec \in Nat /\ MVec >= 1
  BY MVecAssumption
<1>1. /\ UNCHANGED <<at, diverged, monitor, result>> /\ call = "factor"
      /\ at \in {"correcting", "recovering"}
  BY DEF FactorTurn, control, Factored, DropDependent, DropLast, AllFactored, Matched
<1>2. /\ Typed /\ Pool /\ w \in [Slot -> Seq(0..MaxItrs)]
      /\ nvec \in 1..MVec /\ nvec <= Len(list) /\ Len(list) \in Nat
  BY <1>1, Bounds DEF Inv, Origins, Pool, Turn
<1>3. /\ at \in Places /\ at # "returned" /\ at' = at
      /\ \A n \in {nvec, nvec + 1} : n \in 0..MVec + 1 /\ n \in Nat
  BY <1>0, <1>1, <1>2 DEF Rest
<1>4. \A s \in Slot : Len([w EXCEPT ![k] = <<>>][s]) <= 2
  BY <1>2, EmptySeq DEF Rest
<1>5. k # EOL => k \in Slot /\ nvec + 1 <= Len(list)
  BY <1>1, <1>2, TurnAt
<1>6. CASE Factored
  <2>1. h' = RowOf(k, nvec + 1) /\ k # EOL /\ w' = w /\ subspace' = subspace /\ nvec' = nvec + 1
    BY <1>6 DEF Factored
  <2>2. h' \in Entries
    BY <1>2, <1>3, <1>5, <2>1, RowEntries DEF Rest
  <2>. QED BY <1>1, <1>3, <2>1, <2>2, RestAfterCall DEF Rest
<1>7. CASE DropDependent
  <2>1. /\ h' = RowOf(k, nvec) /\ k # EOL /\ w' = [w EXCEPT ![k] = <<>>]
        /\ subspace' = subspace /\ nvec' = nvec
    BY <1>7 DEF DropDependent
  <2>2. h' \in Entries
    BY <1>2, <1>3, <1>5, <2>1, RowEntries DEF Rest
  <2>. QED BY <1>1, <1>3, <1>4, <2>1, <2>2, RestAfterCall DEF Rest
<1>8. CASE DropLast
  <2>1. h' = h /\ w' = [w EXCEPT ![k] = <<>>] /\ subspace' = TRUE /\ nvec' = nvec + 1
    BY <1>8 DEF DropLast
  <2>. QED BY <1>1, <1>3, <1>4, <2>1, RestAfterCall DEF Rest
<1>9. CASE AllFactored
  <2>1. h' = h /\ w' = w /\ subspace' = TRUE /\ nvec' = nvec
    BY <1>9 DEF AllFactored, data
  <2>. QED BY <1>1, <1>3, <2>1, RestAfterCall DEF Rest
<1>. QED BY <1>6, <1>7, <1>8, <1>9 DEF FactorTurn

LEMMA RestAfterSave ==
    ASSUME Inv, Matched, Origins, Rest, EndCorrection \/ EndRecovery
    PROVE  Rest'
<1>1. /\ UNCHANGED <<diverged, monitor, result>>
      /\ at \in {"correcting", "recovering"} /\ at' \in {"modify", "regrowth"}
      /\ Save(itr, Returned)
  BY DEF EndCorrection, EndRecovery
<1>2. at # "returned" /\ at' \in Places /\ at' # "returned"
  BY <1>1 DEF Places, Late
<1>3. /\ w' = [w EXCEPT ![free] = <<itr>>] /\ subspace' = subspace /\ nvec' = nvec
      /\ h' = [r \in Slot |-> [c \in Slot |->
                 IF free \in {r, c} \cup Range(h[r][c]) THEN Stale ELSE h[r][c]]]
  BY <1>1 DEF Save
<1>4. Len(<<itr>>) <= 2
  OBVIOUS
<1>5. \A s \in Slot : Len(w'[s]) <= 2
  BY <1>3, <1>4 DEF Origins, Rest
<1>6. Stale \in Seq(Link)
  BY EmptySeq DEF Stale
<1>7. h' \in Entries
  BY <1>3, <1>6 DEF Rest, Entries
<1>. QED BY <1>1, <1>2, <1>3, <1>5, <1>7, RestAfterCall DEF Rest

LEMMA RestKept ==
    Inv /\ Matched /\ Origins /\ Pairing /\ Rest /\ [Next]_vars => Rest'
<1>. SUFFICES ASSUME Inv, Matched, Origins, Pairing, Rest, [Next]_vars PROVE Rest'
  OBVIOUS
<1>0. MaxDivergence \in Nat \ {0}
  BY SolverAssumption
<1>1. CASE Solve
  <2>1. EmptyLists /\ subspace' = FALSE /\ nvec' = nvec
    BY <1>1 DEF Solve, Restart
  <2>2. at' = "iterate" /\ diverged' = 0 /\ monitor' = monitor /\ result' = "none"
    BY <1>1 DEF Solve
  <2>3. 0 \in 0..MaxDivergence /\ 0 < MaxDivergence /\ at' \in Places
    BY <1>0, <2>2 DEF Places
  <2>. QED BY <2>1, <2>2, <2>3, RestAfterRestart
<1>2. CASE Modified \/ Grown
  <2>1. EmptyLists /\ subspace' = FALSE /\ nvec' = nvec
    BY <1>2 DEF Modified, Grown, Restart, RestartedCorrection
  <2>2. /\ at # "returned" /\ at' \in Late /\ at' \in Places /\ at' # "returned"
        /\ UNCHANGED <<diverged, monitor, result>>
    BY <1>2 DEF Modified, Grown, Late, Places
  <2>. QED BY <2>1, <2>2, RestAfterRestart DEF Rest
<1>3. CASE BeginCorrection
  BY <1>3, RestAfterBegin
<1>4. CASE FactorTurn
  BY <1>4, RestAfterTurn
<1>5. CASE EndCorrection \/ EndRecovery
  BY <1>5, RestAfterSave
<1>6. CASE \/ TooManyIterations \/ ResidualFails \/ ResidualConverged \/ FirstCorrection
           \/ NotModified \/ FirstOverflows \/ NotGrown \/ GrownAgain \/ Recovered
           \/ Diverging \/ NotDiverging \/ Update
  <2>1. UNCHANGED <<subspace, nvec, h, w, monitor>>
    BY <1>6 DEF TooManyIterations, ResidualFails, ResidualConverged, FirstCorrection,
         NotModified, FirstOverflows, NotGrown, GrownAgain, Recovered, Diverging,
         NotDiverging, Update, accelerator, data
  <2>2. CASE Diverging
    <3>1. /\ at = "compare" /\ diverged' = diverged + 1
          /\ diverged \in Nat /\ diverged < MaxDivergence
      BY <1>0, <2>2 DEF Diverging, Rest
    <3>2. diverged' \in 0..MaxDivergence
      BY <1>0, <3>1
    <3>3. CASE diverged' = MaxDivergence
      BY <2>1, <2>2, <3>2, <3>3 DEF Diverging, Return, Rest, Places
    <3>4. CASE diverged' # MaxDivergence
      <4>1. diverged' < MaxDivergence /\ at' = "update" /\ result' = result
        BY <1>0, <2>2, <3>1, <3>4 DEF Diverging
      <4>. QED BY <2>1, <3>2, <4>1 DEF Rest, Places, Late
    <3>. QED BY <3>3, <3>4
  <2>3. CASE NotDiverging
    <3>1. at' = "update" /\ diverged' = 0 /\ result' = result
      BY <2>3 DEF NotDiverging
    <3>. QED BY <1>0, <2>1, <3>1 DEF Rest, Places, Late
  <2>4. CASE \/ TooManyIterations \/ ResidualFails \/ ResidualConverged \/ FirstCorrection
             \/ NotModified \/ FirstOverflows \/ NotGrown \/ GrownAgain \/ Recovered \/ Update
    <3>1. /\ at # "returned" /\ at' \in {"returned", "modify", "growth", "compare", "iterate"}
          /\ diverged' = diverged /\ result' \in {result, "converged", "failed"}
      BY <2>4 DEF TooManyIterations, ResidualFails, ResidualConverged, FirstCorrection,
           NotModified, FirstOverflows, NotGrown, GrownAgain, Recovered, Update, Return
    <3>. QED BY <2>1, <3>1 DEF Rest, Places, Late
  <2>. QED BY <1>6, <2>2, <2>3, <2>4
<1>7. CASE UNCHANGED vars
  BY <1>7 DEF vars, accelerator, data, control, Rest
<1>. QED BY <1>1, <1>2, <1>3, <1>4, <1>5, <1>6, <1>7 DEF Next, Step

(* Whatever the solver returns with, the correction is one that was made.  *)
LEMMA CorrectionKept == Origins' /\ du \in Steps /\ [Next]_vars => du' \in Steps
<1>. SUFFICES ASSUME Origins', du \in Steps, [Next]_vars PROVE du' \in Steps
  OBVIOUS
<1>1. CASE Solve
  BY <1>1 DEF Solve, Steps
<1>2. CASE FirstCorrection \/ EndCorrection \/ Modified \/ EndRecovery
  <2>1. at' \in Late
    BY <1>2 DEF FirstCorrection, EndCorrection, Modified, EndRecovery, Late
  <2>. QED BY <2>1 DEF Origins, Steps
<1>3. CASE \/ TooManyIterations \/ ResidualFails \/ ResidualConverged \/ BeginCorrection
           \/ FactorTurn \/ NotModified \/ FirstOverflows \/ Grown \/ NotGrown
           \/ GrownAgain \/ Recovered \/ Diverging \/ NotDiverging \/ Update
  BY <1>3 DEF TooManyIterations, ResidualFails, ResidualConverged, BeginCorrection,
       FactorTurn, NotModified, FirstOverflows, Grown, NotGrown, GrownAgain, Recovered,
       Diverging, NotDiverging, Update
<1>4. CASE UNCHANGED vars
  BY <1>4 DEF vars
<1>. QED BY <1>1, <1>2, <1>3, <1>4 DEF Next, Step

All == Inv /\ Origins /\ Pairing /\ Matched /\ Rest /\ du \in Steps

(* Every variable keeps its type: indices are slots or NKA_EOL, a vector   *)
(* belongs to one iterate or is the difference of two, the counters keep   *)
(* their limits and a correction is recorded for each iteration.           *)
THEOREM TypeCorrect == Spec => []TypeOK
<1>0. Init => du \in Steps
  BY DEF Init, Steps
<1>1. Inv /\ Origins /\ Pairing /\ Rest /\ du \in Steps => TypeOK
  <2>. SUFFICES ASSUME Inv, Origins, Pairing, Rest, du \in Steps PROVE TypeOK
    OBVIOUS
  <2>1. ASSUME NEW S, NEW s \in Seq(S) PROVE Range(s) \subseteq S
    <3>1. DOMAIN s = 1..Len(s) /\ \A i \in 1..Len(s) : s[i] \in S
      BY ElementOfSeq, LenProperties
    <3>. QED BY <3>1 DEF Range
  <2>2. \A s \in Slot : Len(w[s]) <= 2 /\ Range(w[s]) \subseteq 0..MaxItrs
    BY <2>1 DEF Origins, Rest
  <2>3. \A s \in Slot : v[s] \in Corrections \cup {NoCorrection}
    BY DEF Origins, Steps
  <2>4. \A r, c \in Slot : Range(h[r][c]) \subseteq Link
    BY <2>1 DEF Rest, Entries
  <2>5. du \in Corrections \cup {NoCorrection}
    BY DEF Steps
  <2>6. Range(applied) \subseteq Corrections /\ Len(applied) = itr
    BY <2>1 DEF Pairing
  <2>7. /\ {first, last, free, k} \subseteq Link
        /\ next \in [Slot -> Link] /\ prev \in [Slot -> Link]
        /\ pending \in BOOLEAN /\ call \in {"idle", "factor", "save"}
    BY DEF Inv, Typed
  <2>8. /\ at \in {"new", "iterate", "correcting", "modify", "growth", "recovering",
                   "regrowth", "compare", "update", "returned"}
        /\ itr \in 0..MaxItrs
    BY DEF Rest, Places, Late, Origins
  <2>9. /\ subspace \in BOOLEAN /\ nvec \in 0..MVec + 1 /\ diverged \in 0..MaxDivergence
        /\ monitor \in Monitors /\ result \in {"none", "converged", "failed"}
    BY DEF Rest
  <2>. QED BY <2>2, <2>3, <2>4, <2>5, <2>6, <2>7, <2>8, <2>9, Zenon DEF TypeOK
<1>2. Init => All
  BY <1>0, InitHolds, OriginsAtFirst, PairingAtFirst, MatchedAtFirst, RestAtFirst DEF All
<1>3. All /\ [Next]_vars => All'
  BY StepKeeps, OriginsKept, PairingKept, MatchedKept, RestKept, CorrectionKept DEF All
<1>4. All => TypeOK
  BY <1>1 DEF All
<1>. QED BY <1>2, <1>3, <1>4, PTL DEF Spec
=============================================================================
