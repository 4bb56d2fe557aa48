------------------------- MODULE EvaluatorDag_proof -------------------------
(***************************************************************************)
(* Proofs about EvaluatorDag, for every graph without cycles, every set of *)
(* clients and every clock, and about EvaluatorRecovery, for every order   *)
(* of failures and repairs.                                                *)
(*                                                                         *)
(* The facts about the graph come first; after them the definitions of     *)
(* nodes and calls are not expanded again.                                 *)
(***************************************************************************)
EXTENDS EvaluatorRecovery, WellFoundedInduction, TLAPS

-----------------------------------------------------------------------------
(* Facts about the evaluation graph                                        *)

\* Values, derivatives, clients and the idle mark are told apart.
LEMMA NodesApart ==
  /\ ValueNodes \subseteq Nodes
  /\ DerivNodes \subseteq Nodes
  /\ Nodes = ValueNodes \cup DerivNodes
  /\ \A n \in ValueNodes : ~IsDeriv(n) /\ n = Value(KeyOf(n)) /\ KeyOf(n) \in Keys
  /\ \A n \in DerivNodes : KeyOf(n) \in Secondary
  /\ \A k \in Keys : Value(k) \in ValueNodes /\ KeyOf(Value(k)) = k
  /\ Nodes \cap ClientReqs = {}
  /\ Idle \notin Nodes
  /\ Idle \notin ClientReqs
  /\ Requesters = Nodes \cup ClientReqs
  <1>1. \A n \in ValueNodes : n[2] = "value" /\ n = <<n[1], "value">> /\ n[1] \in Keys
    BY DEF ValueNodes, Value
  <1>2. \A n \in DerivNodes : n[2] \in Wrt /\ n[1] \in Secondary
    BY DEF DerivNodes
  <1>3. \A r \in ClientReqs : r[2] = "client"
    BY DEF ClientReqs
  <1>4. "value" \notin Wrt /\ "client" \notin Wrt /\ "idle" \notin Wrt
    BY KeysAssumption
  <1>5. Nodes \cap ClientReqs = {}
    BY <1>1, <1>2, <1>3, <1>4 DEF Nodes
  <1>6. Idle \notin Nodes
    BY <1>1, <1>2, <1>4 DEF Nodes, Idle
  <1>7. Idle \notin ClientReqs
    BY <1>3 DEF Idle
  <1>8. \A n \in ValueNodes : ~IsDeriv(n)
    BY <1>1, <1>2, <1>4 DEF IsDeriv
  <1>9. \A k \in Keys : Value(k) \in ValueNodes /\ KeyOf(Value(k)) = k
    BY DEF ValueNodes, Value, KeyOf
  <1> QED
    BY <1>1, <1>2, <1>5, <1>6, <1>7, <1>8, <1>9 DEF Nodes, Requesters, KeyOf, Value

\* The calls of an evaluator go down in rank, so the recursion ends and never
\* meets a frame of its own.
LEMMA CallsGoDown ==
  ASSUME NEW n \in Nodes
  PROVE  /\ Calls(n) \subseteq Nodes
         /\ NRank(n) \in Nat
         /\ \A m \in Calls(n) : NRank(m) \in Nat /\ NRank(m) < NRank(n)
         /\ IsPrimary(n) \/ IsIndependent(n) => Calls(n) = {}
         /\ \A m \in Calls(n) : IsDeriv(m) => IsDeriv(n) /\ m[2] = n[2]
  <1>0. \A k \in Keys : Rank[k] \in Nat
    BY DepsAssumption
  <1>a. Secondary \subseteq Keys
    BY DEF Keys
  <1>b. \A m \in Nodes : KeyOf(m) \in Keys
    BY NodesApart, <1>a
  <1>c. \A m \in Nodes : NRank(m) \in Nat
    BY <1>0, <1>b DEF NRank
  <1>1. CASE IsDeriv(n)
    <2>1. n \in DerivNodes /\ KeyOf(n) \in Secondary
      BY <1>1, NodesApart DEF IsDeriv
    <2>2. Value(KeyOf(n)) \in ValueNodes /\ ~IsDeriv(Value(KeyOf(n)))
          /\ NRank(Value(KeyOf(n))) < NRank(n)
      <3>1. Value(KeyOf(n)) \in ValueNodes /\ KeyOf(Value(KeyOf(n))) = KeyOf(n)
            /\ ~IsDeriv(Value(KeyOf(n)))
        BY <2>1, <1>a, NodesApart
      <3> QED BY <3>1, <1>1, <1>0, <2>1, <1>a DEF NRank
    <2>3. \A m \in DepDerivs(n) : m \in DerivNodes /\ NRank(m) < NRank(n) /\ m[2] = n[2]
      <3> SUFFICES ASSUME NEW m \in DepDerivs(n)
                   PROVE  m \in DerivNodes /\ NRank(m) < NRank(n) /\ m[2] = n[2]
        OBVIOUS
      <3>1. m \in DerivNodes /\ KeyOf(m) \in Deps[KeyOf(n)] /\ m[2] = n[2]
        BY DEF DepDerivs
      <3>2. Rank[KeyOf(m)] < Rank[KeyOf(n)]
        BY <3>1, <2>1, DepsAssumption
      <3>3. IsDeriv(m)
        BY <3>1 DEF IsDeriv
      <3>4. Rank[KeyOf(m)] \in Nat /\ Rank[KeyOf(n)] \in Nat
        BY <3>1, <2>1, <1>0, <1>b, NodesApart
      <3> QED BY <3>1, <3>2, <3>3, <3>4, <1>1 DEF NRank
    <2>4. ~IsPrimary(n) /\ ~IsIndependent(n)
      BY <1>1, NodesApart DEF IsPrimary, IsIndependent
    <2>5. Calls(n) = {Value(KeyOf(n))} \cup DepDerivs(n)
      BY <1>1 DEF Calls
    <2> QED BY <2>2, <2>3, <2>4, <2>5, <1>1, <1>c, NodesApart DEF IsDeriv
  <1>2. CASE IsSecondary(n)
    <2>1. n \in ValueNodes /\ KeyOf(n) \in Secondary /\ ~IsDeriv(n)
      BY <1>2, NodesApart DEF IsSecondary
    <2>2. Calls(n) = DepValues(n)
      BY <2>1, <1>2 DEF Calls
    <2>3. \A m \in DepValues(n) : m \in ValueNodes /\ NRank(m) < NRank(n)
      <3> SUFFICES ASSUME NEW d \in Deps[KeyOf(n)]
                   PROVE  Value(d) \in ValueNodes /\ NRank(Value(d)) < NRank(n)
        BY DEF DepValues
      <3>1. d \in Keys /\ Rank[d] < Rank[KeyOf(n)]
        BY <2>1, DepsAssumption
      <3>2. Value(d) \in ValueNodes /\ KeyOf(Value(d)) = d /\ ~IsDeriv(Value(d))
        BY <3>1, NodesApart
      <3>3. Rank[d] \in Nat /\ Rank[KeyOf(n)] \in Nat
        BY <3>1, <2>1, <1>0, <1>b
      <3> QED BY <3>1, <3>2, <3>3, <2>1 DEF NRank
    <2>4. ~IsPrimary(n) /\ ~IsIndependent(n)
      BY <2>1, KeysAssumption DEF IsPrimary, IsIndependent
    <2> QED BY <2>2, <2>3, <2>4, <1>c, NodesApart
  <1>3. CASE ~IsDeriv(n) /\ ~IsSecondary(n)
    BY <1>3, <1>c DEF Calls
  <1> QED BY <1>1, <1>2, <1>3

\* The data of a node depend on its calls and, for a derivative, on the calls
\* of its own value.
LEMMA UsesAreCalls ==
  ASSUME NEW n \in Nodes
  PROVE  /\ Calls(n) \subseteq Uses(n)
         /\ Uses(n) \subseteq Nodes
         /\ ~IsDeriv(n) => Uses(n) = Calls(n)
         /\ IsDeriv(n) => /\ Value(KeyOf(n)) \in Calls(n)
                          /\ IsSecondary(Value(KeyOf(n)))
                          /\ Uses(n) = Calls(n) \cup Calls(Value(KeyOf(n)))
  <1>1. CASE ~IsDeriv(n)
    BY <1>1, CallsGoDown DEF Uses
  <1>2. CASE IsDeriv(n)
    <2>1. KeyOf(n) \in Secondary /\ Secondary \subseteq Keys
      BY <1>2, NodesApart DEF IsDeriv, Keys
    <2>2. Value(KeyOf(n)) \in ValueNodes /\ KeyOf(Value(KeyOf(n))) = KeyOf(n)
      BY <2>1, NodesApart
    <2>3. IsSecondary(Value(KeyOf(n))) /\ ~IsDeriv(Value(KeyOf(n)))
      BY <2>1, <2>2, NodesApart DEF IsSecondary
    <2>4. Calls(Value(KeyOf(n))) = DepValues(n)
      BY <2>2, <2>3 DEF Calls, DepValues
    <2>5. Uses(n) = Calls(n) \cup DepValues(n)
      BY <1>2 DEF Uses
    <2>6. Value(KeyOf(n)) \in Calls(n)
      BY <1>2 DEF Calls
    <2>7. Calls(n) \subseteq Nodes /\ Calls(Value(KeyOf(n))) \subseteq Nodes
      BY <2>2, CallsGoDown, NodesApart
    <2> QED BY <1>2, <2>3, <2>4, <2>5, <2>6, <2>7
  <1> QED BY <1>1, <1>2

-----------------------------------------------------------------------------
(* Returning from Update                                                   *)

\* What the seven ways to return from Update and UpdateDerivative have in
\* common; evaluated tells whether the data of n are new.
Served(n, answer, evaluated) ==
  /\ n \in Nodes /\ top = n
  /\ todo[n] = {}
  /\ answer \in BOOLEAN /\ evaluated \in BOOLEAN
  /\ Return(n, answer, evaluated)
  /\ requests' \in [Nodes -> SUBSET Requesters]
  /\ evaluated => /\ answer
                  /\ n \notin done
                  /\ requests'[n] = {caller[n]}
  /\ ~evaluated => /\ answer <=> caller[n] \notin requests[n]
                   /\ requests'[n] = requests[n] \cup {caller[n]}
                   /\ Calls(n) # {} => ~changed[n]
                   /\ IsSecondary(n) => KeyOf(n) \in computed
  /\ \A m \in Nodes \ {n} :
       /\ requests'[m] \subseteq requests[m]
       /\ (IsDeriv(m) /\ IsDeriv(n) => m[2] = n[2]) => requests'[m] = requests[m]
  /\ computed' \subseteq Secondary \cup Independent
  /\ computed \subseteq computed'
  /\ IsIndependent(n) \/ IsSecondary(n) => KeyOf(n) \in computed'
  /\ stamp' \in [Independent -> Times]
  /\ \A i \in Independent : stamp'[i] = stamp[i] \/ stamp'[i] = time
  /\ IsIndependent(n) => ~(OutOfDate(KeyOf(n))')
  /\ time' = time

\* A return to a client names the client and the node.
LEMMA ReturnTypes ==
  ASSUME TypeOK, ret # NoRet
  PROVE  ret.client \in ClientReqs /\ ret.node \in Nodes /\ ret.answer \in BOOLEAN
  BY DEF TypeOK, Returns

\* The variables of Return, one by one.
LEMMA ReturnFacts ==
  ASSUME Calling, NEW n \in Nodes, n \in active, NEW answer \in BOOLEAN, NEW evaluated \in BOOLEAN,
         Return(n, answer, evaluated)
  PROVE  /\ caller[n] \in Nodes \cup ClientReqs
         /\ caller[n] # n
         /\ active' = active \ {n}
         /\ top' = IF caller[n] \in ClientReqs THEN Idle ELSE caller[n]
         /\ caller' = [caller EXCEPT ![n] = Idle]
         /\ changed' \in [Nodes -> BOOLEAN]
         /\ ~changed'[n]
         /\ \A x \in Nodes \ {n} :
              changed'[x] = (changed[x] \/ (x = caller[n] /\ answer))
         /\ todo' = todo
         /\ used' \in [Requesters -> SUBSET Nodes]
         /\ used'[n] = IF evaluated THEN Uses(n) ELSE used[n]
         /\ \A x \in Requesters \ {n} :
              /\ used'[x] \subseteq used[x] \cup {n}
              /\ used[x] \ {n} \subseteq used'[x]
              /\ ~evaluated => used[x] \subseteq used'[x]
              /\ x \in Nodes /\ evaluated => n \notin used'[x]
              /\ x \in Nodes => used'[x] \subseteq used[x]
         /\ caller[n] \in ClientReqs /\ answer => n \in used'[caller[n]]
         /\ done' = done \cup {n}
         /\ ret' = IF caller[n] \in ClientReqs
                   THEN [client |-> caller[n], node |-> n, answer |-> answer]
                   ELSE NoRet
  <1>1. caller[n] \in Nodes \cup ClientReqs /\ (caller[n] \in Nodes => n \in Calls(caller[n]))
    BY NodesApart DEF Calling, TypeOK, Stack
  <1>2. caller[n] # n
    <2>1. CASE caller[n] \in Nodes
      <3>1. NRank(n) < NRank(caller[n]) /\ NRank(n) \in Nat
        BY <1>1, <2>1, CallsGoDown
      <3> QED BY <3>1
    <2>2. CASE caller[n] \in ClientReqs
      BY <2>2, NodesApart
    <2> QED BY <1>1, <2>1, <2>2
  <1>3. changed \in [Nodes -> BOOLEAN] /\ used \in [Requesters -> SUBSET Nodes]
    BY DEF Calling, TypeOK
  <1>4. changed' = [x \in Nodes |->
                      IF x = n THEN FALSE
                      ELSE IF x = caller[n] THEN changed[x] \/ answer
                      ELSE changed[x]]
    BY DEF Return
  <1>5. /\ changed' \in [Nodes -> BOOLEAN]
        /\ ~changed'[n]
        /\ \A x \in Nodes \ {n} :
             changed'[x] = (changed[x] \/ (x = caller[n] /\ answer))
    BY <1>3, <1>4, Zenon
  <1> DEFINE used1 == IF evaluated
                      THEN [x \in Requesters |->
                              IF x = n THEN Uses(n) ELSE used[x] \ {n}]
                      ELSE used
  <1>6. used' = IF caller[n] \in ClientReqs /\ answer
                THEN [used1 EXCEPT ![caller[n]] = @ \cup {n}] ELSE used1
    BY DEF Return
  <1>7. used1 \in [Requesters -> SUBSET Nodes]
    BY <1>3, UsesAreCalls
  <1>8. n \in Requesters /\ Nodes \subseteq Requesters /\ ClientReqs \subseteq Requesters
    BY NodesApart
  <1>9. /\ used1[n] = IF evaluated THEN Uses(n) ELSE used[n]
        /\ \A x \in Requesters \ {n} : used1[x] = IF evaluated THEN used[x] \ {n} ELSE used[x]
    BY <1>8
  <1>10. /\ used' \in [Requesters -> SUBSET Nodes]
         /\ \A x \in Requesters : used'[x] = IF x = caller[n] /\ caller[n] \in ClientReqs /\ answer
                                             THEN used1[x] \cup {n} ELSE used1[x]
    BY <1>6, <1>7, <1>8
  <1> HIDE DEF used1
  <1>11. used'[n] = IF evaluated THEN Uses(n) ELSE used[n]
    BY <1>2, <1>8, <1>9, <1>10
  <1>12. \A x \in Requesters \ {n} :
              /\ used'[x] \subseteq used[x] \cup {n}
              /\ used[x] \ {n} \subseteq used'[x]
              /\ ~evaluated => used[x] \subseteq used'[x]
              /\ x \in Nodes /\ evaluated => n \notin used'[x]
              /\ x \in Nodes => used'[x] \subseteq used[x]
    <2> SUFFICES ASSUME NEW x \in Requesters \ {n}
                 PROVE  /\ used'[x] \subseteq used[x] \cup {n}
                        /\ used[x] \ {n} \subseteq used'[x]
                        /\ ~evaluated => used[x] \subseteq used'[x]
                        /\ x \in Nodes /\ evaluated => n \notin used'[x]
                        /\ x \in Nodes => used'[x] \subseteq used[x]
      OBVIOUS
    <2>1. used1[x] = IF evaluated THEN used[x] \ {n} ELSE used[x]
      BY <1>9
    <2>2. CASE x \in ClientReqs
      <3>1. x \notin Nodes
        BY <2>2, NodesApart
      <3>2. used'[x] = used1[x] \cup {n} \/ used'[x] = used1[x]
        BY <1>10
      <3> QED BY <2>1, <3>1, <3>2
    <2>3. CASE x \notin ClientReqs
      <3>1. used'[x] = used1[x]
        BY <1>10, <2>3
      <3> QED BY <2>1, <3>1
    <2> QED BY <2>2, <2>3
  <1>13. caller[n] \in ClientReqs /\ answer => n \in used'[caller[n]]
    BY <1>8, <1>10
  <1>14. /\ active' = active \ {n}
         /\ top' = IF caller[n] \in ClientReqs THEN Idle ELSE caller[n]
         /\ caller' = [caller EXCEPT ![n] = Idle]
         /\ todo' = todo
         /\ done' = done \cup {n}
         /\ ret' = IF caller[n] \in ClientReqs
                   THEN [client |-> caller[n], node |-> n, answer |-> answer]
                   ELSE NoRet
    BY DEF Return
  <1> QED BY <1>1, <1>2, <1>5, <1>10, <1>11, <1>12, <1>13, <1>14

\* The frame that runs is below every other one, and when it has no calls left
\* all its calls have been served in this request.
LEMMA TopFacts ==
  ASSUME Calling, NEW n \in Nodes, top = n
  PROVE  /\ n \in active
         /\ \A m \in active : m # n => NRank(n) < NRank(m)
         /\ todo[n] = {} =>
              \A d \in Calls(n) : d \in done /\ n \in requests[d] /\ d # n
  <1>1. n \in active
    BY NodesApart DEF Calling, Stack
  <1>2. \A m \in active : m # n => NRank(n) < NRank(m)
    <2> SUFFICES ASSUME NEW m \in active, m # n
                 PROVE  NRank(n) < NRank(m)
      OBVIOUS
    <2>1. m \in Nodes
      BY DEF Calling, TypeOK
    <2>2. NRank(n) \in Nat /\ NRank(m) \in Nat
      BY <2>1, CallsGoDown
    <2>3. NRank(n) <= NRank(m)
      BY DEF Calling, Stack
    <2>4. \/ NRank(m) < NRank(n)
          \/ caller[n] \in Nodes /\ NRank(caller[n]) <= NRank(m)
      BY <1>1 DEF Calling, Stack
    <2>5. CASE caller[n] \in Nodes /\ NRank(caller[n]) <= NRank(m)
      <3>1. n \in Calls(caller[n])
        BY <1>1, <2>5, NodesApart DEF Calling, Stack
      <3>2. NRank(n) < NRank(caller[n]) /\ NRank(caller[n]) \in Nat
        BY <3>1, <2>5, CallsGoDown
      <3> QED BY <2>2, <2>5, <3>2
    <2> QED BY <2>2, <2>3, <2>4, <2>5
  <1>3. ASSUME todo[n] = {}, NEW d \in Calls(n)
        PROVE  d \in done /\ n \in requests[d] /\ d # n
    <2>1. d \in Nodes /\ NRank(d) < NRank(n) /\ NRank(d) \in Nat /\ NRank(n) \in Nat
      BY CallsGoDown
    <2>2. ~(d \in active)
      BY <1>2, <2>1
    <2> QED BY <1>1, <1>3, <2>1, <2>2 DEF Calling, Progress
  <1> QED BY <1>1, <1>2, <1>3

\* Everything that the data of a served node depend on has been served.
LEMMA UsesAreDone ==
  ASSUME Calling, NEW m \in Nodes, Calls(m) \subseteq done
  PROVE  Uses(m) \subseteq done
  <1>1. CASE ~IsDeriv(m)
    BY <1>1, UsesAreCalls
  <1>2. CASE IsDeriv(m)
    <2>1. Value(KeyOf(m)) \in done /\ Uses(m) = Calls(m) \cup Calls(Value(KeyOf(m)))
      BY <1>2, UsesAreCalls
    <2>2. Calls(Value(KeyOf(m))) \subseteq done
      BY <2>1 DEF Calling, DoneIsServed
    <2> QED BY <2>1, <2>2
  <1> QED BY <1>1, <1>2

-----------------------------------------------------------------------------
(* A return preserves each part of the invariant                           *)

\* When a frame has returned (Served), the conjunct TypeOK holds again.
LEMMA ServedType ==
  ASSUME Calling, NEW n, NEW answer, NEW evaluated, Served(n, answer, evaluated)
  PROVE  TypeOK'
  <1>1. n \in Nodes /\ n \in active /\ answer \in BOOLEAN /\ evaluated \in BOOLEAN
        /\ Return(n, answer, evaluated)
    BY TopFacts DEF Served
  <1>2. requests' \in [Nodes -> SUBSET Requesters] /\ time' \in Times
        /\ computed' \subseteq Secondary \cup Independent
        /\ stamp' \in [Independent -> Times]
    BY DEF Served, Calling, TypeOK
  <1>3. caller' \in [Nodes -> Requesters \cup {Idle}]
    BY <1>1, ReturnFacts DEF Calling, TypeOK
  <1>4. changed' \in [Nodes -> BOOLEAN] /\ used' \in [Requesters -> SUBSET Nodes]
    BY <1>1, ReturnFacts
  <1>5. todo' \in [Nodes -> SUBSET Nodes] /\ active' \subseteq Nodes /\ done' \subseteq Nodes
    BY <1>1, ReturnFacts DEF Calling, TypeOK
  <1>6. top' \in Nodes \cup {Idle}
    BY <1>1, ReturnFacts
  <1>7. ret' \in Returns
    BY <1>1, ReturnFacts DEF Returns
  <1> QED BY <1>2, <1>3, <1>4, <1>5, <1>6, <1>7 DEF TypeOK

\* ... the frames below it are one descending chain of calls.
LEMMA ServedStack ==
  ASSUME Calling, NEW n, NEW answer, NEW evaluated, Served(n, answer, evaluated)
  PROVE  Stack'
  <1>1. n \in Nodes /\ n \in active /\ top = n
        /\ \A m \in active : m # n => NRank(n) < NRank(m)
    BY TopFacts DEF Served
  <1>2. /\ caller[n] \in Nodes \cup ClientReqs
        /\ active' = active \ {n}
        /\ top' = IF caller[n] \in ClientReqs THEN Idle ELSE caller[n]
        /\ caller' = [caller EXCEPT ![n] = Idle]
        /\ todo' = todo
    BY <1>1, ReturnFacts DEF Served
  <1>3. \A m \in active' : m \in Nodes /\ m \in active /\ m # n /\ caller'[m] = caller[m]
    BY <1>2 DEF Calling, TypeOK
  <1>4. \A m \in active' : /\ todo'[m] \subseteq Calls(m)
                           /\ \/ caller'[m] \in active' /\ m \in Calls(caller'[m])
                              \/ caller'[m] \in ClientReqs
    <2> SUFFICES ASSUME NEW m \in active'
                 PROVE  /\ todo'[m] \subseteq Calls(m)
                        /\ \/ caller'[m] \in active' /\ m \in Calls(caller'[m])
                           \/ caller'[m] \in ClientReqs
      OBVIOUS
    <2>1. m \in Nodes /\ m \in active /\ m # n /\ caller'[m] = caller[m]
      BY <1>3
    <2>2. todo'[m] \subseteq Calls(m)
      BY <2>1, <1>2 DEF Calling, Stack
    <2>3. caller[m] = n => FALSE
      <3>1. SUFFICES ASSUME caller[m] = n PROVE FALSE
        OBVIOUS
      <3>2. m \in Calls(n)
        BY <2>1, <3>1, <1>1, NodesApart DEF Calling, Stack
      <3>3. NRank(m) < NRank(n) /\ NRank(m) \in Nat /\ NRank(n) \in Nat
        BY <3>2, <1>1, CallsGoDown
      <3> QED BY <3>3, <2>1, <1>1
    <2>4. \/ caller[m] \in active /\ m \in Calls(caller[m])
          \/ caller[m] \in ClientReqs
      BY <2>1 DEF Calling, Stack
    <2> QED BY <1>2, <2>1, <2>2, <2>3, <2>4
  <1>5. \A m, x \in active' : \/ x = m
                              \/ NRank(x) < NRank(m)
                              \/ caller'[m] \in Nodes /\ NRank(caller'[m]) <= NRank(x)
    BY <1>3 DEF Calling, Stack
  <1>6. caller[n] \in ClientReqs => active' = {}
    <2> SUFFICES ASSUME caller[n] \in ClientReqs, NEW m \in active, m # n
                 PROVE  FALSE
      BY <1>2
    <2>1. m \in Nodes /\ NRank(m) \in Nat /\ NRank(n) \in Nat /\ NRank(n) < NRank(m)
      BY <1>1, CallsGoDown DEF Calling, TypeOK
    <2>2. caller[n] \notin Nodes
      BY NodesApart
    <2>3. NRank(m) < NRank(n)
      BY <1>1, <2>2 DEF Calling, Stack
    <2> QED BY <2>1, <2>3
  <1>7. caller[n] \in Nodes => /\ caller[n] \in active'
                               /\ \A m \in active' : NRank(caller[n]) <= NRank(m)
    <2> SUFFICES ASSUME caller[n] \in Nodes
                 PROVE  /\ caller[n] \in active'
                        /\ \A m \in active' : NRank(caller[n]) <= NRank(m)
      OBVIOUS
    <2>1. caller[n] \in active /\ n \in Calls(caller[n])
      BY <1>1, NodesApart DEF Calling, Stack
    <2>2. NRank(n) < NRank(caller[n]) /\ NRank(n) \in Nat
      BY <2>1, CallsGoDown
    <2>3. \A m \in active' : NRank(caller[n]) <= NRank(m)
      <3> SUFFICES ASSUME NEW m \in active' PROVE NRank(caller[n]) <= NRank(m)
        OBVIOUS
      <3>1. m \in active /\ m # n /\ NRank(n) < NRank(m) /\ m \in Nodes
        BY <1>3, <1>1
      <3>2. NRank(m) \in Nat
        BY <3>1, CallsGoDown
      <3>3. ~(NRank(m) < NRank(n))
        BY <2>2, <3>1, <3>2
      <3> QED BY <1>1, <3>1, <3>3 DEF Calling, Stack
    <2> QED BY <1>2, <2>1, <2>2, <2>3
  <1>8. caller[n] \in Nodes => top' = caller[n]
    BY <1>2, NodesApart
  <1>9. caller[n] \in ClientReqs => top' = Idle
    BY <1>2
  <1>10. (top' = Idle <=> active' = {}) /\ (top' # Idle => top' \in active')
    BY <1>2, <1>6, <1>7, <1>8, <1>9, NodesApart
  <1>11. \A m \in active' : NRank(top') <= NRank(m)
    BY <1>2, <1>6, <1>7, <1>8
  <1> QED
    <2> DEFINE Low == \A m \in active' : NRank(top') <= NRank(m)
    <2>1. (\A m \in active : NRank(top) <= NRank(m))' <=> Low
      BY DEF NRank, IsDeriv, KeyOf
    <2> QED BY <1>4, <1>5, <1>10, <1>11, <2>1 DEF Stack

\* ... all frames differentiate with respect to one key.
LEMMA ServedOneWrt ==
  ASSUME Calling, NEW n, NEW answer, NEW evaluated, Served(n, answer, evaluated)
  PROVE  OneWrt'
  <1>1. n \in Nodes /\ n \in active /\ active' = active \ {n} /\ done' = done \cup {n}
    BY TopFacts, ReturnFacts DEF Served
  <1>2. done' \cup active' \subseteq done \cup active
    BY <1>1
  <1> QED BY <1>2 DEF Calling, OneWrt

\* ... an independent evaluator that never ran has served nobody.
LEMMA ServedNew ==
  ASSUME Calling, NEW n, NEW answer, NEW evaluated, Served(n, answer, evaluated)
  PROVE  NewServedNobody'
  <1> SUFFICES ASSUME NEW i \in Independent, i \notin computed'
               PROVE  requests'[Value(i)] = {}
    BY DEF NewServedNobody
  <1>1. Value(i) \in ValueNodes /\ KeyOf(Value(i)) = i
    BY NodesApart DEF Keys
  <1>2. Value(i) # n
    BY <1>1 DEF Served, IsIndependent
  <1>3. requests[Value(i)] = {}
    BY DEF Served, Calling, NewServedNobody
  <1> QED BY <1>1, <1>2, <1>3, NodesApart DEF Served

\* ... what a derivative has used its field has seen.
LEMMA ServedDeriv ==
  ASSUME Calling, NEW n, NEW answer, NEW evaluated, Served(n, answer, evaluated)
  PROVE  DerivUsesValue'
  <1>1. /\ n \in Nodes /\ n \in active /\ top = n /\ todo[n] = {}
        /\ used'[n] = IF evaluated THEN Uses(n) ELSE used[n]
        /\ \A x \in Nodes \ {n} :
              /\ used[x] \ {n} \subseteq used'[x]
              /\ used'[x] \subseteq used[x]
              /\ ~evaluated => used[x] \subseteq used'[x]
              /\ evaluated => n \notin used'[x]
    BY TopFacts, ReturnFacts, NodesApart DEF Served
  <1>2. \A x \in Nodes : used'[x] \subseteq Uses(x)
    BY <1>1 DEF Calling, DerivUsesValue
  <1>3. ASSUME NEW m \in DerivNodes, Value(KeyOf(m)) \in used'[m]
        PROVE  used'[Value(KeyOf(m))] \subseteq used'[m]
    <2> DEFINE own == Value(KeyOf(m))
    <2>1. m \in Nodes /\ IsDeriv(m) /\ own \in Calls(m) /\ IsSecondary(own)
          /\ Uses(m) = Calls(m) \cup Calls(own)
      BY UsesAreCalls, NodesApart DEF IsDeriv
    <2>2. own \in Nodes /\ own # m
      BY <2>1, CallsGoDown
    <2>3. own \in used[m] => used[own] \subseteq used[m]
      BY DEF Calling, DerivUsesValue
    <2> HIDE DEF own
    <2>a. own \in used'[m]
      BY <1>3 DEF own
    <2>b. SUFFICES used'[own] \subseteq used'[m]
      BY DEF own
    <2>4. CASE n = m
      <3>1. used'[own] \subseteq used[own]
        BY <1>1, <2>2, <2>4
      <3>2. CASE evaluated
        <4>1. used'[own] \subseteq Uses(own)
          BY <1>2, <2>2
        <4>2. Uses(own) = Calls(own)
          BY <2>1, <2>2, UsesAreCalls, NodesApart DEF IsSecondary
        <4> QED BY <1>1, <2>1, <2>4, <3>2, <4>1, <4>2
      <3>3. CASE ~evaluated
        BY <1>1, <2>3, <2>4, <2>a, <3>1, <3>3
      <3> QED BY <3>2, <3>3
    <2>5. CASE n # m
      <3>1. own \in used[m]
        BY <1>1, <2>1, <2>5, <2>a
      <3>2. CASE evaluated
        <4>1. own # n
          BY <1>1, <2>1, <2>5, <2>a, <3>2
        <4>2. used'[own] \subseteq used[own] \ {n}
          BY <1>1, <2>2, <3>2, <4>1
        <4> QED BY <1>1, <2>1, <2>3, <2>5, <3>1, <4>2
      <3>3. CASE ~evaluated
        <4>1. used'[own] \subseteq used[own]
          BY <1>1, <2>2, <3>3
        <4> QED BY <1>1, <2>1, <2>3, <2>5, <3>1, <3>3, <4>1
      <3> QED BY <3>2, <3>3
    <2> QED BY <2>4, <2>5
  <1> QED BY <1>2, <1>3 DEF DerivUsesValue

\* What was served before this return keeps the requesters it has.
LEMMA RequestsOfDone ==
  ASSUME Calling, NEW n, NEW answer, NEW evaluated, Served(n, answer, evaluated),
         NEW d \in done
  PROVE  requests[d] \subseteq requests'[d]
  <1>1. n \in Nodes /\ n \in active /\ d \in Nodes
    BY TopFacts DEF Served, Calling, TypeOK
  <1>2. CASE d = n
    BY <1>2 DEF Served
  <1>3. CASE d # n
    <2>1. IsDeriv(d) /\ IsDeriv(n) => d[2] = n[2]
      BY <1>1 DEF Calling, OneWrt
    <2> QED BY <1>1, <1>3, <2>1 DEF Served
  <1> QED BY <1>2, <1>3

\* ... what has been served in this request stays served.
LEMMA ServedDone ==
  ASSUME Calling, NEW n, NEW answer, NEW evaluated, Served(n, answer, evaluated)
  PROVE  DoneIsServed'
  <1>1. /\ n \in Nodes /\ n \in active
        /\ \A d \in Calls(n) : d \in done /\ n \in requests[d]
        /\ evaluated => n \notin done
        /\ ~evaluated => (answer <=> caller[n] \notin requests[n])
    BY TopFacts DEF Served
  <1>2. /\ active' = active \ {n}
        /\ done' = done \cup {n}
        /\ \A x \in Nodes \ {n} : changed'[x] = (changed[x] \/ (x = caller[n] /\ answer))
    BY TopFacts, ReturnFacts, NodesApart DEF Served
  <1>3. done \subseteq Nodes
    BY DEF Calling, TypeOK
  <1>4. \A m \in done' : Calls(m) \subseteq done' /\ \A d \in Calls(m) : m \in requests'[d]
    <2>1. \A m \in done' : \A d \in Calls(m) : d \in done /\ m \in requests[d]
      BY <1>1, <1>2 DEF Calling, DoneIsServed
    <2> QED BY <1>2, <2>1, RequestsOfDone
  <1>5. \A m \in done' : m \in active' => ~changed'[m]
    <2> SUFFICES ASSUME NEW m \in done, m \in active, m # n
                 PROVE  ~changed'[m]
      BY <1>2
    <2>1. ~changed[m]
      BY DEF Calling, DoneIsServed
    <2>2. m = caller[n] => ~answer
      <3> SUFFICES ASSUME m = caller[n] PROVE ~answer
        OBVIOUS
      <3>1. n \in Calls(m)
        BY <1>1, <1>3, NodesApart DEF Calling, Stack
      <3>2. n \in done /\ m \in requests[n]
        BY <3>1 DEF Calling, DoneIsServed
      <3> QED BY <1>1, <3>2
    <2> QED BY <1>2, <1>3, <2>1, <2>2
  <1>6. ASSUME NEW m \in done'
        PROVE  /\ IsIndependent(m) => KeyOf(m) \in computed' /\ ~(OutOfDate(KeyOf(m))')
               /\ IsSecondary(m) => KeyOf(m) \in computed'
    <2>1. CASE m = n
      BY <2>1 DEF Served, OutOfDate, KeyOf
    <2>2. CASE m # n
      <3>1. m \in done
        BY <1>2, <2>2
      <3>2. IsSecondary(m) => KeyOf(m) \in computed'
        BY <3>1 DEF Served, Calling, DoneIsServed
      <3>3. ASSUME IsIndependent(m)
            PROVE  KeyOf(m) \in computed' /\ ~(OutOfDate(KeyOf(m))')
        <4>1. KeyOf(m) \in computed /\ ~OutOfDate(KeyOf(m)) /\ KeyOf(m) \in Independent
          BY <3>1, <3>3 DEF Calling, DoneIsServed, IsIndependent
        <4> QED BY <4>1 DEF Served, OutOfDate, KeyOf
      <3> QED BY <3>2, <3>3
    <2> QED BY <2>1, <2>2
  <1>7. \A m \in done' :
          /\ (IsIndependent(m) => KeyOf(m) \in computed /\ ~OutOfDate(KeyOf(m)))'
          /\ (IsSecondary(m) => KeyOf(m) \in computed)'
    BY <1>6 DEF IsIndependent, IsSecondary, KeyOf, OutOfDate
  <1> QED BY <1>4, <1>5, <1>7 DEF DoneIsServed

\* ... what is left of a frame's calls is what it has not yet asked.
LEMMA ServedProgress ==
  ASSUME Calling, NEW n, NEW answer, NEW evaluated, Served(n, answer, evaluated)
  PROVE  Progress'
  <1>1. /\ n \in Nodes /\ n \in active /\ active' = active \ {n} /\ todo' = todo
        /\ caller' = [caller EXCEPT ![n] = Idle] /\ done' = done \cup {n}
        /\ caller[n] \in requests'[n]
    BY TopFacts, ReturnFacts DEF Served
  <1> SUFFICES ASSUME NEW m \in active', NEW d \in Calls(m)
               PROVE  \/ d \in todo'[m]
                      \/ d \in active' /\ caller'[d] = m
                      \/ d \in done' /\ m \in requests'[d]
    BY DEF Progress
  <1>2. \/ d \in todo[m]
        \/ d \in active /\ caller[d] = m
        \/ d \in done /\ m \in requests[d]
    BY <1>1 DEF Calling, Progress
  <1>3. CASE d \in todo[m]
    BY <1>1, <1>3
  <1>4. CASE d \in active /\ caller[d] = m
    <2>1. CASE d = n
      BY <1>1, <1>4, <2>1
    <2>2. CASE d # n
      BY <1>1, <1>4, <2>2 DEF Calling, TypeOK
    <2> QED BY <2>1, <2>2
  <1>5. CASE d \in done /\ m \in requests[d]
    BY <1>1, <1>5, RequestsOfDone
  <1> QED BY <1>2, <1>3, <1>4, <1>5

\* ... and a client is put on the list of what it asked for.
LEMMA ServedRet ==
  ASSUME Calling, NEW n, NEW answer, NEW evaluated, Served(n, answer, evaluated)
  PROVE  RetIsDone'
  <1>1. /\ n \in Nodes /\ done' = done \cup {n} /\ caller[n] \in requests'[n]
        /\ ret' = IF caller[n] \in ClientReqs
                  THEN [client |-> caller[n], node |-> n, answer |-> answer]
                  ELSE NoRet
    BY TopFacts, ReturnFacts DEF Served
  <1> QED BY <1>1 DEF RetIsDone

\* The return of a frame keeps what holds of the calls.
LEMMA ServedCalling ==
  ASSUME Calling, NEW n, NEW answer, NEW evaluated, Served(n, answer, evaluated)
  PROVE  Calling'
  BY ServedType, ServedStack, ServedOneWrt, ServedDeriv, ServedNew, ServedDone,
     ServedProgress, ServedRet
  DEF Calling

-----------------------------------------------------------------------------
(* Each way to return is such a return                                     *)

\* What has been served in this request does not evaluate again.
LEMMA DoneDoesNotEvaluate ==
  ASSUME Calling, NEW n \in done
  PROVE  ~(UpdateIndependent(n) \/ UpdateSecondary(n) \/ UpdateDerivative(n))
  <1>1. /\ n \in Nodes /\ (n \in active => ~changed[n])
        /\ IsIndependent(n) => KeyOf(n) \in computed /\ ~OutOfDate(KeyOf(n))
        /\ IsSecondary(n) => KeyOf(n) \in computed
    BY DEF Calling, TypeOK, DoneIsServed
  <1>2. top = n => n \in active
    BY <1>1, TopFacts
  <1>3. ~UpdateIndependent(n)
    BY <1>1 DEF UpdateIndependent
  <1>4. ~UpdateSecondary(n)
    BY <1>1, <1>2 DEF UpdateSecondary, MustEvaluate
  <1>5. ~UpdateDerivative(n)
    BY <1>1, <1>2 DEF UpdateDerivative
  <1> QED BY <1>3, <1>4, <1>5

\* Primary and independent evaluators ask for nothing.
LEMMA LeafHasNoCalls ==
  ASSUME Calling, NEW n \in Nodes, top = n, IsPrimary(n) \/ IsIndependent(n)
  PROVE  todo[n] = {} /\ Calls(n) = {}
  BY TopFacts, CallsGoDown DEF Calling, Stack

\* The caller of the frame on top is a client or an evaluator.
LEMMA CallerIsRequester ==
  ASSUME Calling, NEW n \in Nodes, top = n
  PROVE  /\ caller[n] \in Requesters
         /\ requests \in [Nodes -> SUBSET Requesters]
         /\ computed \subseteq Secondary \cup Independent
         /\ stamp \in [Independent -> Times]
         /\ time \in Times
  BY TopFacts, NodesApart DEF Calling, TypeOK, Stack

\* EvaluatorPrimary::Update ends as Served describes.
LEMMA PrimaryServes ==
  ASSUME Calling, NEW n \in Nodes, UpdatePrimary(n)
  PROVE  Served(n, caller[n] \notin requests[n], FALSE)
  <1>1. top = n /\ IsPrimary(n)
    BY DEF UpdatePrimary
  <1>2. ~IsIndependent(n) /\ ~IsSecondary(n)
    BY <1>1, KeysAssumption DEF IsPrimary, IsIndependent, IsSecondary
  <1> QED BY <1>1, <1>2, LeafHasNoCalls, CallerIsRequester DEF UpdatePrimary, Served

\* EvaluatorIndependent::Update that evaluates ends as Served describes.
LEMMA IndependentServes ==
  ASSUME Calling, NEW n \in Nodes, UpdateIndependent(n)
  PROVE  Served(n, TRUE, TRUE)
  <1>1. /\ top = n /\ IsIndependent(n) /\ KeyOf(n) \in Independent
        /\ n = Value(KeyOf(n)) /\ ~IsDeriv(n)
    BY NodesApart DEF UpdateIndependent, IsIndependent
  <1>2. n \notin done
    BY DoneDoesNotEvaluate
  <1>3. KeyOf(n) \notin computed => requests[n] = {}
    BY <1>1 DEF Calling, NewServedNobody
  <1>4. requests' = [requests EXCEPT ![n] = {caller[n]}]
    BY <1>3, CallerIsRequester, <1>1 DEF UpdateIndependent
  <1>5. /\ requests' \in [Nodes -> SUBSET Requesters]
        /\ requests'[n] = {caller[n]}
        /\ \A m \in Nodes \ {n} : requests'[m] = requests[m]
    BY <1>1, <1>4, CallerIsRequester
  <1>6. /\ computed' \subseteq Secondary \cup Independent
        /\ computed \subseteq computed'
        /\ KeyOf(n) \in computed'
    BY <1>1, CallerIsRequester DEF UpdateIndependent
  <1>7. /\ stamp' \in [Independent -> Times]
        /\ \A i \in Independent : stamp'[i] = stamp[i] \/ stamp'[i] = time
        /\ KeyOf(n) \in Temporal => stamp'[KeyOf(n)] = time
        /\ time' = time
    BY <1>1, CallerIsRequester DEF UpdateIndependent
  <1>8. ~(OutOfDate(KeyOf(n))')
    BY <1>7 DEF OutOfDate, KeyOf
  <1>9. Return(n, TRUE, TRUE)
    BY DEF UpdateIndependent
  <1> QED BY <1>1, <1>2, <1>5, <1>6, <1>7, <1>8, <1>9, LeafHasNoCalls DEF Served

\* EvaluatorIndependent::Update that does not evaluate ends as Served describes.
LEMMA KeepIndependentServes ==
  ASSUME Calling, NEW n \in Nodes, KeepIndependent(n)
  PROVE  Served(n, caller[n] \notin requests[n], FALSE)
  <1>1. top = n /\ IsIndependent(n) /\ KeyOf(n) \in computed /\ ~OutOfDate(KeyOf(n))
    BY DEF KeepIndependent
  <1>2. ~IsPrimary(n) /\ ~IsSecondary(n)
    BY <1>1, KeysAssumption DEF IsPrimary, IsIndependent, IsSecondary
  <1>3. ~(OutOfDate(KeyOf(n))')
    BY <1>1 DEF KeepIndependent, OutOfDate, KeyOf
  <1> QED BY <1>1, <1>2, <1>3, LeafHasNoCalls, CallerIsRequester
          DEF KeepIndependent, Served

\* EvaluatorSecondary::Update that evaluates ends as Served describes.
LEMMA SecondaryServes ==
  ASSUME Calling, NEW n \in Nodes, UpdateSecondary(n)
  PROVE  Served(n, TRUE, TRUE)
  <1>1. top = n /\ IsSecondary(n) /\ KeyOf(n) \in Secondary /\ todo[n] = {}
    BY DEF UpdateSecondary, IsSecondary
  <1>2. n \notin done
    BY DoneDoesNotEvaluate
  <1>3. ~IsIndependent(n)
    BY <1>1, KeysAssumption DEF IsIndependent
  <1> QED BY <1>1, <1>2, <1>3, CallerIsRequester DEF UpdateSecondary, Served

\* EvaluatorSecondary::Update that does not evaluate ends as Served describes.
LEMMA KeepSecondaryServes ==
  ASSUME Calling, NEW n \in Nodes, KeepSecondary(n)
  PROVE  Served(n, caller[n] \notin requests[n], FALSE)
  <1>1. /\ top = n /\ IsSecondary(n) /\ todo[n] = {} /\ KeyOf(n) \in Secondary
        /\ ~changed[n] /\ KeyOf(n) \in computed
    BY DEF KeepSecondary, IsSecondary, MustEvaluate
  <1>2. ~IsIndependent(n)
    BY <1>1, KeysAssumption DEF IsIndependent
  <1> QED BY <1>1, <1>2, CallerIsRequester DEF KeepSecondary, Served

\* UpdateDerivative that evaluates ends as Served describes.
LEMMA DerivativeServes ==
  ASSUME Calling, NEW n \in Nodes, UpdateDerivative(n)
  PROVE  Served(n, TRUE, TRUE)
  <1>1. top = n /\ IsDeriv(n) /\ todo[n] = {}
    BY DEF UpdateDerivative
  <1>2. n \notin done
    BY DoneDoesNotEvaluate
  <1>3. ~IsIndependent(n) /\ ~IsSecondary(n)
    BY <1>1, NodesApart DEF IsIndependent, IsSecondary, IsDeriv
  <1>4. /\ requests' \in [Nodes -> SUBSET Requesters]
        /\ requests'[n] = {caller[n]}
        /\ \A m \in Nodes \ {n} :
             /\ requests'[m] \subseteq requests[m]
             /\ (IsDeriv(m) /\ KeyOf(m) = KeyOf(n)) \/ requests'[m] = requests[m]
    BY <1>1, CallerIsRequester DEF UpdateDerivative
  <1>5. ASSUME NEW m \in Nodes \ {n}, IsDeriv(m) /\ IsDeriv(n) => m[2] = n[2]
        PROVE  requests'[m] = requests[m]
    <2>1. ASSUME IsDeriv(m), KeyOf(m) = KeyOf(n)
          PROVE  FALSE
      <3>1. m = <<m[1], m[2]>> /\ n = <<n[1], n[2]>>
        BY <1>1, <2>1 DEF IsDeriv, DerivNodes
      <3> QED BY <1>1, <1>5, <2>1, <3>1 DEF KeyOf
    <2> QED BY <1>4, <2>1
  <1> QED BY <1>1, <1>2, <1>3, <1>4, <1>5, CallerIsRequester DEF UpdateDerivative, Served

\* UpdateDerivative that does not evaluate ends as Served describes.
LEMMA KeepDerivativeServes ==
  ASSUME Calling, NEW n \in Nodes, KeepDerivative(n)
  PROVE  Served(n, caller[n] \notin requests[n], FALSE)
  <1>1. top = n /\ IsDeriv(n) /\ todo[n] = {} /\ ~changed[n]
    BY DEF KeepDerivative
  <1>2. ~IsIndependent(n) /\ ~IsSecondary(n)
    BY <1>1, NodesApart DEF IsIndependent, IsSecondary, IsDeriv
  <1> QED BY <1>1, <1>2, CallerIsRequester DEF KeepDerivative, Served

\* Whatever evaluator is on top, its end is the return of a frame.
LEMMA EvaluateServes ==
  ASSUME Calling, NEW n \in Nodes, Evaluate(n)
  PROVE  \E answer, evaluated : Served(n, answer, evaluated)
  BY PrimaryServes, IndependentServes, KeepIndependentServes, SecondaryServes,
     KeepSecondaryServes, DerivativeServes, KeepDerivativeServes
  DEF Evaluate

-----------------------------------------------------------------------------
(* The other steps                                                         *)

\* An outermost call starts a request with nothing served and one frame.
LEMMA RequestKeepsCalling ==
  ASSUME Calling, NEW c \in Clients, NEW n \in Nodes, Request(c, n)
  PROVE  Calling'
  <1>1. /\ active = {} /\ active' = {n} /\ top' = n
        /\ caller' = [caller EXCEPT ![n] = <<c, "client">>]
        /\ changed' = [changed EXCEPT ![n] = FALSE]
        /\ todo' = [todo EXCEPT ![n] = Calls(n)]
        /\ done' = {} /\ ret' = NoRet
        /\ UNCHANGED <<requests, computed, stamp, time, used>>
    BY DEF Request, Push, Calling, Stack
  <1>2. <<c, "client">> \in ClientReqs
    BY DEF ClientReqs
  <1>3. /\ caller'[n] \in ClientReqs /\ todo'[n] = Calls(n)
    BY <1>1, <1>2 DEF Calling, TypeOK
  <1>4. TypeOK'
    <2>1. <<c, "client">> \in Requesters /\ Calls(n) \subseteq Nodes
      BY <1>2, NodesApart, CallsGoDown
    <2>2. ret' \in Returns
      BY <1>1 DEF Returns
    <2> QED BY <1>1, <2>1, <2>2 DEF Calling, TypeOK
  <1>5. Stack'
    <2>1. NRank(n) \in Nat /\ n # Idle
      BY CallsGoDown, NodesApart
    <2>2. top' = n /\ active' = {n}
      BY <1>1
    <2>3. (\A m \in active : NRank(top) <= NRank(m))'
      BY <2>1, <2>2 DEF NRank, IsDeriv, KeyOf
    <2> QED BY <1>3, <2>1, <2>2, <2>3 DEF Stack
  <1>6. OneWrt'
    BY <1>1 DEF OneWrt
  <1>7. NewServedNobody' /\ DerivUsesValue'
    BY <1>1 DEF Calling, NewServedNobody, DerivUsesValue
  <1>8. DoneIsServed' /\ Progress' /\ RetIsDone'
    BY <1>1, <1>3 DEF DoneIsServed, Progress, RetIsDone
  <1> QED BY <1>4, <1>5, <1>6, <1>7, <1>8 DEF Calling

\* The callee of a nested call has no frame yet.
LEMMA CalledIsNew ==
  ASSUME Calling, NEW d \in Nodes, Call(d)
  PROVE  d \notin active
  <1>1. top \in active /\ top \in Nodes /\ d \in Calls(top)
    <2>1. d \in NextCalls(top) /\ top # Idle
      BY DEF Call
    <2>2. NextCalls(top) \subseteq todo[top]
      BY DEF NextCalls
    <2> QED BY <2>1, <2>2 DEF Calling, TypeOK, Stack
  <1>2. NRank(d) < NRank(top) /\ NRank(d) \in Nat /\ NRank(top) \in Nat
    BY <1>1, CallsGoDown
  <1> QED BY <1>2 DEF Calling, Stack

\* A nested call pushes a frame of a lower rank than every other one.
LEMMA CallKeepsCalling ==
  ASSUME Calling, NEW d \in Nodes, Call(d)
  PROVE  Calling'
  <1> DEFINE t == top
  <1>1. /\ t \in Nodes /\ t \in active /\ d \in todo[t] /\ d \in Calls(t)
    <2>1. d \in NextCalls(top) /\ top # Idle
      BY DEF Call
    <2>2. NextCalls(top) \subseteq todo[top]
      BY DEF NextCalls
    <2> QED BY <2>1, <2>2 DEF Calling, TypeOK, Stack
  <1>2. /\ NRank(d) \in Nat /\ NRank(t) \in Nat /\ NRank(d) < NRank(t)
        /\ IsDeriv(d) => IsDeriv(t) /\ d[2] = t[2]
        /\ Calls(d) \subseteq Nodes
    BY <1>1, CallsGoDown
  <1>3. \A m \in active : m \in Nodes /\ NRank(m) \in Nat /\ NRank(t) <= NRank(m)
    BY CallsGoDown DEF Calling, TypeOK, Stack
  <1>4. d \notin active /\ d # t
    BY <1>2, <1>3, <1>1
  <1>5. /\ active' = active \cup {d} /\ top' = d
        /\ caller' = [caller EXCEPT ![d] = t]
        /\ changed' = [changed EXCEPT ![d] = FALSE]
        /\ todo' = [todo EXCEPT ![t] = @ \ {d}, ![d] = Calls(d)]
        /\ UNCHANGED <<requests, computed, stamp, time, used, done, ret>>
    BY DEF Call, Push
  <1>6. TypeOK'
    BY <1>1, <1>2, <1>5, NodesApart DEF Calling, TypeOK
  <1>7. /\ \A m \in active : m # d /\ caller'[m] = caller[m] /\ changed'[m] = changed[m]
        /\ caller'[d] = t /\ changed'[d] = FALSE
        /\ todo'[t] = todo[t] \ {d} /\ todo'[d] = Calls(d)
        /\ \A m \in active : m # t => todo'[m] = todo[m]
    BY <1>1, <1>3, <1>4, <1>5 DEF Calling, TypeOK
  <1> HIDE DEF t
  <1>8. Stack'
    <2>1. top' # Idle /\ active' # {} /\ top' \in active'
      BY <1>5, NodesApart
    <2>2. \A m \in active' : NRank(d) <= NRank(m)
      BY <1>2, <1>3, <1>5
    <2>3. (\A m \in active : NRank(top) <= NRank(m))'
      BY <2>2, <1>5 DEF NRank, IsDeriv, KeyOf
    <2>4. ASSUME NEW m \in active'
          PROVE  /\ todo'[m] \subseteq Calls(m)
                 /\ \/ caller'[m] \in active' /\ m \in Calls(caller'[m])
                    \/ caller'[m] \in ClientReqs
      <3>1. CASE m = d
        BY <3>1, <1>1, <1>5, <1>7
      <3>2. CASE m # d
        <4>1. m \in active /\ caller'[m] = caller[m] /\ active \subseteq active'
          BY <3>2, <1>5, <1>7
        <4>2. todo[m] \subseteq Calls(m)
          BY <4>1 DEF Calling, Stack
        <4>3. \/ caller[m] \in active /\ m \in Calls(caller[m])
              \/ caller[m] \in ClientReqs
          BY <4>1 DEF Calling, Stack
        <4>4. todo'[m] \subseteq todo[m]
          BY <4>1, <1>7
        <4> QED BY <4>1, <4>2, <4>3, <4>4
      <3> QED BY <3>1, <3>2
    <2>5. ASSUME NEW m \in active', NEW x \in active'
          PROVE  \/ x = m
                 \/ NRank(x) < NRank(m)
                 \/ caller'[m] \in Nodes /\ NRank(caller'[m]) <= NRank(x)
      <3>1. CASE m = d
        BY <3>1, <1>1, <1>3, <1>5, <1>7
      <3>2. CASE m # d /\ x = d
        BY <3>2, <1>2, <1>3, <1>5
      <3>3. CASE m # d /\ x # d
        BY <3>3, <1>5, <1>7 DEF Calling, Stack
      <3> QED BY <3>1, <3>2, <3>3
    <2> QED BY <2>1, <2>3, <2>4, <2>5 DEF Stack
  <1>9. OneWrt'
    <2> SUFFICES ASSUME NEW m \in done \cup active', NEW x \in done \cup active',
                        IsDeriv(m), IsDeriv(x)
                 PROVE  m[2] = x[2]
      BY <1>5 DEF OneWrt
    <2>1. \A y \in done \cup active : IsDeriv(y) /\ IsDeriv(t) => y[2] = t[2]
      BY <1>1 DEF Calling, OneWrt
    <2>2. \A y, z \in done \cup active : IsDeriv(y) /\ IsDeriv(z) => y[2] = z[2]
      BY DEF Calling, OneWrt
    <2> QED BY <1>2, <1>5, <2>1, <2>2
  <1>10. NewServedNobody' /\ DerivUsesValue'
    BY <1>5 DEF Calling, NewServedNobody, DerivUsesValue
  <1>11. DoneIsServed'
    <2>1. \A m \in done : m \in active' => ~changed'[m]
      BY <1>5, <1>7 DEF Calling, DoneIsServed
    <2>2. \A m \in done :
            /\ (IsIndependent(m) => KeyOf(m) \in computed /\ ~OutOfDate(KeyOf(m)))'
            /\ (IsSecondary(m) => KeyOf(m) \in computed)'
      BY <1>5 DEF Calling, DoneIsServed, OutOfDate, IsIndependent, IsSecondary, KeyOf
    <2>3. \A m \in done : Calls(m) \subseteq done /\ \A e \in Calls(m) : m \in requests[e]
      BY DEF Calling, DoneIsServed
    <2> QED BY <1>5, <2>1, <2>2, <2>3 DEF DoneIsServed
  <1>12. Progress'
    <2> SUFFICES ASSUME NEW m \in active', NEW e \in Calls(m)
                 PROVE  \/ e \in todo'[m]
                        \/ e \in active' /\ caller'[e] = m
                        \/ e \in done /\ m \in requests[e]
      BY <1>5 DEF Progress
    <2>1. CASE m = d
      BY <2>1, <1>7
    <2>2. CASE m # d
      <3>1. \/ e \in todo[m]
            \/ e \in active /\ caller[e] = m
            \/ e \in done /\ m \in requests[e]
        BY <2>2, <1>5 DEF Calling, Progress
      <3>2. CASE m = t
        BY <3>1, <3>2, <1>5, <1>7
      <3>3. CASE m # t
        BY <2>2, <3>1, <3>3, <1>5, <1>7
      <3> QED BY <3>2, <3>3
    <2> QED BY <2>1, <2>2
  <1>13. RetIsDone'
    BY <1>5 DEF Calling, RetIsDone
  <1> QED BY <1>6, <1>8, <1>9, <1>10, <1>11, <1>12, <1>13 DEF Calling

\* A new primary field has served nobody and nobody has used it.
LEMMA SetChangedKeepsCalling ==
  ASSUME Calling, NEW p \in Primary, SetChanged(p)
  PROVE  Calling'
  <1>1. /\ active = {} /\ active' = {} /\ top' = top /\ top = Idle
        /\ requests' = [requests EXCEPT ![Value(p)] = {}]
        /\ used' = [x \in Requesters |-> used[x] \ {Value(p)}]
        /\ done' = {} /\ ret' = NoRet
        /\ UNCHANGED <<computed, stamp, time, caller, todo, changed>>
    BY DEF SetChanged, Calling, Stack
  <1>2. Value(p) \in Nodes
    BY NodesApart DEF Keys
  <1>3. /\ \A m \in Nodes : requests'[m] \subseteq requests[m]
        /\ requests'[Value(p)] = {}
    BY <1>1, <1>2 DEF Calling, TypeOK
  <1>4. TypeOK'
    <2>1. ret' \in Returns
      BY <1>1 DEF Returns
    <2> QED BY <1>1, <2>1 DEF Calling, TypeOK
  <1>5. Stack' /\ OneWrt' /\ DoneIsServed' /\ Progress' /\ RetIsDone'
    BY <1>1 DEF Stack, OneWrt, DoneIsServed, Progress, RetIsDone
  <1>6. NewServedNobody'
    BY <1>1, <1>3, NodesApart DEF Calling, NewServedNobody, Keys
  <1>7. DerivUsesValue'
    <2>1. \A m \in Nodes : used'[m] = used[m] \ {Value(p)}
      BY <1>1, NodesApart
    <2>2. \A m \in DerivNodes : m \in Nodes /\ Value(KeyOf(m)) \in Nodes
      BY NodesApart DEF Keys
    <2> QED BY <2>1, <2>2 DEF Calling, DerivUsesValue
  <1> QED BY <1>4, <1>5, <1>6, <1>7 DEF Calling

\* The clock moves between two requests.
LEMMA SetTimeKeepsCalling ==
  ASSUME Calling, NEW t \in Times, SetTime(t)
  PROVE  Calling'
  <1>1. /\ active = {} /\ top' = top /\ top = Idle
        /\ done' = {} /\ ret' = NoRet /\ time' = t
        /\ UNCHANGED <<requests, computed, stamp, caller, todo, changed, active, used>>
    BY DEF SetTime, Calling, Stack
  <1>2. TypeOK'
    <2>1. ret' \in Returns
      BY <1>1 DEF Returns
    <2> QED BY <1>1, <2>1 DEF Calling, TypeOK
  <1>3. Stack' /\ OneWrt' /\ DoneIsServed' /\ Progress' /\ RetIsDone'
    BY <1>1 DEF Stack, OneWrt, DoneIsServed, Progress, RetIsDone
  <1>4. NewServedNobody' /\ DerivUsesValue'
    BY <1>1 DEF Calling, NewServedNobody, DerivUsesValue
  <1> QED BY <1>2, <1>3, <1>4 DEF Calling

\* Nothing has been served, used or called at the start.
LEMMA InitCalling == Init => Calling
  <1> SUFFICES ASSUME Init PROVE Calling
    OBVIOUS
  <1>1. TypeOK
    BY DEF Init, TypeOK, Returns
  <1>2. Stack /\ OneWrt /\ DoneIsServed /\ Progress /\ RetIsDone
    BY DEF Init, Stack, OneWrt, DoneIsServed, Progress, RetIsDone
  <1>3. NewServedNobody
    <2>1. \A n \in Nodes : requests[n] = {}
      BY DEF Init
    <2>2. \A i \in Independent : Value(i) \in Nodes
      BY NodesApart DEF Keys
    <2> QED BY <2>1, <2>2 DEF NewServedNobody
  <1>4. DerivUsesValue
    <2>1. \A n \in Nodes : used[n] = {}
      BY NodesApart DEF Init
    <2> QED BY <2>1, NodesApart DEF DerivUsesValue
  <1> QED BY <1>1, <1>2, <1>3, <1>4 DEF Calling

\* Calling does not look at the history of failures.
LEMMA StutterKeepsCalling == ASSUME Calling, UNCHANGED vars PROVE Calling'
  BY DEF vars, Calling, TypeOK, Stack, OneWrt, NewServedNobody, DerivUsesValue,
         DoneIsServed, Progress, RetIsDone, OutOfDate, NRank, IsDeriv, IsIndependent,
         IsSecondary, KeyOf

\* Every step keeps what holds of the calls.
LEMMA NextKeepsCalling == ASSUME Calling, [Next]_vars PROVE Calling'
  <1>1. CASE Step
    BY <1>1, CallKeepsCalling, EvaluateServes, ServedCalling DEF Step
  <1>2. CASE Environment
    BY <1>2, RequestKeepsCalling, SetChangedKeepsCalling, SetTimeKeepsCalling
    DEF Environment
  <1>3. CASE UNCHANGED vars
    BY <1>3, StutterKeepsCalling
  <1> QED BY <1>1, <1>2, <1>3 DEF Next

-----------------------------------------------------------------------------
(* As long as no evaluation fails, what has been served is up to date      *)

\* A node that does not have to evaluate has used the present data of all that
\* its data depend on.
LEMMA KeptHasUsed ==
  ASSUME Calling, ServedHasUsed, DoneIsFresh,
         NEW n \in Nodes, top = n, todo[n] = {}, Calls(n) # {} => ~changed[n]
  PROVE  Uses(n) \subseteq used[n]
  <1>1. \A d \in Calls(n) : d \in done /\ n \in requests[d]
    BY TopFacts
  <1>2. Calls(n) \subseteq used[n]
    BY <1>1 DEF ServedHasUsed
  <1>3. CASE ~IsDeriv(n)
    BY <1>2, <1>3, UsesAreCalls
  <1>4. CASE IsDeriv(n)
    <2> DEFINE own == Value(KeyOf(n))
    <2>1. own \in Calls(n) /\ IsSecondary(own) /\ Uses(n) = Calls(n) \cup Calls(own)
      BY <1>4, UsesAreCalls
    <2>2. own \in Nodes
      BY <2>1, CallsGoDown
    <2> HIDE DEF own
    <2>3. Fresh(own)
      BY <2>1, <1>1 DEF DoneIsFresh
    <2>4. ~IsPrimary(own) /\ ~IsIndependent(own)
      BY <2>1, KeysAssumption DEF IsSecondary, IsPrimary, IsIndependent
    <2>5. Calls(own) \subseteq used[own]
      BY <2>2, <2>3, <2>4, UsesAreCalls DEF Fresh
    <2>6. used[own] \subseteq used[n]
      BY <2>1, <1>2, <1>4 DEF Calling, DerivUsesValue, IsDeriv, own
    <2> QED BY <1>2, <2>1, <2>5, <2>6
  <1> QED BY <1>3, <1>4

\* A return keeps what is up to date up to date, and adds n to it.
LEMMA ServedFresh ==
  ASSUME Calling, ServedHasUsed, DoneIsFresh,
         NEW n, NEW answer, NEW evaluated, Served(n, answer, evaluated)
  PROVE  DoneIsFresh'
  <1>1. /\ n \in Nodes /\ top = n /\ todo[n] = {}
        /\ evaluated \in BOOLEAN /\ evaluated => n \notin done
        /\ ~evaluated => (Calls(n) # {} => ~changed[n])
    BY DEF Served
  <1>2. /\ done' = done \cup {n}
        /\ used'[n] = IF evaluated THEN Uses(n) ELSE used[n]
        /\ \A x \in Nodes \ {n} :
              /\ used[x] \ {n} \subseteq used'[x]
              /\ ~evaluated => used[x] \subseteq used'[x]
    BY TopFacts, ReturnFacts, NodesApart DEF Served
  <1>3. DoneIsServed' /\ done \subseteq Nodes
    BY ServedDone DEF Calling, TypeOK
  <1> SUFFICES ASSUME NEW m \in done' PROVE Fresh(m)'
    BY DEF DoneIsFresh
  <1>4. m \in Nodes
    BY <1>1, <1>2, <1>3
  <1>5. CASE IsPrimary(m)
    BY <1>5 DEF Fresh, IsPrimary, KeyOf
  <1>6. CASE IsIndependent(m)
    BY <1>3, <1>6 DEF DoneIsServed, Fresh, IsIndependent, IsPrimary, KeyOf, OutOfDate
  <1>7. CASE ~IsPrimary(m) /\ ~IsIndependent(m)
    <2>1. Uses(m) \subseteq used'[m]
      <3>1. CASE m = n /\ evaluated
        BY <3>1, <1>2
      <3>2. CASE m = n /\ ~evaluated
        BY <3>2, <1>1, <1>2, KeptHasUsed
      <3>3. CASE m # n
        <4>1. m \in done /\ Fresh(m) /\ Calls(m) \subseteq done
          BY <3>3, <1>2 DEF Calling, DoneIsServed, DoneIsFresh
        <4>2. Uses(m) \subseteq done /\ Uses(m) \subseteq used[m]
          BY <4>1, <1>4, <1>7, UsesAreDone DEF Fresh
        <4> QED BY <4>2, <3>3, <1>1, <1>2, <1>4
      <3> QED BY <3>1, <3>2, <3>3
    <2>2. (IsSecondary(m) => KeyOf(m) \in computed)'
      BY <1>3 DEF DoneIsServed
    <2> QED BY <2>1, <2>2, <1>7
            DEF Fresh, IsPrimary, IsIndependent, IsSecondary, KeyOf, Uses, Calls,
                DepValues, DepDerivs, IsDeriv, Value
  <1> QED BY <1>5, <1>6, <1>7

\* After a return, the requesters on the lists have used what is there.
LEMMA ServedServed ==
  ASSUME Calling, ServedHasUsed,
         NEW n, NEW answer, NEW evaluated, Served(n, answer, evaluated)
  PROVE  ServedHasUsed'
  <1>1. /\ n \in Nodes /\ n \in active
        /\ evaluated => answer /\ requests'[n] = {caller[n]}
        /\ ~evaluated => /\ answer <=> caller[n] \notin requests[n]
                         /\ requests'[n] = requests[n] \cup {caller[n]}
                         /\ Calls(n) # {} => ~changed[n]
        /\ \A m \in Nodes \ {n} : requests'[m] \subseteq requests[m]
    BY TopFacts DEF Served
  <1>2. /\ caller[n] # n
        /\ active' = active \ {n}
        /\ used'[n] = IF evaluated THEN Uses(n) ELSE used[n]
        /\ \A x \in Nodes \ {n} :
              changed'[x] = (changed[x] \/ (x = caller[n] /\ answer))
        /\ \A x \in Requesters \ {n} :
              /\ used[x] \ {n} \subseteq used'[x]
              /\ ~evaluated => used[x] \subseteq used'[x]
        /\ caller[n] \in ClientReqs /\ answer => n \in used'[caller[n]]
    BY TopFacts, ReturnFacts DEF Served
  <1>3. caller[n] \in Nodes => caller[n] \in active'
    BY <1>1, <1>2, NodesApart DEF Calling, Stack
  <1>4. ASSUME NEW r \in ClientReqs, NEW m \in Nodes, r \in requests'[m]
        PROVE  m \in used'[r]
    <2>1. r \in Requesters \ {n} /\ (r \in requests[m] => m \in used[r])
      BY <1>1, NodesApart DEF Calling, ServedHasUsed
    <2>2. CASE m # n
      BY <1>1, <1>2, <1>4, <2>1, <2>2
    <2>3. CASE m = n
      BY <1>1, <1>2, <1>4, <2>1, <2>3
    <2> QED BY <2>2, <2>3
  <1>5. ASSUME NEW m \in Nodes, NEW d \in Calls(m), m \in requests'[d]
        PROVE  d \in used'[m] \/ (m \in active' /\ changed'[m])
    <2>1. d \in Nodes /\ m # d /\ m \in Requesters
      BY CallsGoDown, NodesApart
    <2>2. m \in requests[d] => d \in used[m] \/ (m \in active /\ changed[m])
      BY DEF Calling, ServedHasUsed
    <2>3. CASE d = n
      BY <1>1, <1>2, <1>3, <1>5, <2>1, <2>2, <2>3
    <2>4. CASE d # n /\ m # n
      BY <1>1, <1>2, <1>5, <2>1, <2>2, <2>4
    <2>5. CASE m = n
      <3>1. m \in requests[d]
        BY <1>1, <1>5, <2>1, <2>5
      <3>2. evaluated => d \in used'[m]
        BY <1>2, <2>5, UsesAreCalls
      <3>3. ~evaluated => d \in used'[m]
        BY <1>1, <1>2, <2>2, <2>5, <3>1
      <3> QED BY <3>2, <3>3
    <2> QED BY <2>3, <2>4, <2>5
  <1> QED BY <1>4, <1>5 DEF ServedHasUsed

\* A new primary field has served nobody and nobody has used it.
LEMMA SetChangedKeepsServed ==
  ASSUME Calling, ServedHasUsed, NEW p \in Primary, SetChanged(p)
  PROVE  ServedHasUsed' /\ DoneIsFresh'
  <1>1. /\ active = {} /\ active' = {}
        /\ requests' = [requests EXCEPT ![Value(p)] = {}]
        /\ used' = [x \in Requesters |-> used[x] \ {Value(p)}]
        /\ done' = {}
    BY DEF SetChanged, Calling, Stack
  <1>2. Value(p) \in Nodes
    BY NodesApart DEF Keys
  <1>3. /\ \A m \in Nodes : requests'[m] \subseteq requests[m]
        /\ requests'[Value(p)] = {}
    BY <1>1, <1>2 DEF Calling, TypeOK
  <1>4. \A x \in Requesters, m \in Nodes : m \in used[x] /\ m # Value(p) => m \in used'[x]
    BY <1>1
  <1>5. \A r \in ClientReqs, m \in Nodes : r \in requests'[m] => m \in used'[r]
    BY <1>3, <1>4, NodesApart DEF ServedHasUsed
  <1>6. \A m \in Nodes : \A d \in Calls(m) : m \in requests'[d] => d \in used'[m]
    BY <1>1, <1>3, <1>4, NodesApart, CallsGoDown DEF ServedHasUsed
  <1> QED BY <1>1, <1>5, <1>6 DEF ServedHasUsed, DoneIsFresh

\* A call or a move of the clock leaves the lists and the uses alone.
LEMMA CallKeepsServed ==
  ASSUME IInv, NEW d \in Nodes, Call(d)
  PROVE  ServedHasUsed' /\ DoneIsFresh'
  <1>1. /\ active' = active \cup {d} /\ changed' = [changed EXCEPT ![d] = FALSE]
        /\ UNCHANGED <<requests, computed, stamp, time, used, done>>
    BY DEF Call, Push
  <1>2. d \notin active
    BY CalledIsNew DEF IInv
  <1>3. \A m \in Nodes : m \in active /\ changed[m] => m \in active' /\ changed'[m]
    BY <1>1, <1>2 DEF IInv, Calling, TypeOK
  <1>4. ServedHasUsed'
    BY <1>1, <1>3 DEF IInv, ServedHasUsed
  <1>5. DoneIsFresh'
    BY <1>1 DEF IInv, DoneIsFresh, Fresh, OutOfDate
  <1> QED BY <1>4, <1>5

\* The inductive invariant holds at the start ...
LEMMA InitInv == Init => IInv
  <1> SUFFICES ASSUME Init PROVE IInv
    OBVIOUS
  <1>1. ServedHasUsed
    <2>1. \A n \in Nodes : requests[n] = {}
      BY DEF Init
    <2> QED BY <2>1, CallsGoDown DEF ServedHasUsed
  <1>2. DoneIsFresh
    BY DEF Init, DoneIsFresh
  <1> QED BY <1>1, <1>2, InitCalling DEF IInv

\* ... and every step preserves it.
LEMMA NextKeepsInv == IInv /\ [Next]_vars => IInv'
  <1> SUFFICES ASSUME IInv, [Next]_vars PROVE ServedHasUsed' /\ DoneIsFresh'
    BY NextKeepsCalling DEF IInv
  <1>0. Calling /\ ServedHasUsed /\ DoneIsFresh
    BY DEF IInv
  <1>1. ASSUME NEW n \in Nodes, Evaluate(n) PROVE ServedHasUsed' /\ DoneIsFresh'
    BY <1>0, <1>1, EvaluateServes, ServedServed, ServedFresh
  <1>2. ASSUME NEW n \in Nodes, Call(n) PROVE ServedHasUsed' /\ DoneIsFresh'
    BY <1>2, CallKeepsServed
  <1>3. ASSUME NEW c \in Clients, NEW n \in Nodes, Request(c, n)
        PROVE  ServedHasUsed' /\ DoneIsFresh'
    <2>1. active = {} /\ done' = {} /\ UNCHANGED <<requests, used>>
      BY <1>0, <1>3 DEF Request, Calling, Stack
    <2> QED BY <1>0, <2>1 DEF ServedHasUsed, DoneIsFresh
  <1>4. ASSUME NEW p \in Primary, SetChanged(p) PROVE ServedHasUsed' /\ DoneIsFresh'
    BY <1>0, <1>4, SetChangedKeepsServed
  <1>5. ASSUME NEW t \in Times, SetTime(t) PROVE ServedHasUsed' /\ DoneIsFresh'
    <2>1. active = {} /\ done' = {} /\ UNCHANGED <<requests, used, active>>
      BY <1>0, <1>5 DEF SetTime, Calling, Stack
    <2> QED BY <1>0, <2>1 DEF ServedHasUsed, DoneIsFresh
  <1>6. CASE UNCHANGED vars
    BY <1>0, <1>6 DEF vars, ServedHasUsed, DoneIsFresh, Fresh, OutOfDate
  <1> QED BY <1>1, <1>2, <1>3, <1>4, <1>5, <1>6 DEF Next, Step, Environment

-----------------------------------------------------------------------------
(* Who has used the present value is not told to do it again               *)

\* A return keeps ServedStaysServed: an evaluation makes everybody but the
\* caller forget the data, and has put n on the lists of what it reads.
LEMMA ServedKeepsServed ==
  ASSUME Calling, ServedStaysServed,
         NEW n, NEW answer, NEW evaluated, Served(n, answer, evaluated)
  PROVE  ServedStaysServed'
  <1>1. /\ n \in Nodes /\ n \in active /\ todo[n] = {}
        /\ evaluated \in BOOLEAN
        /\ evaluated => requests'[n] = {caller[n]}
        /\ ~evaluated => requests'[n] = requests[n] \cup {caller[n]}
        /\ \A m \in Nodes \ {n} :
             /\ (IsDeriv(m) /\ IsDeriv(n) => m[2] = n[2]) => requests'[m] = requests[m]
    BY TopFacts DEF Served
  <1>2. \A m \in ValueNodes \ {n} : m \in Nodes /\ ~IsDeriv(m) /\ requests'[m] = requests[m]
    BY <1>1, NodesApart
  <1>3. ASSUME NEW r \in Requesters
        PROVE  /\ evaluated /\ r # n => used'[r] \subseteq (used[r] \ {n})
                                          \cup (IF r = caller[n] THEN {n} ELSE {})
               /\ evaluated /\ r = n => used'[r] \subseteq Uses(n)
                                          \cup (IF r = caller[n] THEN {n} ELSE {})
               /\ ~evaluated => used'[r] \subseteq used[r]
                                          \cup (IF r = caller[n] THEN {n} ELSE {})
    <2> DEFINE used1 == IF evaluated
                        THEN [x \in Requesters |-> IF x = n THEN Uses(n) ELSE used[x] \ {n}]
                        ELSE used
    <2>1. used' = IF caller[n] \in ClientReqs /\ answer
                  THEN [used1 EXCEPT ![caller[n]] = @ \cup {n}] ELSE used1
      BY DEF Served, Return
    <2>2. used1 \in [Requesters -> SUBSET Nodes]
      BY <1>1, UsesAreCalls DEF Calling, TypeOK
    <2>3. used'[r] \subseteq used1[r] \cup (IF r = caller[n] THEN {n} ELSE {})
      BY <2>1, <2>2
    <2> QED BY <2>3, <1>1
  <1> SUFFICES ASSUME NEW r \in ClientReqs \cup ValueNodes, NEW m \in ValueNodes,
                      m \in used'[r]
               PROVE  r \in requests'[m]
    BY DEF ServedStaysServed
  <1>4. r \in Requesters /\ m \in Nodes
    BY NodesApart
  <1>5. m \in used[r] => r \in requests[m]
    BY DEF ServedStaysServed
  <1>6. CASE m = n
    <2>1. evaluated => r = caller[n]
      <3>1. n \notin Uses(n)
        BY <1>1, <1>6, NodesApart, CallsGoDown DEF Uses
      <3> QED BY <1>3, <1>4, <1>6, <3>1
    <2>2. ~evaluated => m \in used[r] \/ r = caller[n]
      BY <1>3, <1>4, <1>6
    <2> QED BY <1>1, <1>5, <1>6, <2>1, <2>2
  <1>7. CASE m # n
    <2>1. requests'[m] = requests[m]
      BY <1>2, <1>7
    <2>2. CASE evaluated /\ r = n
      <3>1. m \in Uses(n) /\ ~IsDeriv(n)
        BY <1>1, <1>3, <1>4, <1>7, <2>2, NodesApart
      <3>2. m \in Calls(n)
        BY <3>1 DEF Uses
      <3>3. \/ m \in active /\ caller[m] = n
            \/ n \in requests[m]
        BY <1>1, <3>2 DEF Calling, Progress
      <3>4. ~(m \in active /\ caller[m] = n)
        BY <1>1, <3>2, CallsGoDown DEF Calling, Stack, Served
      <3> QED BY <2>1, <2>2, <3>3, <3>4
    <2>3. CASE ~(evaluated /\ r = n)
      BY <1>1, <1>3, <1>4, <1>5, <1>7, <2>1, <2>3
    <2> QED BY <2>2, <2>3
  <1> QED BY <1>6, <1>7

\* Calls change no list of served requesters; the environment clears a list
\* only together with the use of its data.
LEMMA NextKeepsServed ==
  ASSUME Calling, ServedStaysServed, [Next]_vars
  PROVE  ServedStaysServed'
  <1>1. ASSUME NEW n \in Nodes, Evaluate(n)
        PROVE  ServedStaysServed'
    <2>1. \E answer, evaluated : Served(n, answer, evaluated)
      BY <1>1, PrimaryServes, IndependentServes, KeepIndependentServes, SecondaryServes,
         KeepSecondaryServes, DerivativeServes, KeepDerivativeServes
      DEF Evaluate
    <2> QED BY <2>1, ServedKeepsServed
  <1>2. ASSUME NEW n \in Nodes, Call(n)
        PROVE  ServedStaysServed'
    BY <1>2 DEF Call, ServedStaysServed
  <1>3. ASSUME NEW c \in Clients, NEW n \in Nodes, Request(c, n)
        PROVE  ServedStaysServed'
    BY <1>3 DEF Request, ServedStaysServed
  <1>4. ASSUME NEW p \in Primary, SetChanged(p)
        PROVE  ServedStaysServed'
    <2>1. /\ requests' = [requests EXCEPT ![Value(p)] = {}]
          /\ used' = [x \in Requesters |-> used[x] \ {Value(p)}]
      BY <1>4 DEF SetChanged
    <2>2. \A m \in ValueNodes : m # Value(p) => requests'[m] = requests[m]
      BY <2>1, NodesApart DEF Calling, TypeOK
    <2>3. \A r \in ClientReqs \cup ValueNodes : used'[r] = used[r] \ {Value(p)}
      BY <2>1, NodesApart
    <2> QED BY <2>2, <2>3 DEF ServedStaysServed
  <1>5. ASSUME NEW t \in Times, SetTime(t)
        PROVE  ServedStaysServed'
    BY <1>5 DEF SetTime, ServedStaysServed
  <1>6. CASE UNCHANGED vars
    BY <1>6 DEF vars, data, frames, history, ServedStaysServed
  <1> QED BY <1>1, <1>2, <1>3, <1>4, <1>5, <1>6 DEF Next, Step, Environment

-----------------------------------------------------------------------------
(* Cones of the graph                                                      *)

\* The cone of a node holds the node and is closed under calls.
LEMMA ConeIsClosed ==
  ASSUME NEW n \in Nodes
  PROVE  /\ n \in Cone[n] /\ Cone[n] \subseteq Nodes
         /\ \A m \in Cone[n] : Calls(m) \subseteq Cone[n]
  <1>1. Cone[n] = {m \in Nodes :
                     \A D \in SUBSET Nodes : n \in D /\ ClosedUnderCalls(D) => m \in D}
    BY DEF Cone
  <1>2. ASSUME NEW m \in Cone[n], NEW d \in Calls(m) PROVE d \in Cone[n]
    <2>1. m \in Nodes /\ d \in Nodes
      BY <1>1, CallsGoDown
    <2>2. ASSUME NEW D \in SUBSET Nodes, n \in D, ClosedUnderCalls(D) PROVE d \in D
      BY <1>1, <2>2 DEF ClosedUnderCalls
    <2> QED BY <1>1, <2>1, <2>2
  <1> QED BY <1>1, <1>2

\* It is the least such set.
LEMMA ConeIsLeast ==
  ASSUME NEW n \in Nodes, NEW D \in SUBSET Nodes, n \in D, ClosedUnderCalls(D)
  PROVE  Cone[n] \subseteq D
  BY DEF Cone

\* What is below something below n is below n.
LEMMA ConeIsTransitive ==
  ASSUME NEW n \in Nodes, NEW m \in Cone[n]
  PROVE  m \in Nodes /\ Cone[m] \subseteq Cone[n]
  <1>1. m \in Nodes /\ Cone[n] \in SUBSET Nodes /\ ClosedUnderCalls(Cone[n])
    BY ConeIsClosed DEF ClosedUnderCalls
  <1> QED BY <1>1, ConeIsLeast

\* Whatever is below n, other than n, is called by something below n.
LEMMA ConeHasCaller ==
  ASSUME NEW n \in Nodes, NEW m \in Cone[n], m # n
  PROVE  \E z \in Cone[n] : m \in Calls(z)
  <1> SUFFICES ASSUME \A z \in Cone[n] : m \notin Calls(z) PROVE FALSE
    OBVIOUS
  <1> DEFINE D == Cone[n] \ {m}
  <1>1. n \in D /\ D \in SUBSET Nodes /\ ClosedUnderCalls(D)
    BY ConeIsClosed DEF ClosedUnderCalls
  <1> QED BY <1>1, ConeIsLeast

-----------------------------------------------------------------------------
(* When an evaluation fails                                                *)

\* A step of the recovering program is a step of the other one, or a throw.
LEMMA RNextIsNext ==
  ASSUME [RNext]_rvars
  PROVE  [Next]_vars \/ \E n \in Nodes : Throw(n)
  <1>1. CASE RStep
    BY <1>1 DEF RStep, Next, Step, Evaluate
  <1>2. CASE REnvironment
    BY <1>2 DEF REnvironment, Restore, Next, Environment
  <1>3. CASE UNCHANGED rvars
    BY <1>3 DEF rvars
  <1> QED BY <1>1, <1>2, <1>3 DEF RNext

\* A throw empties the stack and keeps the lists.
LEMMA ThrowKeepsCalling ==
  ASSUME Calling, NEW n \in Nodes, Throw(n)
  PROVE  Calling'
  <1>1. /\ active' = {} /\ top' = Idle /\ done' = {} /\ ret' = NoRet
        /\ caller' = [m \in Nodes |-> Idle]
        /\ todo' = [m \in Nodes |-> {}]
        /\ changed' = [m \in Nodes |-> FALSE]
        /\ used' = [x \in Requesters |-> IF x = n THEN {} ELSE used[x] \ {n}]
        /\ UNCHANGED <<requests, stamp, time>>
    BY DEF Throw
  <1>2. computed \subseteq computed' /\ computed' \subseteq Secondary \cup Independent
    BY DEF Throw, Calling, TypeOK, IsSecondary
  <1>3. TypeOK'
    <2>1. ret' \in Returns
      BY <1>1 DEF Returns
    <2> QED BY <1>1, <1>2, <2>1 DEF Calling, TypeOK
  <1>4. Stack' /\ OneWrt' /\ DoneIsServed' /\ Progress' /\ RetIsDone'
    BY <1>1 DEF Stack, OneWrt, DoneIsServed, Progress, RetIsDone
  <1>5. NewServedNobody'
    BY <1>1, <1>2 DEF Calling, NewServedNobody
  <1>6. DerivUsesValue'
    <2>1. \A m \in Nodes : used'[m] = IF m = n THEN {} ELSE used[m] \ {n}
      BY <1>1, NodesApart
    <2>2. \A m \in DerivNodes : m \in Nodes /\ Value(KeyOf(m)) \in Nodes
      BY NodesApart DEF Keys
    <2>3. \A m \in Nodes : used'[m] \subseteq Uses(m)
      BY <2>1 DEF Calling, DerivUsesValue
    <2>4. ASSUME NEW m \in DerivNodes, Value(KeyOf(m)) \in used'[m]
          PROVE  used'[Value(KeyOf(m))] \subseteq used'[m]
      <3> DEFINE own == Value(KeyOf(m))
      <3>1. m \in Nodes /\ own \in Nodes /\ (own \in used[m] => used[own] \subseteq used[m])
        BY <2>2 DEF Calling, DerivUsesValue
      <3> HIDE DEF own
      <3>2. own \in used'[m]
        BY <2>4 DEF own
      <3>3. m # n /\ own # n /\ own \in used[m]
        BY <2>1, <3>1, <3>2
      <3>4. used'[own] \subseteq used'[m]
        BY <2>1, <3>1, <3>3
      <3> QED BY <3>4 DEF own
    <2> QED BY <2>3, <2>4 DEF DerivUsesValue
  <1> QED BY <1>3, <1>4, <1>5, <1>6 DEF Calling

\* Every step keeps what holds of the calls.
LEMMA RNextKeepsCalling == ASSUME Calling, [RNext]_rvars PROVE Calling'
  BY RNextIsNext, NextKeepsCalling, ThrowKeepsCalling

\* What is in doubt after a step.
LEMMA DoubtfulNext ==
  ASSUME NEW x \in Nodes
  PROVE  Doubtful(x)' <=> \/ x \in broken'
                          \/ \E y \in Calls(x) : x \notin requests'[y]
                          \/ x \in active' /\ changed'[x] /\ Calls(x) # {}
  BY DEF Doubtful

\* If all that is in doubt below m leaves something in doubt below m, then m
\* stays suspect.
LEMMA SuspectStays ==
  ASSUME NEW m \in Nodes, Suspect(m),
         \A x \in Cone[m] : Doubtful(x) => (\E z \in Cone[m] : Doubtful(z)')
  PROVE  Suspect(m)'
  <1>1. PICK z \in Cone[m] : Doubtful(z)'
    BY DEF Suspect
  <1>2. Suspect(m)' <=> \E x \in Cone[m] : Doubtful(x)'
    BY DEF Suspect
  <1> QED BY <1>1, <1>2

\* What is in doubt is suspect itself.
LEMMA DoubtfulIsSuspect ==
  ASSUME NEW m \in Nodes
  PROVE  (Doubtful(m)' => Suspect(m)')
         /\ \A z \in Cone[m] : Doubtful(z)' => Suspect(m)'
  <1>1. Suspect(m)' <=> \E x \in Cone[m] : Doubtful(x)'
    BY DEF Suspect
  <1> QED BY <1>1, ConeIsClosed

\* A return settles the doubt about n, if it has evaluated; it leaves every
\* other doubt, and puts all callers of n in doubt.
LEMMA ServedDoubts ==
  ASSUME Calling, NEW n, NEW answer \in BOOLEAN, NEW evaluated \in BOOLEAN,
         Served(n, answer, evaluated),
         broken' = IF evaluated THEN broken \ {n} ELSE broken
  PROVE  /\ \A x \in Nodes : Doubtful(x) /\ (x # n \/ ~evaluated) => Doubtful(x)'
         /\ answer => \A z \in Nodes : z = caller[n] => Doubtful(z)'
         /\ evaluated => \A z \in Nodes : n \in Calls(z) => Doubtful(z)'
  <1>1. /\ n \in Nodes /\ n \in active /\ answer \in BOOLEAN /\ evaluated \in BOOLEAN
        /\ evaluated => answer /\ requests'[n] = {caller[n]}
        /\ ~evaluated => /\ answer <=> caller[n] \notin requests[n]
                         /\ requests'[n] = requests[n] \cup {caller[n]}
                         /\ Calls(n) # {} => ~changed[n]
        /\ \A m \in Nodes \ {n} : requests'[m] \subseteq requests[m]
    BY TopFacts DEF Served
  <1>2. /\ caller[n] # n
        /\ active' = active \ {n}
        /\ \A x \in Nodes \ {n} : changed'[x] = (changed[x] \/ (x = caller[n] /\ answer))
    BY TopFacts, ReturnFacts DEF Served
  <1>3. caller[n] \in Nodes => caller[n] \in active' /\ n \in Calls(caller[n])
    BY <1>1, <1>2, NodesApart DEF Calling, Stack
  <1>4. ASSUME answer, NEW z \in Nodes, z = caller[n] PROVE Doubtful(z)'
    <2>1. z \in active' /\ changed'[z] /\ Calls(z) # {}
      BY <1>2, <1>3, <1>4
    <2> QED BY <2>1, DoubtfulNext
  <1>5. ASSUME evaluated, NEW z \in Nodes, n \in Calls(z)
        PROVE  Doubtful(z)'
    <2>1. CASE z = caller[n]
      BY <1>1, <1>4, <1>5, <2>1
    <2>2. CASE z # caller[n]
      <3>1. z \notin requests'[n]
        BY <1>1, <1>5, <2>2
      <3> QED BY <1>5, <3>1, DoubtfulNext
    <2> QED BY <2>1, <2>2
  <1>6. ASSUME NEW x \in Nodes, Doubtful(x), x # n \/ ~evaluated
        PROVE  Doubtful(x)'
    <2>1. CASE x \in broken
      <3>1. x \in broken'
        BY <1>6, <2>1
      <3> QED BY <3>1, DoubtfulNext
    <2>2. ASSUME NEW y \in Calls(x), x \notin requests[y]
          PROVE  Doubtful(x)'
      <3>1. y \in Nodes
        BY CallsGoDown
      <3>2. CASE y # n
        <4>1. x \notin requests'[y]
          BY <1>1, <2>2, <3>1, <3>2
        <4> QED BY <4>1, DoubtfulNext
      <3>3. CASE y = n /\ x # caller[n]
        <4>1. x \notin requests'[y]
          BY <1>1, <2>2, <3>3
        <4> QED BY <4>1, DoubtfulNext
      <3>4. CASE y = n /\ x = caller[n]
        <4>1. answer
          BY <1>1, <2>2, <3>4
        <4> QED BY <4>1, <1>4, <3>4
      <3> QED BY <3>2, <3>3, <3>4
    <2>3. CASE x \in active /\ changed[x] /\ Calls(x) # {}
      <3>1. x # n
        BY <1>1, <1>6, <2>3
      <3>2. x \in active' /\ changed'[x]
        BY <1>2, <2>3, <3>1
      <3> QED BY <2>3, <3>2, DoubtfulNext
    <2> QED BY <1>6, <2>1, <2>2, <2>3 DEF Doubtful
  <1> QED BY <1>4, <1>5, <1>6

\* So whatever is suspect stays suspect, but for n when it has evaluated.
LEMMA ServedSuspects ==
  ASSUME Calling, NEW n, NEW answer \in BOOLEAN, NEW evaluated \in BOOLEAN,
         Served(n, answer, evaluated),
         broken' = IF evaluated THEN broken \ {n} ELSE broken,
         NEW m \in Nodes, Suspect(m), m # n \/ ~evaluated
  PROVE  Suspect(m)'
  <1>1. PICK x \in Cone[m] : Doubtful(x)
    BY DEF Suspect
  <1>2. x \in Nodes
    BY ConeIsTransitive
  <1>3. CASE x # n \/ ~evaluated
    <2>1. Doubtful(x)'
      BY <1>1, <1>2, <1>3, ServedDoubts
    <2> QED BY <2>1, DoubtfulIsSuspect
  <1>4. CASE x = n /\ evaluated
    <2>1. PICK z \in Cone[m] : x \in Calls(z)
      BY <1>4, ConeHasCaller
    <2>2. z \in Nodes
      BY ConeIsTransitive
    <2>3. Doubtful(z)'
      BY <1>4, <2>1, <2>2, ServedDoubts
    <2> QED BY <2>3, DoubtfulIsSuspect
  <1> QED BY <1>3, <1>4

\* A return keeps ServedOrSuspect.
LEMMA ServedKeepsSuspicion ==
  ASSUME Calling, ServedOrSuspect,
         NEW n, NEW answer \in BOOLEAN, NEW evaluated \in BOOLEAN,
         Served(n, answer, evaluated),
         broken' = IF evaluated THEN broken \ {n} ELSE broken
  PROVE  ServedOrSuspect'
  <1>1. /\ n \in Nodes /\ n \in active /\ answer \in BOOLEAN /\ evaluated \in BOOLEAN
        /\ evaluated => answer /\ requests'[n] = {caller[n]}
        /\ ~evaluated => /\ answer <=> caller[n] \notin requests[n]
                         /\ requests'[n] = requests[n] \cup {caller[n]}
        /\ \A m \in Nodes \ {n} : requests'[m] \subseteq requests[m]
    BY TopFacts DEF Served
  <1>2. /\ caller[n] # n
        /\ used'[n] = IF evaluated THEN Uses(n) ELSE used[n]
        /\ \A x \in Requesters \ {n} :
              /\ used[x] \ {n} \subseteq used'[x]
              /\ ~evaluated => used[x] \subseteq used'[x]
        /\ caller[n] \in ClientReqs /\ answer => n \in used'[caller[n]]
    BY TopFacts, ReturnFacts DEF Served
  <1>3. ASSUME NEW m \in Nodes, Suspect(m), m # n \/ ~evaluated PROVE Suspect(m)'
    BY <1>3, ServedSuspects
  <1>4. ASSUME NEW r \in ClientReqs, NEW m \in Nodes, r \in requests'[m]
        PROVE  m \in used'[r] \/ Suspect(m)'
    <2>1. r \in Requesters \ {n} /\ (r \in requests[m] => m \in used[r] \/ Suspect(m))
      BY <1>1, NodesApart DEF ServedOrSuspect
    <2>2. CASE m # n
      BY <1>1, <1>2, <1>3, <1>4, <2>1, <2>2
    <2>3. CASE m = n
      BY <1>1, <1>2, <1>3, <1>4, <2>1, <2>3
    <2> QED BY <2>2, <2>3
  <1>5. ASSUME NEW m \in Nodes, NEW d \in Calls(m), m \in requests'[d]
        PROVE  d \in used'[m] \/ Suspect(m)'
    <2>1. d \in Nodes /\ m # d /\ m \in Requesters
      BY CallsGoDown, NodesApart
    <2>2. m \in requests[d] => d \in used[m] \/ Suspect(m)
      BY DEF ServedOrSuspect
    <2>3. CASE d = n
      <3>1. CASE m = caller[n] /\ answer
        BY <3>1, ServedDoubts, DoubtfulIsSuspect
      <3>2. CASE ~(m = caller[n] /\ answer)
        <4>1. ~evaluated /\ m \in requests[d]
          BY <1>1, <1>5, <2>3, <3>2
        <4>2. used[m] \subseteq used'[m]
          BY <1>1, <1>2, <2>1, <2>3, <4>1
        <4> QED BY <1>3, <2>2, <4>1, <4>2
      <3> QED BY <3>1, <3>2
    <2>4. CASE d # n /\ m # n
      <3>1. m \in requests[d]
        BY <1>1, <1>5, <2>1, <2>4
      <3>2. d \in used[m] => d \in used'[m]
        BY <1>2, <2>1, <2>4
      <3> QED BY <1>3, <2>2, <2>4, <3>1, <3>2
    <2>5. CASE m = n
      <3>1. m \in requests[d]
        BY <1>1, <1>5, <2>1, <2>5
      <3>2. evaluated => d \in used'[m]
        BY <1>2, <2>5, UsesAreCalls
      <3>3. ~evaluated => d \in used'[m] \/ Suspect(m)'
        BY <1>2, <1>3, <2>2, <2>5, <3>1
      <3> QED BY <3>2, <3>3
    <2> QED BY <2>3, <2>4, <2>5
  <1>6. /\ \A r \in ClientReqs, m \in Nodes :
             (r \in requests[m] => m \in used[r] \/ Suspect(m))'
        /\ \A m \in Nodes : \A d \in Calls(m) :
             (m \in requests[d] => d \in used[m] \/ Suspect(m))'
    BY <1>4, <1>5
  <1> QED BY <1>6 DEF ServedOrSuspect

\* A step that forgets no list, no use and nothing that a frame knows.
LEMMA QuietKeepsSuspicion ==
  ASSUME ServedOrSuspect, requests' = requests, used' = used, broken' = broken,
         \A x \in Nodes : x \in active /\ changed[x] => x \in active' /\ changed'[x]
  PROVE  ServedOrSuspect'
  <1>1. ASSUME NEW m \in Nodes, Suspect(m) PROVE Suspect(m)'
    <2>1. ASSUME NEW x \in Cone[m], Doubtful(x) PROVE Doubtful(x)'
      <3>1. x \in Nodes
        BY ConeIsTransitive
      <3> QED BY <2>1, <3>1, DoubtfulNext DEF Doubtful
    <2> QED BY <1>1, <2>1, SuspectStays
  <1>2. /\ \A r \in ClientReqs, m \in Nodes :
             (r \in requests[m] => m \in used[r] \/ Suspect(m))'
        /\ \A m \in Nodes : \A d \in Calls(m) :
             (m \in requests[d] => d \in used[m] \/ Suspect(m))'
    BY <1>1 DEF ServedOrSuspect
  <1> QED BY <1>2 DEF ServedOrSuspect

\* A throw puts all frames in doubt, and with them everything above the data
\* that it may have spoilt.
LEMMA ThrowKeepsSuspicion ==
  ASSUME Calling, ServedOrSuspect, NEW n \in Nodes, Throw(n)
  PROVE  ServedOrSuspect' /\ broken' = broken \cup active
  <1>1. /\ n \in active /\ broken' = broken \cup active /\ requests' = requests
        /\ used' = [x \in Requesters |-> IF x = n THEN {} ELSE used[x] \ {n}]
    BY TopFacts DEF Throw
  <1>2. ASSUME NEW m \in Nodes, n \in Cone[m] PROVE Suspect(m)'
    <2>1. Doubtful(n)'
      BY <1>1, DoubtfulNext
    <2> QED BY <1>2, <2>1, DoubtfulIsSuspect
  <1>3. ASSUME NEW m \in Nodes, Suspect(m) PROVE Suspect(m)'
    <2>1. ASSUME NEW x \in Cone[m], Doubtful(x) PROVE Doubtful(x)'
      <3>1. x \in Nodes
        BY ConeIsTransitive
      <3> QED BY <1>1, <2>1, <3>1, DoubtfulNext DEF Doubtful
    <2> QED BY <1>3, <2>1, SuspectStays
  <1>4. ASSUME NEW r \in ClientReqs, NEW m \in Nodes, r \in requests'[m]
        PROVE  m \in used'[r] \/ Suspect(m)'
    <2>1. r \in Requesters /\ r # n /\ (m \in used[r] \/ Suspect(m))
      BY <1>1, <1>4, NodesApart DEF ServedOrSuspect
    <2>2. m \in used[r] /\ m # n => m \in used'[r]
      BY <1>1, <2>1
    <2>3. m = n => Suspect(m)'
      BY <1>2, ConeIsClosed
    <2> QED BY <1>3, <2>1, <2>2, <2>3
  <1>5. ASSUME NEW m \in Nodes, NEW d \in Calls(m), m \in requests'[d]
        PROVE  d \in used'[m] \/ Suspect(m)'
    <2>1. m \in Requesters /\ (d \in used[m] \/ Suspect(m))
      BY <1>1, <1>5, NodesApart DEF ServedOrSuspect
    <2>2. d \in used[m] /\ d # n /\ m # n => d \in used'[m]
      BY <1>1, <2>1
    <2>3. d = n \/ m = n => Suspect(m)'
      BY <1>2, ConeIsClosed
    <2> QED BY <1>3, <2>1, <2>2, <2>3
  <1>6. /\ \A r \in ClientReqs, m \in Nodes :
             (r \in requests[m] => m \in used[r] \/ Suspect(m))'
        /\ \A m \in Nodes : \A d \in Calls(m) :
             (m \in requests[d] => d \in used[m] \/ Suspect(m))'
    BY <1>4, <1>5
  <1> QED BY <1>1, <1>6 DEF ServedOrSuspect

\* A primary field that has been written and marked puts all its callers in
\* doubt, so whatever is above it stays suspect though it counts as repaired.
LEMMA RestoreKeepsSuspicion ==
  ASSUME Calling, ServedOrSuspect, NEW p \in Primary, Restore(p)
  PROVE  ServedOrSuspect'
  <1> DEFINE v == Value(p)
  <1>1. v \in Nodes
    BY NodesApart DEF Keys
  <1>2. /\ active = {} /\ active' = {}
        /\ requests' = [requests EXCEPT ![v] = {}]
        /\ used' = [x \in Requesters |-> used[x] \ {v}]
        /\ broken' = broken \ {n \in Nodes : v \in Cone[n]}
    BY DEF Restore, SetChanged, Calling, Stack
  <1> HIDE DEF v
  <1>3. requests'[v] = {} /\ \A m \in Nodes : requests'[m] \subseteq requests[m]
    BY <1>1, <1>2 DEF Calling, TypeOK
  <1>4. ASSUME NEW m \in Nodes, v \in Cone[m], m # v PROVE Suspect(m)'
    <2>1. PICK z \in Cone[m] : v \in Calls(z)
      BY <1>4, ConeHasCaller
    <2>2. z \in Nodes
      BY ConeIsTransitive
    <2>3. Doubtful(z)'
      BY <1>3, <2>1, <2>2, DoubtfulNext
    <2> QED BY <2>3, DoubtfulIsSuspect
  <1>5. ASSUME NEW m \in Nodes, Suspect(m), m # v PROVE Suspect(m)'
    <2>1. PICK x \in Cone[m] : Doubtful(x)
      BY <1>5 DEF Suspect
    <2>2. x \in Nodes /\ Cone[x] \subseteq Cone[m]
      BY ConeIsTransitive
    <2>3. CASE v \in Cone[x]
      BY <1>4, <1>5, <2>2, <2>3
    <2>4. CASE v \notin Cone[x]
      <3>1. CASE x \in broken
        <4>1. x \in broken'
          BY <1>2, <2>4, <3>1
        <4>2. Doubtful(x)'
          BY <2>2, <4>1, DoubtfulNext
        <4> QED BY <4>2, DoubtfulIsSuspect
      <3>2. ASSUME NEW y \in Calls(x), x \notin requests[y] PROVE Suspect(m)'
        <4>1. x \notin requests'[y]
          BY <1>3, <2>2, <3>2, CallsGoDown
        <4>2. Doubtful(x)'
          BY <2>2, <4>1, DoubtfulNext
        <4> QED BY <4>2, DoubtfulIsSuspect
      <3> QED BY <1>2, <2>1, <3>1, <3>2 DEF Doubtful
    <2> QED BY <2>3, <2>4
  <1>6. ASSUME NEW r \in ClientReqs, NEW m \in Nodes, r \in requests'[m]
        PROVE  m \in used'[r] \/ Suspect(m)'
    <2>1. m # v /\ r \in Requesters /\ (m \in used[r] \/ Suspect(m))
      BY <1>3, <1>6, NodesApart DEF ServedOrSuspect
    <2>2. m \in used[r] => m \in used'[r]
      BY <1>2, <2>1
    <2> QED BY <1>5, <2>1, <2>2
  <1>7. ASSUME NEW m \in Nodes, NEW d \in Calls(m), m \in requests'[d]
        PROVE  d \in used'[m] \/ Suspect(m)'
    <2>1. d \in Nodes /\ d # v /\ m \in Requesters /\ (d \in used[m] \/ Suspect(m))
      BY <1>3, <1>7, NodesApart, CallsGoDown DEF ServedOrSuspect
    <2>2. d \in used[m] => d \in used'[m]
      BY <1>2, <2>1
    <2>3. m # v
      BY NodesApart, CallsGoDown DEF v, IsPrimary, Keys
    <2> QED BY <1>5, <2>1, <2>2, <2>3
  <1>8. /\ \A r \in ClientReqs, m \in Nodes :
             (r \in requests[m] => m \in used[r] \/ Suspect(m))'
        /\ \A m \in Nodes : \A d \in Calls(m) :
             (m \in requests[d] => d \in used[m] \/ Suspect(m))'
    BY <1>6, <1>7
  <1> QED BY <1>8 DEF ServedOrSuspect

\* An evaluator that returns settles its own doubt if it has evaluated.
LEMMA EvaluateSettles ==
  ASSUME Calling, NEW n \in Nodes,
         \/ (UpdatePrimary(n) \/ KeepIndependent(n) \/ KeepSecondary(n)
               \/ KeepDerivative(n)) /\ UNCHANGED broken
         \/ (UpdateIndependent(n) \/ UpdateSecondary(n) \/ UpdateDerivative(n))
               /\ broken' = broken \ {n}
  PROVE  \E answer, evaluated \in BOOLEAN :
           /\ Served(n, answer, evaluated)
           /\ broken' = IF evaluated THEN broken \ {n} ELSE broken
  <1> DEFINE asked == caller[n] \notin requests[n]
  <1>1. CASE (UpdatePrimary(n) \/ KeepIndependent(n) \/ KeepSecondary(n)
               \/ KeepDerivative(n)) /\ UNCHANGED broken
    <2>1. Served(n, asked, FALSE) /\ asked \in BOOLEAN
      BY <1>1, PrimaryServes, KeepIndependentServes, KeepSecondaryServes,
         KeepDerivativeServes
    <2> HIDE DEF asked
    <2> QED BY <1>1, <2>1
  <1>2. CASE (UpdateIndependent(n) \/ UpdateSecondary(n) \/ UpdateDerivative(n))
               /\ broken' = broken \ {n}
    <2>1. Served(n, TRUE, TRUE)
      BY <1>2, IndependentServes, SecondaryServes, DerivativeServes
    <2> QED BY <1>2, <2>1
  <1> QED BY <1>1, <1>2

\* The inductive invariant of the recovering program holds at the start ...
LEMMA InitRecovery == RInit => RIInv
  <1> SUFFICES ASSUME RInit PROVE RIInv
    OBVIOUS
  <1>1. \A n \in Nodes : requests[n] = {}
    BY DEF RInit, Init
  <1>2. ServedOrSuspect
    BY <1>1, CallsGoDown DEF ServedOrSuspect
  <1> QED BY <1>2, InitCalling DEF RInit, RIInv

\* ... and every step preserves it.
LEMMA NextKeepsRecovery == RIInv /\ [RNext]_rvars => RIInv'
  <1> SUFFICES ASSUME RIInv, [RNext]_rvars PROVE RIInv'
    OBVIOUS
  <1>0. Calling /\ broken \subseteq Nodes /\ ServedOrSuspect /\ Calling'
    BY RNextKeepsCalling DEF RIInv
  <1> SUFFICES broken' \subseteq Nodes /\ ServedOrSuspect'
    BY <1>0 DEF RIInv
  <1>1. ASSUME NEW n \in Nodes, Call(n), UNCHANGED broken
        PROVE  broken' \subseteq Nodes /\ ServedOrSuspect'
    <2>1. /\ active' = active \cup {n} /\ changed' = [changed EXCEPT ![n] = FALSE]
          /\ UNCHANGED <<requests, used>>
      BY <1>1 DEF Call, Push
    <2>2. n \notin active
      BY <1>0, <1>1, CalledIsNew
    <2>3. \A x \in Nodes : x \in active /\ changed[x] => x \in active' /\ changed'[x]
      BY <1>0, <2>1, <2>2 DEF Calling, TypeOK
    <2> QED BY <1>0, <1>1, <2>1, <2>3, QuietKeepsSuspicion
  <1>2. ASSUME NEW n \in Nodes,
               \/ (UpdatePrimary(n) \/ KeepIndependent(n) \/ KeepSecondary(n)
                     \/ KeepDerivative(n)) /\ UNCHANGED broken
               \/ (UpdateIndependent(n) \/ UpdateSecondary(n) \/ UpdateDerivative(n))
                     /\ broken' = broken \ {n}
        PROVE  broken' \subseteq Nodes /\ ServedOrSuspect'
    <2>1. PICK answer, evaluated \in BOOLEAN :
            /\ Served(n, answer, evaluated)
            /\ broken' = IF evaluated THEN broken \ {n} ELSE broken
      BY <1>0, <1>2, EvaluateSettles
    <2> QED BY <1>0, <2>1, ServedKeepsSuspicion
  <1>3. ASSUME NEW n \in Nodes, Throw(n)
        PROVE  broken' \subseteq Nodes /\ ServedOrSuspect'
    BY <1>0, <1>3, ThrowKeepsSuspicion DEF Calling, TypeOK
  <1>4. ASSUME NEW c \in Clients, NEW n \in Nodes, Request(c, n), UNCHANGED broken
        PROVE  broken' \subseteq Nodes /\ ServedOrSuspect'
    <2>1. active = {} /\ UNCHANGED <<requests, used>>
      BY <1>0, <1>4 DEF Request, Calling, Stack
    <2> QED BY <1>0, <1>4, <2>1, QuietKeepsSuspicion
  <1>5. ASSUME NEW p \in Primary, Restore(p)
        PROVE  broken' \subseteq Nodes /\ ServedOrSuspect'
    <2>1. broken' \subseteq broken
      BY <1>5 DEF Restore
    <2> QED BY <1>0, <1>5, <2>1, RestoreKeepsSuspicion
  <1>6. ASSUME NEW t \in Times, SetTime(t), UNCHANGED broken
        PROVE  broken' \subseteq Nodes /\ ServedOrSuspect'
    <2>1. active = {} /\ UNCHANGED <<requests, used>>
      BY <1>0, <1>6 DEF SetTime, Calling, Stack
    <2> QED BY <1>0, <1>6, <2>1, QuietKeepsSuspicion
  <1>7. CASE UNCHANGED rvars
    BY <1>0, <1>7, QuietKeepsSuspicion DEF rvars, vars
  <1> QED BY <1>1, <1>2, <1>3, <1>4, <1>5, <1>6, <1>7 DEF RNext, RStep, REnvironment

\* When a call has returned, and no failure is outstanding at or below the
\* node, nothing there is in doubt.
LEMMA NothingIsSuspect ==
  ASSUME RIInv, ret # NoRet, Cone[ret.node] \cap broken = {}, NEW m \in Cone[ret.node]
  PROVE  m \in done /\ ~Suspect(m)
  <1>1. /\ ret.node \in done /\ done \in SUBSET Nodes /\ ret.node \in Nodes
        /\ DoneIsServed
    BY DEF RIInv, Calling, RetIsDone, TypeOK
  <1>2. Cone[ret.node] \subseteq done
    BY <1>1, ConeIsLeast DEF DoneIsServed, ClosedUnderCalls
  <1>3. ASSUME NEW x \in Cone[m] PROVE ~Doubtful(x)
    <2>1. x \in Cone[ret.node]
      BY <1>1, ConeIsTransitive
    <2> QED BY <1>1, <1>2, <2>1 DEF Doubtful, DoneIsServed
  <1> QED BY <1>2, <1>3 DEF Suspect

-----------------------------------------------------------------------------
(* The theorems                                                            *)

\* The inductive invariant holds in every reachable state: the frames form one
\* descending stack, and whoever is on a list of served requesters has used
\* the present data.
THEOREM Invariance == Spec => []IInv
  BY InitInv, NextKeepsInv, PTL DEF Spec

\* Every variable keeps its type.
THEOREM TypeCorrect == Spec => []TypeOK
  <1>1. IInv => TypeOK
    BY DEF IInv, Calling
  <1> QED BY <1>1, Invariance, PTL

\* When EvaluatorSecondary::Update or UpdateDerivative returns to a PK, the
\* field and everything it depends on are up to date, in every graph.
THEOREM DataAreCurrent == Spec => []ReturnedDataAreCurrent
  <1>1. IInv => ReturnedDataAreCurrent
    <2> SUFFICES ASSUME IInv, ret # NoRet, NEW m \in Cone[ret.node]
                 PROVE  Fresh(m)
      BY DEF ReturnedDataAreCurrent
    <2>1. ret.node \in done /\ done \in SUBSET Nodes
      BY DEF IInv, Calling, RetIsDone, TypeOK
    <2>2. ClosedUnderCalls(done)
      BY DEF IInv, Calling, DoneIsServed, ClosedUnderCalls
    <2>3. m \in done
      BY <2>1, <2>2 DEF Cone
    <2> QED BY <2>3 DEF IInv, DoneIsFresh
  <1> QED BY <1>1, Invariance, PTL

\* Update answers "not changed" to a PK only for data the PK has used.
THEOREM FalseIsUnchanged == Spec => []FalseMeansUnchanged
  <1>1. IInv => FalseMeansUnchanged
    <2> SUFFICES ASSUME IInv, ret # NoRet PROVE ret.node \in used[ret.client]
      BY DEF FalseMeansUnchanged
    <2>1. ret.node \in Nodes /\ ret.client \in ClientReqs /\ ret.client \in requests[ret.node]
      BY ReturnTypes DEF IInv, Calling, RetIsDone
    <2> QED BY <2>1 DEF IInv, ServedHasUsed
  <1> QED BY <1>1, Invariance, PTL

\* No field is evaluated twice in one request, however many paths lead to it.
THEOREM EvaluatedOnce == Spec => EvaluatedOncePerCall
  <1>1. IInv => \A n \in done :
          ~(UpdateIndependent(n) \/ UpdateSecondary(n) \/ UpdateDerivative(n))
    BY DoneDoesNotEvaluate DEF IInv
  <1> QED BY <1>1, Invariance, PTL DEF Spec, EvaluatedOncePerCall

\* A PK, or a secondary evaluator, that has used the present value of a field
\* stays on the field's list of served requesters: it is not told "changed"
\* for data it has, whatever the other requesters do.
THEOREM StaysServed == Spec => []ServedStaysServed
  <1>1. Init => ServedStaysServed
    BY NodesApart DEF Init, ServedStaysServed
  <1>2. IInv /\ ServedStaysServed /\ [Next]_vars => ServedStaysServed'
    BY NextKeepsServed DEF IInv
  <1> QED BY <1>1, <1>2, Invariance, PTL DEF Spec

-----------------------------------------------------------------------------
(* Why a request ends.  Liveness itself is left to TLC; what it rests on   *)
(* is stated of the states and the steps.                                  *)

\* What the frame of n has still to do: its calls, and its return.
Left(n) == IF n \in active THEN {n} \cup todo[n] ELSE {}

\* A step takes something from one frame and leaves those of the same or a higher
\* rank alone; it may add frames of a lower rank only.
Descends ==
  \E n \in active :
    /\ Left(n)' \subseteq Left(n) /\ Left(n)' # Left(n)
    /\ \A m \in Nodes \ {n} : NRank(m) >= NRank(n) => Left(m)' = Left(m)

LEMMA CallDescends ==
  ASSUME Calling, NEW d \in Nodes, Call(d)
  PROVE  Descends
  <1>0. PICK t : t = top
    OBVIOUS
  <1>1. /\ t \in active /\ t \in Nodes /\ d \in todo[t] /\ d \in Calls(t)
        /\ active \subseteq Nodes /\ todo \in [Nodes -> SUBSET Nodes]
    <2>1. d \in NextCalls(top) /\ top # Idle
      BY DEF Call
    <2>2. NextCalls(top) \subseteq todo[top]
      BY DEF NextCalls
    <2> QED BY <1>0, <2>1, <2>2 DEF Calling, TypeOK, Stack
  <1>2. NRank(d) < NRank(t) /\ NRank(d) \in Nat /\ NRank(t) \in Nat
    BY <1>1, CallsGoDown
  <1>3. d # t
    BY <1>2
  <1>4. /\ active' = active \cup {d}
        /\ todo' = [todo EXCEPT ![t] = @ \ {d}, ![d] = Calls(d)]
    BY <1>0 DEF Call, Push
  <1>5. todo'[t] = todo[t] \ {d} /\ \A m \in Nodes \ {t, d} : todo'[m] = todo[m]
    BY <1>1, <1>3, <1>4
  <1>6. Left(t)' = Left(t) \ {d} /\ d \in Left(t)
    BY <1>1, <1>3, <1>4, <1>5 DEF Left
  <1>7. ASSUME NEW m \in Nodes \ {t}, NRank(m) >= NRank(t) PROVE Left(m)' = Left(m)
    <2>1. m # d
      BY <1>2, <1>7
    <2> QED BY <1>4, <1>5, <2>1 DEF Left
  <1> QED BY <1>1, <1>6, <1>7 DEF Descends

LEMMA EvaluateDescends ==
  ASSUME Calling, NEW n \in Nodes, Evaluate(n)
  PROVE  Descends
  <1>1. PICK answer, evaluated : Served(n, answer, evaluated)
    BY EvaluateServes
  <1>2. n \in active /\ active' = active \ {n} /\ todo' = todo
    BY <1>1, TopFacts DEF Served, Return
  <1>3. Left(n)' = {} /\ n \in Left(n)
    BY <1>2 DEF Left
  <1>4. \A m \in Nodes \ {n} : Left(m)' = Left(m)
    BY <1>2 DEF Left
  <1> QED BY <1>2, <1>3, <1>4 DEF Descends

\* While a request is served every step takes something from the stack for good:
\* what a frame has to do only shrinks while it is there, a new frame is of a
\* lower rank than all the others, and no frame is entered twice.  In a finite
\* graph there are finitely many such steps.
THEOREM RequestsDescend == Spec => [][top # Idle => Descends]_vars
  <1>1. IInv /\ [Next]_vars => [top # Idle => Descends]_vars
    <2> SUFFICES ASSUME IInv, Next, top # Idle PROVE Descends
      OBVIOUS
    <2>1. PICK n \in Nodes : Call(n) \/ Evaluate(n)
      BY DEF Next, Step, Environment, Request, SetChanged, SetTime
    <2> QED BY <2>1, CallDescends, EvaluateDescends DEF IInv
  <1> QED BY <1>1, Invariance, PTL DEF Spec

\* A nonempty set of natural numbers has a least element.
LEMMA LeastPosition ==
  ASSUME NEW P \in SUBSET Nat, P # {}
  PROVE  \E p \in P : \A q \in P : p <= q
  <1>1. \E p \in P : \A q \in P : ~(<<q, p>> \in OpToRel(<, Nat))
    BY WFMin, NatLessThanWellFounded, Zenon
  <1>2. PICK p \in P : \A q \in P : ~(<<q, p>> \in OpToRel(<, Nat))
    BY <1>1
  <1>3. ASSUME NEW q \in P PROVE p <= q
    <2>1. ~(q < p)
      <3>1. SUFFICES ASSUME q < p PROVE <<q, p>> \in OpToRel(<, Nat)
        BY <1>2
      <3> QED BY <3>1, Zenon DEF OpToRel
    <2> QED BY <2>1
  <1> QED BY <1>3

\* A nonempty set of nodes has one that comes first in the order of the keys.
LEMMA OneComesFirst ==
  ASSUME NEW T \in SUBSET Nodes, T # {}
  PROVE  \E m \in T : \A x \in T : Position[KeyOf(m)] <= Position[KeyOf(x)]
  <1>1. \A n \in Nodes : Position[KeyOf(n)] \in Nat
    BY NodesApart, KeysAssumption, DepsAssumption DEF Keys
  <1> DEFINE P == {Position[KeyOf(n)] : n \in T}
  <1>2. PICK p \in P : \A q \in P : p <= q
    <2>1. P \in SUBSET Nat /\ P # {}
      BY <1>1
    <2> QED BY <2>1, LeastPosition
  <1> QED BY <1>2

\* A request never gets stuck: the frame that runs can make its next call, or has
\* made them all and can return.
THEOREM RequestsGoOn == Spec => [](top # Idle => NextCalls(top) # {} \/ todo[top] = {})
  <1>1. IInv => (top # Idle => NextCalls(top) # {} \/ todo[top] = {})
    <2> SUFFICES ASSUME IInv, top # Idle, todo[top] # {} PROVE NextCalls(top) # {}
      OBVIOUS
    <2>1. todo[top] \in SUBSET Nodes
      BY DEF IInv, Calling, TypeOK
    <2>2. PICK m \in todo[top] :
            \A x \in todo[top] : Position[KeyOf(m)] <= Position[KeyOf(x)]
      BY <2>1, OneComesFirst
    <2> QED BY <2>2 DEF NextCalls
  <1> QED BY <1>1, Invariance, PTL

-----------------------------------------------------------------------------
(* The theorems for evaluations that fail                                  *)

\* The inductive invariant of the recovering program: whoever is on a list
\* without having used the data is above something in doubt.
THEOREM RecoveryInvariance == RSpec => []RIInv
  BY InitRecovery, NextKeepsRecovery, PTL DEF RSpec

\* After a failed evaluation, as soon as a primary field below each node that
\* was under way has been marked as changed, whatever order the PKs ask in, all
\* that Update returns is up to date.
THEOREM RecoveredAreCurrent == RSpec => []RecoveredDataAreCurrent
  <1>1. RIInv => RecoveredDataAreCurrent
    <2> SUFFICES ASSUME RIInv, ret # NoRet, Cone[ret.node] \cap broken = {},
                        NEW m \in Cone[ret.node]
                 PROVE  Fresh(m)
      BY DEF RecoveredDataAreCurrent
    <2>1. ret.node \in Nodes /\ m \in Nodes /\ m \in done /\ DoneIsServed
      BY ReturnTypes, ConeIsTransitive, NothingIsSuspect DEF RIInv, Calling
    <2>2. ASSUME NEW x \in Cone[ret.node] PROVE Calls(x) \subseteq used[x]
      <3>1. x \in Nodes /\ x \in done /\ ~Suspect(x)
        BY <2>1, ConeIsTransitive, NothingIsSuspect
      <3> QED BY <2>1, <3>1 DEF RIInv, ServedOrSuspect, DoneIsServed
    <2>3. Uses(m) \subseteq used[m]
      <3>1. CASE ~IsDeriv(m)
        BY <2>1, <2>2, <3>1, UsesAreCalls
      <3>2. CASE IsDeriv(m)
        <4> DEFINE own == Value(KeyOf(m))
        <4>1. own \in Calls(m) /\ Uses(m) = Calls(m) \cup Calls(own)
          BY <2>1, <3>2, UsesAreCalls
        <4>2. own \in Cone[ret.node]
          BY <2>1, <4>1, ConeIsClosed
        <4>3. own \in used[m] => used[own] \subseteq used[m]
          BY <3>2 DEF RIInv, Calling, DerivUsesValue, IsDeriv
        <4> HIDE DEF own
        <4> QED BY <2>2, <4>1, <4>2, <4>3
      <3> QED BY <3>1, <3>2
    <2> QED BY <2>1, <2>3 DEF Fresh, DoneIsServed
  <1> QED BY <1>1, RecoveryInvariance, PTL

\* ... and Update answers "not changed" to a PK only for data the PK has used.
THEOREM RecoveredFalseIsUnchanged == RSpec => []RecoveredFalseMeansUnchanged
  <1>1. RIInv => RecoveredFalseMeansUnchanged
    <2> SUFFICES ASSUME RIInv, ret # NoRet, Cone[ret.node] \cap broken = {}
                 PROVE  ret.node \in used[ret.client]
      BY DEF RecoveredFalseMeansUnchanged
    <2>1. ret.node \in Nodes /\ ret.client \in ClientReqs /\ ret.client \in requests[ret.node]
      BY ReturnTypes DEF RIInv, Calling, RetIsDone
    <2>2. ~Suspect(ret.node)
      BY <2>1, ConeIsClosed, NothingIsSuspect
    <2> QED BY <2>1, <2>2 DEF RIInv, ServedOrSuspect
  <1> QED BY <1>1, RecoveryInvariance, PTL

\* A failure costs nobody his place on the lists: who has used the present
\* data is still not told "changed" for nothing.
THEOREM FailuresKeepServed == RSpec => []ServedStaysServed
  <1>1. RInit => ServedStaysServed
    BY NodesApart DEF RInit, Init, ServedStaysServed
  <1>2. RIInv /\ ServedStaysServed /\ [RNext]_rvars => ServedStaysServed'
    <2> SUFFICES ASSUME RIInv, ServedStaysServed, [RNext]_rvars PROVE ServedStaysServed'
      OBVIOUS
    <2>1. CASE [Next]_vars
      BY <2>1, NextKeepsServed DEF RIInv
    <2>2. ASSUME NEW n \in Nodes, Throw(n) PROVE ServedStaysServed'
      <3>1. \A r \in ClientReqs \cup ValueNodes : used'[r] \subseteq used[r]
        BY <2>2, NodesApart DEF Throw
      <3>2. requests' = requests
        BY <2>2 DEF Throw
      <3> QED BY <3>1, <3>2 DEF ServedStaysServed
    <2> QED BY <2>1, <2>2, RNextIsNext
  <1> QED BY <1>1, <1>2, RecoveryInvariance, PTL DEF RSpec

\* No field is evaluated twice in one request, after failures as well.
THEOREM RecoveredOnce == RSpec => EvaluatedOncePerCall
  <1>1. RIInv /\ [RNext]_rvars =>
          [\A n \in done :
             ~(UpdateIndependent(n) \/ UpdateSecondary(n) \/ UpdateDerivative(n))]_vars
    BY DoneDoesNotEvaluate DEF RIInv
  <1> QED BY <1>1, RecoveryInvariance, PTL DEF RSpec, EvaluatedOncePerCall
=============================================================================
