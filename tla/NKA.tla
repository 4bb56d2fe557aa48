-------------------------------- MODULE NKA --------------------------------
(***************************************************************************)
(* The nonlinear Krylov accelerator, class NKA_Base in                     *)
(* src/src/solvers/NKA_Base.hh: MVec + 1 slots for pairs of vectors, kept  *)
(* in a doubly linked list and a free list by index, and the matrix h_     *)
(* with the inner products above its diagonal and their Cholesky factors   *)
(* on it and below.  Correction is a call of several steps here, one for   *)
(* each turn of its loops that changes the lists.                          *)
(*                                                                         *)
(* Of a vector only its origin is kept: a residual is the number of the    *)
(* iterate it belongs to, a difference the numbers of both, a step the     *)
(* iterate it started from and how it was made.  What a slot outside the   *)
(* list holds is not kept, nothing reads it.                               *)
(***************************************************************************)
EXTENDS Integers, SequencesExt

CONSTANTS MVec       \* mvec_, at least 1 by NKA_Base.hh:115

ASSUME MVecAssumption == MVec \in Nat \ {0}

EOL == -1            \* NKA_EOL
Slot == 0..MVec
Link == Slot \cup {EOL}

VARIABLES
    first, last, free,   \* first_v_, last_v_, free_v_
    next, prev,          \* next_v_, prev_v_
    subspace, pending,   \* subspace_, pending_
    w, v,                \* w_, v_: the origin of the vectors in each slot
    h,                   \* h_: what its entries have been computed from
    call,                \* where a call of Correction is
    k, nvec,             \* the loop variable and the counter of that call
    list, spare          \* the sequences the two chains of links spell out

lists == <<first, last, free, next, prev, list, spare>>
data == <<w, v, h>>
accelerator == <<lists, data, subspace, pending, call, k, nvec>>

(* An entry of h_ is stale when one of the vectors it was computed from is *)
(* gone, the product of its two vectors, or the factor that depends on the *)
(* vectors of the list as far as its column.                               *)
Stale == <<>>
Product == <<EOL>>
AllStale == [r \in Slot |-> [c \in Slot |-> Stale]]
Factor(n) == SubSeq(list, 1, n)

(* The row of h_ that a turn of the factorisation writes for vector s, as  *)
(* far as column n of the list.                                            *)
RowOf(s, n) ==
    [h EXCEPT ![s] = [c \in Slot |->
        IF \E i \in 1..n : list[i] = c
          THEN Factor(CHOOSE i \in 1..n : list[i] = c) ELSE h[s][c]]]
-----------------------------------------------------------------------------
(* The constructor leaves the three list heads as they were in memory.     *)
InitAccelerator ==
    /\ first \in Link /\ last \in Link /\ free \in Link
    /\ next = [s \in Slot |-> EOL]
    /\ prev = [s \in Slot |-> EOL]
    /\ subspace = FALSE /\ pending = FALSE
    /\ w = [s \in Slot |-> <<>>]
    /\ v = [s \in Slot |-> <<>>]
    /\ h = AllStale
    /\ call = "idle" /\ k = EOL /\ nvec = 0
    /\ list = <<>> /\ spare = <<>>

EmptyLists ==
    /\ first' = EOL /\ last' = EOL
    /\ free' = 0
    /\ next' = [s \in Slot |-> IF s < MVec THEN s + 1 ELSE EOL]
    /\ list' = <<>>
    /\ spare' = [i \in 1..MVec + 1 |-> i - 1]
    /\ w' = [s \in Slot |-> <<>>]
    /\ v' = [s \in Slot |-> <<>>]
    /\ h' = AllStale
    /\ UNCHANGED prev

Restart ==
    /\ call = "idle"
    /\ EmptyLists
    /\ subspace' = FALSE /\ pending' = FALSE
    /\ UNCHANGED <<call, k, nvec>>

(* Restart followed by the start of a Correction, which finds no pending   *)
(* pair and goes straight to the saving of the new one.                    *)
RestartedCorrection ==
    /\ call = "idle"
    /\ EmptyLists
    /\ subspace' = FALSE /\ pending' = FALSE
    /\ call' = "save"
    /\ UNCHANGED <<k, nvec>>

(* Variant for checking: the tossed slot is not returned to the free list. *)
RelaxLosingSlot ==
    /\ first' = next[first]
    /\ IF next[first] = EOL
         THEN last' = EOL /\ UNCHANGED prev
         ELSE prev' = [prev EXCEPT ![next[first]] = EOL] /\ UNCHANGED last
    /\ pending' = FALSE
    /\ list' = Tail(list)
    /\ UNCHANGED <<next, free, spare>>

(* Relax, for the pending pair whose residual did not change (s == 0).     *)
Relax ==
    /\ first' = next[first]
    /\ IF next[first] = EOL
         THEN last' = EOL /\ UNCHANGED prev
         ELSE prev' = [prev EXCEPT ![next[first]] = EOL] /\ UNCHANGED last
    /\ next' = [next EXCEPT ![first] = free]
    /\ free' = first
    /\ pending' = FALSE
    /\ list' = Tail(list)
    /\ spare' = Cons(first, spare)

(* Correction on a list without a pending pair.                            *)
NothingPending ==
    /\ call = "idle" /\ ~pending
    /\ call' = "save"
    /\ UNCHANGED <<lists, data, subspace, pending, k, nvec>>

Toss ==
    /\ call = "idle" /\ pending
    /\ Relax
    /\ w' = [w EXCEPT ![first] = <<>>]
    /\ v' = [v EXCEPT ![first] = <<>>]
    /\ call' = "save"
    /\ UNCHANGED <<h, subspace, k, nvec>>

(* Variant for checking: the step that was proposed is kept, not the one   *)
(* that was applied.                                                       *)
AcceptProposed(f, old) ==
    /\ call = "idle" /\ pending
    /\ w[first] # <<f>>
    /\ w' = [w EXCEPT ![first] = Append(@, f)]
    /\ h' = [h EXCEPT ![first] = [c \in Slot |->
               IF c = first THEN <<first>>
               ELSE IF \E i \in 2..Len(list) : list[i] = c THEN Product
               ELSE h[first][c]]]
    /\ k' = next[first]
    /\ nvec' = 1
    /\ call' = "factor"
    /\ UNCHANGED <<lists, v, subspace, pending>>

(* The pending residual becomes a difference; the step is replaced by the  *)
(* one the caller has applied, both are scaled alike, and the new row of   *)
(* inner products is computed.  Only a changed residual gets here.         *)
Accept(f, old) ==
    /\ call = "idle" /\ pending
    /\ w[first] # <<f>>
    /\ w' = [w EXCEPT ![first] = Append(@, f)]
    /\ v' = [v EXCEPT ![first] = old]
    /\ h' = [h EXCEPT ![first] = [c \in Slot |->
               IF c = first THEN <<first>>
               ELSE IF \E i \in 2..Len(list) : list[i] = c THEN Product
               ELSE h[first][c]]]
    /\ k' = next[first]
    /\ nvec' = 1
    /\ call' = "factor"
    /\ UNCHANGED <<lists, subspace, pending>>
-----------------------------------------------------------------------------
(* One turn of the factorisation for vector k.  The row is written before  *)
(* its diagonal tells whether the vector is kept.                          *)
Factored ==
    /\ call = "factor" /\ k # EOL
    /\ nvec + 1 <= MVec
    /\ h' = RowOf(k, nvec + 1)
    /\ k' = next[k]
    /\ nvec' = nvec + 1
    /\ UNCHANGED <<lists, w, v, subspace, pending, call>>

(* Variants for checking: the last vector is dropped and last_v_ not       *)
(* moved; the loop does not back up and goes on from the freed slot; the   *)
(* newest vector is dropped instead of the one that depends on it.         *)
DropDependentKeepsLast ==
    /\ call = "factor" /\ k # EOL
    /\ nvec + 1 <= MVec
    /\ h' = RowOf(k, nvec)
    /\ next' = [next EXCEPT ![prev[k]] = next[k], ![k] = free]
    /\ IF next[k] = EOL
         THEN UNCHANGED prev
         ELSE prev' = [prev EXCEPT ![next[k]] = prev[k]]
    /\ free' = k
    /\ list' = RemoveAt(list, nvec + 1)
    /\ spare' = Cons(k, spare)
    /\ w' = [w EXCEPT ![k] = <<>>]
    /\ v' = [v EXCEPT ![k] = <<>>]
    /\ k' = next[k]
    /\ UNCHANGED <<first, last, nvec, subspace, pending, call>>

DropDependentWithoutBackup ==
    /\ call = "factor" /\ k # EOL
    /\ nvec + 1 <= MVec
    /\ h' = RowOf(k, nvec)
    /\ next' = [next EXCEPT ![prev[k]] = next[k], ![k] = free]
    /\ IF next[k] = EOL
         THEN last' = prev[k] /\ UNCHANGED prev
         ELSE prev' = [prev EXCEPT ![next[k]] = prev[k]] /\ UNCHANGED last
    /\ free' = k
    /\ list' = RemoveAt(list, nvec + 1)
    /\ spare' = Cons(k, spare)
    /\ w' = [w EXCEPT ![k] = <<>>]
    /\ v' = [v EXCEPT ![k] = <<>>]
    /\ k' = free
    /\ UNCHANGED <<first, nvec, subspace, pending, call>>

DropNewest ==
    /\ call = "factor" /\ k # EOL
    /\ nvec + 1 <= MVec
    /\ h' = RowOf(k, nvec)
    /\ first' = next[first]
    /\ prev' = [prev EXCEPT ![next[first]] = EOL]
    /\ next' = [next EXCEPT ![first] = free]
    /\ free' = first
    /\ list' = Tail(list)
    /\ spare' = Cons(first, spare)
    /\ w' = [w EXCEPT ![first] = <<>>]
    /\ v' = [v EXCEPT ![first] = <<>>]
    /\ k' = next[k]
    /\ UNCHANGED <<last, nvec, subspace, pending, call>>

DropDependent ==
    /\ call = "factor" /\ k # EOL
    /\ nvec + 1 <= MVec
    /\ h' = RowOf(k, nvec)
    /\ next' = [next EXCEPT ![prev[k]] = next[k], ![k] = free]
    /\ IF next[k] = EOL
         THEN last' = prev[k] /\ UNCHANGED prev
         ELSE prev' = [prev EXCEPT ![next[k]] = prev[k]] /\ UNCHANGED last
    /\ free' = k
    /\ list' = RemoveAt(list, nvec + 1)
    /\ spare' = Cons(k, spare)
    /\ w' = [w EXCEPT ![k] = <<>>]
    /\ v' = [v EXCEPT ![k] = <<>>]
    /\ k' = next[k]
    /\ UNCHANGED <<first, nvec, subspace, pending, call>>

DropLast ==
    /\ call = "factor" /\ k # EOL
    /\ nvec + 1 > MVec
    /\ next' = [next EXCEPT ![last] = free, ![prev[k]] = EOL]
    /\ free' = k
    /\ last' = prev[k]
    /\ list' = RemoveAt(list, nvec + 1)
    /\ spare' = Cons(k, spare)
    /\ w' = [w EXCEPT ![k] = <<>>]
    /\ v' = [v EXCEPT ![k] = <<>>]
    /\ subspace' = TRUE
    /\ call' = "save"
    /\ nvec' = nvec + 1
    /\ UNCHANGED <<first, prev, h, pending, k>>

AllFactored ==
    /\ call = "factor" /\ k = EOL
    /\ subspace' = TRUE
    /\ call' = "save"
    /\ UNCHANGED <<lists, data, pending, k, nvec>>

(* The end of Correction: the residual f and the step d it returns are     *)
(* kept in a free slot at the head of the list.                            *)
Save(f, d) ==
    /\ call = "save"
    /\ free' = next[free]
    /\ next' = [next EXCEPT ![free] = first]
    /\ IF first = EOL
         THEN prev' = [prev EXCEPT ![free] = EOL] /\ last' = free
         ELSE prev' = [prev EXCEPT ![free] = EOL, ![first] = free] /\ UNCHANGED last
    /\ first' = free
    /\ w' = [w EXCEPT ![free] = <<f>>]
    /\ v' = [v EXCEPT ![free] = d]
    /\ h' = [r \in Slot |-> [c \in Slot |->
               IF free \in {r, c} \cup Range(h[r][c]) THEN Stale ELSE h[r][c]]]
    /\ list' = Cons(free, list)
    /\ spare' = Tail(spare)
    /\ pending' = TRUE
    /\ call' = "idle"
    /\ UNCHANGED <<subspace, k, nvec>>
=============================================================================
