------------------------- MODULE EvaluatorRecovery -------------------------
(***************************************************************************)
(* EvaluatorDag when the evaluation of a field can fail: Update_ throws    *)
(* CutTimestep (an equation of state out of its range, pks/eos/EOS_Utils)  *)
(* and the whole stack of frames unwinds to BDF1_TI::AdvanceStep, or to    *)
(* the PK, which gives the step up and restores its primary fields.        *)
(*                                                                         *)
(* What the unwinding leaves behind is not undone: updated_once_ is set,   *)
(* the requests that the frames made of their dependencies count as        *)
(* served, and the local "update" that said so is gone.                    *)
(***************************************************************************)
EXTENDS EvaluatorDag

\* History: the nodes whose evaluation was thrown away, until a primary field
\* below them is marked as changed or they are evaluated after all.
VARIABLE broken

rvars == <<vars, broken>>

\* Update_ or UpdateDerivative_ of n throws; it may have overwritten its data.
Throw(n) ==
  /\ top = n /\ todo[n] = {}
  /\ \/ IsSecondary(n) /\ MustEvaluate(n)
     \/ IsDeriv(n) /\ changed[n]
  /\ computed' = IF IsSecondary(n) THEN computed \cup {KeyOf(n)} ELSE computed
  /\ active' = {} /\ top' = Idle
  /\ caller' = [m \in Nodes |-> Idle]
  /\ todo' = [m \in Nodes |-> {}]
  /\ changed' = [m \in Nodes |-> FALSE]
  /\ used' = [x \in Requesters |-> IF x = n THEN {} ELSE used[x] \ {n}]
  /\ done' = {} /\ ret' = NoRet
  /\ broken' = broken \cup active
  /\ UNCHANGED <<requests, stamp, time>>

\* Faulty: the primary field is restored, and its evaluator not told.
RestoreUnmarked(p) ==
  /\ top = Idle
  /\ requests' = requests
  /\ used' = [x \in Requesters |-> used[x] \ {Value(p)}]
  /\ done' = {} /\ ret' = NoRet
  /\ broken' = broken \ {n \in Nodes : Value(p) \in Cone[n]}
  /\ UNCHANGED <<computed, stamp, time, caller, todo, changed, active, top>>

\* A PK writes a primary field: a new iterate, or StateArchive::Restore after a
\* failure.  The written field is marked as changed in either case.
Restore(p) ==
  /\ SetChanged(p)
  /\ broken' = broken \ {n \in Nodes : Value(p) \in Cone[n]}

RInit == Init /\ broken = {}

RStep ==
  \/ \E n \in Nodes : Call(n) /\ UNCHANGED broken
  \/ \E n \in Nodes : (UpdatePrimary(n) \/ KeepIndependent(n) \/ KeepSecondary(n)
                         \/ KeepDerivative(n)) /\ UNCHANGED broken
  \/ \E n \in Nodes : (UpdateIndependent(n) \/ UpdateSecondary(n) \/ UpdateDerivative(n))
                         /\ broken' = broken \ {n}
  \/ \E n \in Nodes : Throw(n)

REnvironment ==
  \/ \E c \in Clients, n \in Nodes : Request(c, n) /\ UNCHANGED broken
  \/ \E p \in Primary : Restore(p)
  \/ \E t \in Times : SetTime(t) /\ UNCHANGED broken

RNext == RStep \/ REnvironment
RSpec == RInit /\ [][RNext]_rvars

-----------------------------------------------------------------------------
\* After a failed evaluation, everything is as if it had not happened as soon
\* as some primary field below each node that was under way has been marked as
\* changed: whatever order the PKs ask in, and whatever was evaluated in
\* between, they get data that agree with the leaves ...
RecoveredDataAreCurrent ==
  ret # NoRet /\ Cone[ret.node] \cap broken = {} => \A m \in Cone[ret.node] : Fresh(m)

\* ... and are told of every change.
RecoveredFalseMeansUnchanged ==
  ret # NoRet /\ Cone[ret.node] \cap broken = {} /\ ~ret.answer
    => ret.node \in used[ret.client]

-----------------------------------------------------------------------------
(* The inductive invariant: Calling of EvaluatorDag, and these three        *)

\* x may rest on data that it has not seen, and something will tell it so: its
\* evaluation was thrown away, a dependency does not count it as served, or it
\* knows that it has to evaluate.
Doubtful(x) ==
  \/ x \in broken
  \/ \E y \in Calls(x) : x \notin requests[y]
  \/ x \in active /\ changed[x] /\ Calls(x) # {}

Suspect(n) == \E x \in Cone[n] : Doubtful(x)

\* A requester on a list has used the present data, or there is something in
\* doubt at or below the node: an update that reaches it will evaluate.
ServedOrSuspect ==
  /\ \A r \in ClientReqs, n \in Nodes : r \in requests[n] => n \in used[r] \/ Suspect(n)
  /\ \A m \in Nodes : \A n \in Calls(m) : m \in requests[n] => n \in used[m] \/ Suspect(m)

RIInv == Calling /\ broken \subseteq Nodes /\ ServedOrSuspect
=============================================================================
