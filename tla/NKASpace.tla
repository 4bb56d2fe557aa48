------------------------------ MODULE NKASpace ------------------------------
(***************************************************************************)
(* What a nonlinear Krylov accelerator promises (src/src/solvers/          *)
(* NKA_Base.hh, file comment and the comments of Correction): it keeps a   *)
(* short memory of pairs, a change of the residual and the step that made  *)
(* it, newest first, and one candidate, the step it has just returned.     *)
(* The next residual turns the candidate into the newest pair or discards  *)
(* it; older pairs may be forgotten, the newest never; when a new          *)
(* candidate is taken there are at most MVec pairs.                        *)
(***************************************************************************)
EXTENDS Integers, SequencesExt

CONSTANTS MVec,        \* mvec_: pairs kept at most
          Residuals,   \* the residuals the accelerator is given
          Steps        \* the steps a residual may be the effect of

VARIABLES space,       \* the pairs, newest first
          candidate    \* the step waiting for its effect, or None

vars == <<space, candidate>>

Pair(w, v) == [w |-> w, v |-> v]
None == Pair(<<>>, <<>>)

Init == space = <<>> /\ candidate = None

Restart == space' = <<>> /\ candidate' = None

Propose(f, d) ==
    /\ candidate = None
    /\ Len(space) <= MVec
    /\ candidate' = Pair(<<f>>, d)
    /\ UNCHANGED space

Discard ==
    /\ candidate # None
    /\ candidate' = None
    /\ UNCHANGED space

(* The step that was really taken, d, may not be the one proposed.         *)
Accept(f, d) ==
    /\ candidate # None
    /\ space' = Cons(Pair(Append(candidate.w, f), d), space)
    /\ candidate' = None

Forget(n) ==
    /\ candidate = None
    /\ n > 1
    /\ space' = RemoveAt(space, n)
    /\ UNCHANGED candidate

Next ==
    \/ Restart
    \/ Discard
    \/ \E f \in Residuals, d \in Steps : Propose(f, d) \/ Accept(f, d)
    \/ \E n \in 1..Len(space) : Forget(n)

Spec == Init /\ [][Next]_vars
=============================================================================
