----------------------------- MODULE SolverNKA -----------------------------
(***************************************************************************)
(* The nonlinear solver SolverNKA (src/src/solvers/SolverNKA.hh, NKA_) on  *)
(* top of its accelerator.  A Solve repeats: residual, preconditioner,     *)
(* accelerated correction, a chance for the process kernel to modify it, a *)
(* second chance with an emptied accelerator when it grew too much, and    *)
(* the update of the solution.  Norms are not computed: what a comparison  *)
(* of norms may answer is open, within what the code excludes.             *)
(***************************************************************************)
EXTENDS NKA

CONSTANTS
    MaxItrs,             \* max_itrs_
    LagIterations,       \* nka_lag_iterations_
    MaxDivergence,       \* max_divergence_count_
    MakeOneIteration,    \* make_one_iteration_, 0 or 1
    Monitors             \* what may be monitored: "residual", "update"

ASSUME SolverAssumption ==
    /\ MaxItrs \in Nat \ {0}
    /\ LagIterations \in Nat
    /\ MaxDivergence \in Nat \ {0}
    /\ MakeOneIteration \in {0, 1}
    /\ Monitors \subseteq {"residual", "update"}

VARIABLES
    at,                  \* where NKA_ is
    itr,                 \* num_itrs_
    du,                  \* the correction: the iterate it is for, how it was made
    diverged,            \* divergence_count
    monitor,             \* monitor_
    result,              \* what Solve returned
    applied              \* history: the corrections applied in this Solve

control == <<at, itr, diverged, monitor, result, applied>>
vars == <<accelerator, control, du>>

Made == {"picard", "nka", "hacked"}
Corrections == (0..MaxItrs) \X Made
NoCorrection == <<>>
-----------------------------------------------------------------------------
Init ==
    /\ InitAccelerator
    /\ at = "new" /\ itr = 0 /\ du = NoCorrection
    /\ diverged = 0
    /\ monitor \in Monitors
    /\ result = "none" /\ applied = <<>>

Return(r) == at' = "returned" /\ result' = r

(* A new Solve flushes the accelerator; du starts as a copy of u.          *)
Solve ==
    /\ at \in {"new", "returned"}
    /\ Restart
    /\ at' = "iterate" /\ itr' = 0 /\ diverged' = 0
    /\ du' = NoCorrection
    /\ result' = "none" /\ applied' = <<>>
    /\ UNCHANGED monitor

TooManyIterations ==
    /\ at = "iterate" /\ itr >= MaxItrs
    /\ Return("failed")
    /\ UNCHANGED <<accelerator, itr, du, diverged, monitor, applied>>

(* The residual or the preconditioned residual overflows, or the monitored *)
(* residual grows or stagnates.                                            *)
ResidualFails ==
    /\ at = "iterate" /\ itr < MaxItrs
    /\ itr > 0 \/ monitor = "residual"
    /\ Return("failed")
    /\ UNCHANGED <<accelerator, itr, du, diverged, monitor, applied>>

ResidualConverged ==
    /\ at = "iterate" /\ itr < MaxItrs
    /\ monitor = "residual" /\ itr >= MakeOneIteration
    /\ Return("converged")
    /\ UNCHANGED <<accelerator, itr, du, diverged, monitor, applied>>

(* Iteration 0 is within nka_lag_space_ and takes the preconditioned       *)
(* residual itself.                                                        *)
FirstCorrection ==
    /\ at = "iterate" /\ itr < MaxItrs
    /\ itr = 0
    /\ du' = <<itr, "picard">>
    /\ at' = "modify"
    /\ UNCHANGED <<accelerator, itr, diverged, monitor, result, applied>>

BeginCorrection ==
    /\ at = "iterate" /\ itr < MaxItrs
    /\ itr > 0
    /\ NothingPending \/ Toss \/ Accept(itr, du)
    /\ at' = "correcting"
    /\ UNCHANGED <<itr, du, diverged, monitor, result, applied>>

FactorTurn ==
    /\ Factored \/ DropDependent \/ DropLast \/ AllFactored
    /\ UNCHANGED <<control, du>>

(* Without a subspace the correction is the preconditioned residual.       *)
Returned == <<itr, IF subspace THEN "nka" ELSE "picard">>

EndCorrection ==
    /\ at = "correcting"
    /\ Save(itr, Returned)
    /\ du' = IF itr <= LagIterations THEN <<itr, "picard">> ELSE Returned
    /\ at' = "modify"
    /\ UNCHANGED <<itr, diverged, monitor, result, applied>>

NotModified ==
    /\ at = "modify"
    /\ at' = "growth"
    /\ UNCHANGED <<accelerator, itr, du, diverged, monitor, result, applied>>

Modified ==
    /\ at = "modify"
    /\ Restart
    /\ du' = <<itr, "hacked">>
    /\ at' = "growth"
    /\ UNCHANGED <<itr, diverged, monitor, result, applied>>

(* The first correction is too large for the solution ("diverged l2        *)
(* tolerance").                                                            *)
FirstOverflows ==
    /\ at = "growth" /\ itr = 0
    /\ Return("failed")
    /\ UNCHANGED <<accelerator, itr, du, diverged, monitor, applied>>

Grown ==
    /\ at = "growth" /\ itr > 0
    /\ RestartedCorrection
    /\ at' = "recovering"
    /\ UNCHANGED <<itr, du, diverged, monitor, result, applied>>

NotGrown ==
    /\ at = "growth"
    /\ at' = "compare"
    /\ UNCHANGED <<accelerator, itr, du, diverged, monitor, result, applied>>

(* Variant for checking: the recovered correction may be modified too.     *)
EndRecoveryModified ==
    /\ at = "recovering"
    /\ Save(itr, Returned)
    /\ du' = Returned
    /\ at' = "modify"
    /\ UNCHANGED <<itr, diverged, monitor, result, applied>>

EndRecovery ==
    /\ at = "recovering"
    /\ Save(itr, Returned)
    /\ du' = Returned
    /\ at' = "regrowth"
    /\ UNCHANGED <<itr, diverged, monitor, result, applied>>

GrownAgain ==
    /\ at = "regrowth"
    /\ Return("failed")
    /\ UNCHANGED <<accelerator, itr, du, diverged, monitor, applied>>

Recovered ==
    /\ at = "regrowth"
    /\ at' = "compare"
    /\ UNCHANGED <<accelerator, itr, du, diverged, monitor, result, applied>>

(* The norm of the correction against the one before.                      *)
Diverging ==
    /\ at = "compare" /\ itr > 0
    /\ diverged' = diverged + 1
    /\ IF diverged' = MaxDivergence THEN Return("failed")
                                    ELSE at' = "update" /\ UNCHANGED result
    /\ UNCHANGED <<accelerator, itr, du, monitor, applied>>

NotDiverging ==
    /\ at = "compare"
    /\ diverged' = 0
    /\ at' = "update"
    /\ UNCHANGED <<accelerator, itr, du, monitor, result, applied>>

(* u = u - du, and the control of the error when the update is monitored.  *)
Update ==
    /\ at = "update"
    /\ applied' = Append(applied, du)
    /\ itr' = itr + 1
    /\ \/ at' = "iterate" /\ UNCHANGED result
       \/ monitor = "update" /\ \E r \in {"converged", "failed"} : Return(r)
    /\ UNCHANGED <<accelerator, du, diverged, monitor>>

Step ==
    \/ TooManyIterations \/ ResidualFails \/ ResidualConverged
    \/ FirstCorrection \/ BeginCorrection \/ FactorTurn \/ EndCorrection
    \/ NotModified \/ Modified
    \/ FirstOverflows \/ Grown \/ NotGrown \/ EndRecovery \/ GrownAgain \/ Recovered
    \/ Diverging \/ NotDiverging
    \/ Update

Next == Solve \/ Step

(* Solve is called from outside; once called it runs without waiting.      *)
Spec == Init /\ [][Next]_vars
FairSpec == Spec /\ WF_vars(Step)
-----------------------------------------------------------------------------
TypeOK ==
    /\ {first, last, free, k} \subseteq Link
    /\ next \in [Slot -> Link] /\ prev \in [Slot -> Link]
    /\ subspace \in BOOLEAN /\ pending \in BOOLEAN
    /\ \A s \in Slot : Len(w[s]) <= 2 /\ Range(w[s]) \subseteq 0..MaxItrs
    /\ \A s \in Slot : v[s] \in Corrections \cup {NoCorrection}
    /\ \A r, c \in Slot : Range(h[r][c]) \subseteq Link
    /\ call \in {"idle", "factor", "save"} /\ nvec \in 0..MVec + 1
    /\ at \in {"new", "iterate", "correcting", "modify", "growth", "recovering",
               "regrowth", "compare", "update", "returned"}
    /\ itr \in 0..MaxItrs /\ diverged \in 0..MaxDivergence
    /\ du \in Corrections \cup {NoCorrection}
    /\ monitor \in Monitors /\ result \in {"none", "converged", "failed"}
    /\ Range(applied) \subseteq Corrections /\ Len(applied) = itr

HeadOf(s) == IF Len(s) = 0 THEN EOL ELSE s[1]
LastOf(s) == IF Len(s) = 0 THEN EOL ELSE s[Len(s)]
After(s, i) == IF i = Len(s) THEN EOL ELSE s[i + 1]

(* Following next_v_ from first_v_ and from free_v_ visits every slot once *)
(* and prev_v_ leads back: no sequence of insertions, of drops from the    *)
(* middle, from the end and of the newest, and of restarts loses a slot,   *)
(* puts one in both lists or makes a cycle.                                *)
Linked ==
    at # "new" =>
    /\ first = HeadOf(list) /\ last = LastOf(list) /\ free = HeadOf(spare)
    /\ \A i \in 1..Len(list) : next[list[i]] = After(list, i)
    /\ \A i \in 1..Len(spare) : next[spare[i]] = After(spare, i)
    /\ \A i \in 2..Len(list) : prev[list[i]] = list[i - 1]
    /\ Len(list) + Len(spare) = MVec + 1
    /\ \A s \in Slot : \/ \E i \in 1..Len(list) : list[i] = s
                      \/ \E i \in 1..Len(spare) : spare[i] = s

(* The assertions of NKA_Base.hh:143, 192, 282, 311, 329 and 338: there is *)
(* a free slot whenever a pair is saved, the vector dropped because there  *)
(* are too many is the last one, the one dropped because it depends on the *)
(* others has one before it.                                               *)
AssertionsHold ==
    at # "new" =>
    /\ pending \/ call = "factor" => first # EOL
    /\ call = "save" => free # EOL
    /\ call = "factor" /\ k # EOL => prev[k] # EOL
    /\ call = "factor" /\ k # EOL /\ nvec + 1 > MVec => last = k

(* The factorisation and the two substitutions read only entries of h_     *)
(* that belong to the vectors now in the list and to their present order,  *)
(* whatever slots have been dropped and filled again in between, also when *)
(* the newest vector has been tossed and an earlier factorisation is used. *)
ReadsFit ==
    /\ call = "factor" /\ k # EOL /\ nvec + 1 <= MVec =>
         /\ \A i \in 1..nvec : h[list[i]][k] = Product
         /\ \A j \in 1..nvec : \A i \in 1..j : h[list[j]][list[i]] = Factor(i)
    /\ call = "save" /\ subspace =>
         \A j \in 1..Len(list) : \A i \in 1..j : h[list[j]][list[i]] = Factor(i)

(* A pair of the subspace is a correction that was applied and the change  *)
(* of the preconditioned residual from the iterate it was applied to to    *)
(* the next one: lagged, modified and regrown corrections never leave the  *)
(* proposed step, or two steps, against one difference.                    *)
PairsMatch ==
    \A i \in DOMAIN list :
        LET s == list[i]
        IN  IF i = 1 /\ pending /\ call = "idle"
              THEN Len(w[s]) = 1
              ELSE \E n \in 1..Len(applied) : w[s] = <<n - 1, n>> /\ v[s] = applied[n]

(* The lists implement the memory of pairs of NKASpace, with the pair that *)
(* is waiting for its residual as the candidate.                           *)
Waiting == pending /\ call = "idle"
Held(s) == [w |-> w[s], v |-> v[s]]
Stored == [i \in DOMAIN list |-> Held(list[i])]
Space == IF Waiting THEN Tail(Stored) ELSE Stored
Candidate == IF Waiting THEN Held(first) ELSE [w |-> <<>>, v |-> <<>>]
Memory ==
    INSTANCE NKASpace WITH
        Residuals <- 0..MaxItrs,
        Steps <- Corrections,
        space <- Space,
        candidate <- Candidate
ImplementsMemory == Memory!Spec

(* Every Solve ends.                                                       *)
Terminates == at \notin {"new", "returned"} ~> at = "returned"
=============================================================================
