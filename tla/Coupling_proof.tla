--------------------------- MODULE Coupling_proof ---------------------------
(***************************************************************************)
(* Proofs about Coupling, for every choice of steps, limits and couplers.  *)
(* IInv is shown inductive, one lemma for each of its parts and in it one  *)
(* step for each action; the safety properties follow from it.             *)
(***************************************************************************)
EXTENDS Coupling, TLAPS

LEMMA DivNat == ASSUME NEW a \in Nat, NEW b \in Nat \ {0} PROVE a \div b \in Nat
  OBVIOUS

LEMMA HalfIsLess == ASSUME NEW a \in Nat, a > 0 PROVE a \div 2 \in Nat /\ a \div 2 < a
  OBVIOUS

\* A solve changes the fields of its PK alone.
LEMMA SolvedFields ==
  ASSUME TypeOK, NEW p \in PKs, NEW d \in Nat, NEW c \in [PKs -> Nat]
  PROVE  /\ Solved(c, p, d) \in [PKs -> Nat]
         /\ Solved(c, p, d)[p] = (IF InPlace(p) THEN c[p] ELSE prev[p]) + d
         /\ \A q \in PKs : q # p => Solved(c, p, d)[q] = c[q]
  BY DEF Solved, TypeOK, PKs

\* So does the commit of its history.
LEMMA TickedHistory ==
  ASSUME TypeOK, NEW p \in PKs, NEW d \in Nat
  PROVE  Ticked(p, d) \in [PKs -> Nat]
  BY DEF Ticked, TypeOK, PKs

LEMMA InitInv == Init => IInv
<1> SUFFICES ASSUME Init PROVE IInv
  OBVIOUS
<1> USE CouplingAssumption DEF Init, PKs
<1>1. TypeOK
  <2>1. dt \in Nat
    BY DEF Least
  <2>2. content \in [PKs -> Nat] /\ want \in [PKs -> Nat]
    BY <2>1
  <2>3. /\ kind \in Kinds /\ pc \in Labels
        /\ time \in Nat /\ final \in Nat /\ inter \in Nat
        /\ minerals \in Nat /\ repeated \in Nat
        /\ itr \in 0 .. MaxItrs /\ done \in Nat /\ next \in Nat /\ cut \in Nat \ {0}
    BY DEF Labels
  <2>4. shifted \in BOOLEAN
    BY Zenon
  <2> QED
    BY <2>1, <2>2, <2>3, <2>4 DEF TypeOK
<1>2. StepShape
  BY DEF StepShape, Trying, Least
<1>3. CanGoBack /\ Finished /\ Reacted /\ Clocks /\ AsksLess
  BY DEF CanGoBack, Finished, Reacted, ReactedTo, Clocks, AsksLess, StartsFrom
<1> QED
  BY <1>1, <1>2, <1>3 DEF IInv


\* The type invariant.
LEMMA StepTypeOK == IInv /\ [Next]_vars => TypeOK'
<1> SUFFICES ASSUME IInv, [Next]_vars PROVE TypeOK'
  OBVIOUS
<1> USE CouplingAssumption DEF IInv, TypeOK, PKs, fields, chemistry, local,
      Labels, StepShape, Trying
<1>1. CASE StartStep
  BY <1>1 DEF StartStep
<1>2. CASE AcceptStep
  <2>1. GetDt \in Nat
    BY DivNat DEF GetDt, Least
  <2>2. dt' \in Nat /\ pc' \in Labels
    BY <1>2, <2>1 DEF AcceptStep, TakeDt, Least
  <2>3. prev' \in [PKs -> Nat]
    BY <1>2 DEF AcceptStep, Commit
  <2> QED
    BY <1>2, <2>2, <2>3 DEF AcceptStep
<1>3. CASE RefuseStep
  BY <1>3, DivNat, HalfIsLess DEF RefuseStep, TakeDt, GetDt, Least
<1>4. CASE Finish
  BY <1>4 DEF Finish
<1>5. CASE SolveTogether
  BY <1>5 DEF SolveTogether, Solved
<1>6. CASE FirstSolved
  BY <1>6 DEF FirstSolved, Solved, Ticked, AsksForAny
<1>7. CASE FirstCommitted
  BY <1>7 DEF FirstCommitted, Solved, Ticked, AsksForAny, Commit
<1>8. CASE ShallowSolved
  BY <1>8 DEF ShallowSolved, Solved, AsksForAny
<1>9. CASE FirstFails
  BY <1>9 DEF FirstFails, AsksForLess
<1>10. CASE SecondSolved
  BY <1>10 DEF SecondSolved, Solved, Ticked, AsksForAny
<1>11. ASSUME NEW c \in BOOLEAN, Iterate(c) PROVE TypeOK'
  <2>1. want' \in [PKs -> Nat]
    BY <1>11, HalfIsLess DEF Iterate, AsksForAny
  <2>2. Solved(content, 2, dt) \in [PKs -> Nat]
    BY SolvedFields
  <2>3. content' \in [PKs -> Nat]
    <3>1. content' = saved \/ content' = Solved(content, 2, dt)
      BY <1>11, Zenon DEF Iterate
    <3> QED
      BY <3>1, <2>2
  <2>4. bdf' \in [PKs -> Nat]
    BY <1>11, TickedHistory DEF Iterate
  <2>5. shifted' \in BOOLEAN
    BY <1>11, Zenon DEF Iterate
  <2>6. itr' \in 0 .. MaxItrs
    <3>1. itr' = itr + 1 /\ pc = "pk2"
      BY <1>11, Zenon DEF Iterate
    <3> QED
      BY <3>1
  <2>7. pc' \in Labels
    BY <1>11, Zenon DEF Iterate
  <2> QED
    BY <1>11, <2>1, <2>3, <2>4, <2>5, <2>6, <2>7 DEF Iterate
<1>12. CASE SecondFails
  BY <1>12 DEF SecondFails, AsksForLess
<1>13. CASE MasterSolved
  BY <1>13 DEF MasterSolved, Solved, Ticked, AsksForAny, Commit, Least
<1>14. CASE SlaveSolved
  BY <1>14 DEF SlaveSolved, Solved, Ticked, AsksForAny, Commit, Substep, Least, ThrowingNext, PlainNext
<1>15. CASE SlaveFails
  <2>1. Substep \in Nat
    BY <1>15 DEF SlaveFails, Substep, Least
  <2>2. minerals' \in Nat /\ repeated' \in Nat
    BY <1>15, <2>1 DEF SlaveFails, ReactsInVain
  <2>3. want' \in [PKs -> Nat] /\ next' \in Nat /\ inter' \in Nat
    BY <1>15, <2>1, DivNat, HalfIsLess DEF SlaveFails, AsksForLess, ThrowingNext, PlainNext
  <2>4. pc' \in Labels
    BY <1>15, Zenon DEF SlaveFails, ThrowingNext, PlainNext
  <2> QED
    BY <1>15, <2>2, <2>3, <2>4 DEF SlaveFails
<1>16. CASE UNCHANGED vars
  BY <1>16 DEF vars
<1> QED
  BY <1>1, <1>2, <1>3, <1>4, <1>5, <1>6, <1>7, <1>8, <1>9, <1>10, <1>11, <1>12, <1>13, <1>14, <1>15, <1>16 DEF Next, AdvanceStep

\* A step that is tried is not empty.
LEMMA StepStepShape == IInv /\ [Next]_vars => StepShape'
<1> SUFFICES ASSUME IInv, [Next]_vars PROVE StepShape'
  OBVIOUS
<1> USE CouplingAssumption DEF IInv, TypeOK, PKs, fields, chemistry, local,
      StepShape, Trying, Sequential, Subcycled
<1>1. CASE StartStep
  BY <1>1 DEF StartStep
<1>2. CASE AcceptStep
  <2>1. GetDt \in Nat
    BY DivNat DEF GetDt, Least
  <2>2. dt = final - time /\ final \in Nat /\ final <= End
    BY <1>2 DEF AcceptStep
  <2>3. dt' \in Nat /\ final + dt' <= End
    BY <1>2, <2>1, <2>2 DEF AcceptStep, TakeDt, Least
  <2>4. pc' \in {"driver", "thrown"} /\ (pc' = "driver" => GetDt # 0)
    BY <1>2 DEF AcceptStep, TakeDt
  <2>5. pc' = "driver" /\ final < End => dt' > 0
    BY <1>2, <2>1, <2>2, <2>4 DEF AcceptStep, TakeDt, Least
  <2>6. time' = final
    BY <1>2 DEF AcceptStep
  <2> QED
    BY <2>3, <2>4, <2>5, <2>6
<1>3. CASE RefuseStep
  BY <1>3, DivNat, HalfIsLess DEF RefuseStep, TakeDt, GetDt, Least
<1>4. CASE Finish
  BY <1>4 DEF Finish
<1>5. CASE SolveTogether
  BY <1>5 DEF SolveTogether
<1>6. CASE FirstSolved
  BY <1>6 DEF FirstSolved, AsksForAny
<1>7. CASE FirstCommitted
  BY <1>7 DEF FirstCommitted, AsksForAny
<1>8. CASE ShallowSolved
  BY <1>8 DEF ShallowSolved, AsksForAny
<1>9. CASE FirstFails
  BY <1>9 DEF FirstFails, AsksForLess
<1>10. CASE SecondSolved
  BY <1>10 DEF SecondSolved, AsksForAny
<1>11. ASSUME NEW c \in BOOLEAN, Iterate(c) PROVE StepShape'
  BY <1>11, DivNat, HalfIsLess DEF Iterate, AsksForAny
<1>12. CASE SecondFails
  BY <1>12 DEF SecondFails, AsksForLess
<1>13. CASE MasterSolved
  BY <1>13 DEF MasterSolved, AsksForAny, Least
<1>14. CASE SlaveSolved
  BY <1>14 DEF SlaveSolved, AsksForAny, Substep, Least, ThrowingNext, PlainNext
<1>15. CASE SlaveFails
  BY <1>15, DivNat, HalfIsLess DEF SlaveFails, Substep, Least, AsksForLess, ThrowingNext, PlainNext
<1>16. CASE UNCHANGED vars
  BY <1>16 DEF vars
<1> QED
  BY <1>1, <1>2, <1>3, <1>4, <1>5, <1>6, <1>7, <1>8, <1>9, <1>10, <1>11, <1>12, <1>13, <1>14, <1>15, <1>16 DEF Next, AdvanceStep

\* Everybody can go back to the step's beginning.
LEMMA StepCanGoBack == IInv /\ [Next]_vars => CanGoBack'
<1> SUFFICES ASSUME IInv, [Next]_vars PROVE CanGoBack'
  OBVIOUS
<1> USE CouplingAssumption DEF IInv, TypeOK, PKs, fields, chemistry, local,
      CanGoBack, StepShape, Safe, Spoiling, StartsFrom, InPlace, Trying, Sequential, Subcycled, Archived
<1>1. CASE StartStep
  BY <1>1 DEF StartStep
<1>2. CASE AcceptStep
  <2>1. SUFFICES ASSUME Safe PROVE CanGoBack'
    BY <1>2 DEF AcceptStep
  <2>2. \A p \in PKs : content[p] = final
    BY <1>2, <2>1 DEF AcceptStep, Finished
  <2>3. pc' \in {"driver", "thrown"} /\ ~shifted'
    BY <1>2 DEF AcceptStep, TakeDt
  <2>4. \A p \in PKs : prev'[p] = IF p \in Committed THEN content[p] ELSE prev[p]
    BY <1>2 DEF AcceptStep, Commit
  <2>5. \A p \in PKs : prev'[p] = final
    BY <1>2, <2>1, <2>2, <2>4 DEF Committed, AcceptStep, Finished
  <2>6. time' = final /\ content' = content /\ kind' = kind
    BY <1>2 DEF AcceptStep
  <2> QED
    BY <2>2, <2>3, <2>5, <2>6
<1>3. CASE RefuseStep
  BY <1>3 DEF RefuseStep, TakeDt, GetDt, Least
<1>4. CASE Finish
  BY <1>4 DEF Finish
<1>5. CASE SolveTogether
  BY <1>5 DEF SolveTogether, Solved
<1>6. CASE FirstSolved
  BY <1>6 DEF FirstSolved, Solved
<1>7. CASE FirstCommitted
  BY <1>7 DEF FirstCommitted, Solved, Commit
<1>8. CASE ShallowSolved
  BY <1>8 DEF ShallowSolved, Solved
<1>9. CASE FirstFails
  BY <1>9 DEF FirstFails
<1>10. CASE SecondSolved
  BY <1>10 DEF SecondSolved, Solved
<1>11. ASSUME NEW c \in BOOLEAN, Iterate(c) PROVE CanGoBack'
  BY <1>11 DEF Iterate, Solved
<1>12. CASE SecondFails
  BY <1>12 DEF SecondFails, Explicit
<1>13. CASE MasterSolved
  BY <1>13 DEF MasterSolved, Solved, Commit, Least
<1>14. CASE SlaveSolved
  BY <1>14 DEF SlaveSolved, Solved, Commit, Substep, Least, ThrowingNext, PlainNext
<1>15. CASE SlaveFails
  BY <1>15 DEF SlaveFails, Substep, Least, ThrowingNext, PlainNext
<1>16. CASE UNCHANGED vars
  BY <1>16 DEF vars
<1> QED
  BY <1>1, <1>2, <1>3, <1>4, <1>5, <1>6, <1>7, <1>8, <1>9, <1>10, <1>11, <1>12, <1>13, <1>14, <1>15, <1>16 DEF Next, AdvanceStep

\* Who has finished is at the step's end.
LEMMA StepFinished == IInv /\ [Next]_vars => Finished'
<1> SUFFICES ASSUME IInv, [Next]_vars PROVE Finished'
  OBVIOUS
<1> USE CouplingAssumption DEF IInv, TypeOK, PKs, fields, chemistry, local,
      Finished, CanGoBack, StepShape, Safe, Spoiling, StartsFrom, InPlace, Trying, Sequential, Subcycled, Archived
<1>1. CASE StartStep
  BY <1>1 DEF StartStep
<1>2. CASE AcceptStep
  BY <1>2 DEF AcceptStep, TakeDt, GetDt, Least, Commit, Committed
<1>3. CASE RefuseStep
  BY <1>3 DEF RefuseStep, TakeDt, GetDt, Least
<1>4. CASE Finish
  BY <1>4 DEF Finish
<1>5. CASE SolveTogether
  BY <1>5 DEF SolveTogether, Solved
<1>6. CASE FirstSolved
  BY <1>6 DEF FirstSolved, Solved
<1>7. CASE FirstCommitted
  BY <1>7 DEF FirstCommitted, Solved, Commit
<1>8. CASE ShallowSolved
  BY <1>8 DEF ShallowSolved, Solved
<1>9. CASE FirstFails
  BY <1>9 DEF FirstFails
<1>10. CASE SecondSolved
  BY <1>10 DEF SecondSolved, Solved
<1>11. ASSUME NEW c \in BOOLEAN, Iterate(c) PROVE Finished'
  BY <1>11 DEF Iterate, Solved
<1>12. CASE SecondFails
  BY <1>12 DEF SecondFails
<1>13. CASE MasterSolved
  BY <1>13 DEF MasterSolved, Solved, Commit, Least
<1>14. CASE SlaveSolved
  BY <1>14 DEF SlaveSolved, Solved, Commit, Substep, Least, ThrowingNext, PlainNext
<1>15. CASE SlaveFails
  BY <1>15 DEF SlaveFails, Substep, Least, ThrowingNext, PlainNext
<1>16. CASE UNCHANGED vars
  BY <1>16 DEF vars
<1> QED
  BY <1>1, <1>2, <1>3, <1>4, <1>5, <1>6, <1>7, <1>8, <1>9, <1>10, <1>11, <1>12, <1>13, <1>14, <1>15, <1>16 DEF Next, AdvanceStep

\* Chemistry's own fields are ahead by what was reacted in vain.
LEMMA StepReacted == IInv /\ [Next]_vars => Reacted'
<1> SUFFICES ASSUME IInv, [Next]_vars, kind = "reactive"
             PROVE  minerals' = content'[2] + repeated'
  BY Zenon DEF Reacted, ReactedTo, Next, AdvanceStep, StartStep, AcceptStep, RefuseStep, Finish,
     SolveTogether, FirstSolved, FirstCommitted, ShallowSolved, FirstFails, SecondSolved,
     Iterate, SecondFails, MasterSolved, SlaveSolved, SlaveFails, vars
<1>1. /\ minerals = content[2] + repeated
      /\ content \in [PKs -> Nat] /\ repeated \in Nat /\ pc # "pk2"
      /\ next \in Nat /\ final \in Nat /\ time \in Nat /\ done \in Nat
      /\ pc = "slave" => time + done < final
  BY DEF IInv, Reacted, ReactedTo, TypeOK, StepShape, Subcycled
<1>2. CASE StartStep \/ AcceptStep \/ RefuseStep \/ Finish \/ FirstFails \/ UNCHANGED vars
  BY <1>1, <1>2 DEF StartStep, AcceptStep, RefuseStep, Finish, FirstFails, vars, fields, chemistry,
     Archived
<1>3. CASE MasterSolved
  <2>1. content'[2] = content[2]
    BY <1>1, <1>3 DEF MasterSolved, Solved, PKs
  <2> QED
    BY <1>1, <1>3, <2>1 DEF MasterSolved, chemistry
<1>4. CASE SlaveSolved
  <2>1. content'[2] = content[2] + Substep
    BY <1>1, <1>4 DEF SlaveSolved, Solved, InPlace, PKs
  <2>2. minerals' = minerals + Substep /\ repeated' = repeated
    BY <1>4 DEF SlaveSolved
  <2>3. Substep \in Nat
    BY <1>1, <1>4 DEF SlaveSolved, Substep, Least
  <2> QED
    BY <1>1, <2>1, <2>2, <2>3 DEF PKs
<1>5. CASE SlaveFails
  <2>1. PICK lost \in {0, Substep} : minerals' = minerals + lost /\ repeated' = repeated + lost
    BY <1>5 DEF SlaveFails, ReactsInVain
  <2>2. content' = content
    BY <1>5 DEF SlaveFails, fields
  <2>3. lost \in Nat
    BY <1>1, <1>5 DEF SlaveFails, Substep, Least
  <2> QED
    BY <1>1, <2>1, <2>2, <2>3 DEF PKs
<1> QED
  BY <1>1, <1>2, <1>3, <1>4, <1>5
     DEF Next, AdvanceStep, SolveTogether, FirstSolved, FirstCommitted, ShallowSolved,
         SecondSolved, Iterate, SecondFails, Sequential

\* The histories of the couplers that do not repeat a solve.
LEMMA StepClocks == IInv /\ [Next]_vars => Clocks'
<1> SUFFICES ASSUME IInv, [Next]_vars PROVE Clocks'
  OBVIOUS
<1> USE CouplingAssumption DEF IInv, TypeOK, PKs, fields, chemistry, local,
      Clocks, StepShape, HasBdf, InPlace, Explicit, Trying, Sequential, Subcycled
<1>1. CASE StartStep
  BY <1>1 DEF StartStep
<1>2. CASE AcceptStep
  BY <1>2 DEF AcceptStep, TakeDt, GetDt, Least
<1>3. CASE RefuseStep
  BY <1>3 DEF RefuseStep, TakeDt, GetDt, Least
<1>4. CASE Finish
  BY <1>4 DEF Finish
<1>5. CASE SolveTogether
  BY <1>5 DEF SolveTogether
<1>6. CASE FirstSolved
  BY <1>6 DEF FirstSolved, Ticked
<1>7. CASE FirstCommitted
  BY <1>7 DEF FirstCommitted, Ticked
<1>8. CASE ShallowSolved
  BY <1>8 DEF ShallowSolved
<1>9. CASE FirstFails
  BY <1>9 DEF FirstFails
<1>10. CASE SecondSolved
  BY <1>10 DEF SecondSolved, Ticked
<1>11. ASSUME NEW c \in BOOLEAN, Iterate(c) PROVE Clocks'
  BY <1>11 DEF Iterate, Ticked
<1>12. CASE SecondFails
  BY <1>12 DEF SecondFails
<1>13. CASE MasterSolved
  BY <1>13 DEF MasterSolved, Ticked, Least
<1>14. CASE SlaveSolved
  BY <1>14 DEF SlaveSolved, Ticked, Substep, Least, ThrowingNext, PlainNext
<1>15. CASE SlaveFails
  BY <1>15 DEF SlaveFails, Substep, Least, ThrowingNext, PlainNext
<1>16. CASE UNCHANGED vars
  BY <1>16 DEF vars
<1> QED
  BY <1>1, <1>2, <1>3, <1>4, <1>5, <1>6, <1>7, <1>8, <1>9, <1>10, <1>11, <1>12, <1>13, <1>14, <1>15, <1>16 DEF Next, AdvanceStep

\* Somebody asks for less after a refusal.
LEMMA StepAsksLess == IInv /\ [Next]_vars => AsksLess'
<1> SUFFICES ASSUME IInv, [Next]_vars PROVE AsksLess'
  OBVIOUS
<1> USE CouplingAssumption DEF IInv, TypeOK, PKs, fields, chemistry, local,
      AsksLess, StepShape, Trying, Sequential, Subcycled
<1>1. CASE StartStep
  BY <1>1 DEF StartStep
<1>2. CASE AcceptStep
  BY <1>2, DivNat, HalfIsLess DEF AcceptStep, TakeDt, GetDt, Least
<1>3. CASE RefuseStep
  BY <1>3, DivNat, HalfIsLess DEF RefuseStep, TakeDt, GetDt, Least
<1>4. CASE Finish
  BY <1>4 DEF Finish
<1>5. CASE SolveTogether
  BY <1>5 DEF SolveTogether
<1>6. CASE FirstSolved
  BY <1>6 DEF FirstSolved, AsksForAny
<1>7. CASE FirstCommitted
  BY <1>7 DEF FirstCommitted, AsksForAny
<1>8. CASE ShallowSolved
  BY <1>8 DEF ShallowSolved, AsksForAny
<1>9. CASE FirstFails
  BY <1>9 DEF FirstFails, AsksForLess
<1>10. CASE SecondSolved
  BY <1>10 DEF SecondSolved, AsksForAny
<1>11. ASSUME NEW c \in BOOLEAN, Iterate(c) PROVE AsksLess'
  BY <1>11, DivNat, HalfIsLess DEF Iterate, AsksForAny
<1>12. CASE SecondFails
  BY <1>12 DEF SecondFails, AsksForLess
<1>13. CASE MasterSolved
  BY <1>13 DEF MasterSolved, AsksForAny, Least
<1>14. CASE SlaveSolved
  BY <1>14 DEF SlaveSolved, AsksForAny, Substep, Least, ThrowingNext, PlainNext
<1>15. CASE SlaveFails
  BY <1>15, DivNat, HalfIsLess DEF SlaveFails, Substep, Least, AsksForLess, ThrowingNext, PlainNext
<1>16. CASE UNCHANGED vars
  BY <1>16 DEF vars
<1> QED
  BY <1>1, <1>2, <1>3, <1>4, <1>5, <1>6, <1>7, <1>8, <1>9, <1>10, <1>11, <1>12, <1>13, <1>14, <1>15, <1>16 DEF Next, AdvanceStep

-----------------------------------------------------------------------------
LEMMA Inductive == Spec => []IInv
<1>1. IInv /\ [Next]_vars => IInv'
  BY StepTypeOK, StepStepShape, StepCanGoBack, StepFinished, StepReacted, StepClocks, StepAsksLess DEF IInv
<1> QED
  BY InitInv, <1>1, PTL DEF Spec

\* The type invariant.
THEOREM TypeCorrect == Spec => []TypeOK
<1>1. IInv => TypeOK
  BY DEF IInv
<1> QED
  BY Inductive, <1>1, PTL

\* The couplers that do not spoil what they start from start every attempt,
\* a repeated one too, from the fields of the present time; chemistry's own
\* fields are ahead by what it reacted in attempts that failed.
THEOREM StartClean == Spec => []OthersStartClean
<1>1. IInv => OthersStartClean
  BY DEF IInv, OthersStartClean, AttemptStartsClean, CanGoBack, Safe, Reacted, ReactedTo, StartsFrom,
         InPlace, PKs
<1> QED
  BY Inductive, <1>1, PTL

\* After all failures, iterations and substeps the fields of each PK belong to
\* the end of the step that is accepted; what was reacted in vain shows only in
\* chemistry's own fields.
THEOREM IntegratedOnce == Spec => []NothingIntegratedTwice
<1>1. IInv => NothingIntegratedTwice
  BY DEF IInv, NothingIntegratedTwice, Finished, Safe, Reacted, ReactedTo, PKs
<1> QED
  BY Inductive, <1>1, PTL

\* The substeps of the slave fit together, and State's intermediate time is
\* that of its concentrations.
THEOREM Tiled == Spec => []SubstepsTile
<1>1. IInv => SubstepsTile
  BY DEF IInv, SubstepsTile, Finished, StepShape, Safe, Spoiling, Reacted, ReactedTo
<1> QED
  BY Inductive, <1>1, PTL

\* One solve for both PKs, or a slave that is subcycled, keeps the histories at
\* the driver's time.
THEOREM ClocksKept == Spec => []UnrepeatedSolvesKeepTime
<1>1. IInv => UnrepeatedSolvesKeepTime
  BY DEF IInv, UnrepeatedSolvesKeepTime, AdvancesFromOldTime, Clocks
<1> QED
  BY Inductive, <1>1, PTL

\* A refused step is tried again with a smaller one.
THEOREM RetriesShrink == Spec => RetryIsShorter
<1>1. ASSUME IInv, [Next]_vars
      PROVE  [kind \notin {"subcycled", "shallow_water"} /\ pc = "fail" /\ pc' = "driver"
                => dt' < dt]_vars
  <2> SUFFICES ASSUME kind \notin {"subcycled", "shallow_water"},
                      pc = "fail", pc' = "driver"
               PROVE  dt' < dt
    OBVIOUS
  <2>1. RefuseStep
    BY <1>1, Zenon DEF Next, AdvanceStep, StartStep, AcceptStep, Finish, SolveTogether, FirstSolved,
       FirstCommitted, ShallowSolved, FirstFails, SecondSolved, Iterate, SecondFails,
       MasterSolved, SlaveSolved, SlaveFails, vars
  <2>2. cut = 1 /\ want[1] \in Nat /\ want[2] \in Nat /\ dt \in Nat /\ time + dt <= End
    BY <1>1 DEF IInv, AsksLess, TypeOK, PKs, StepShape
  <2>3. want[1] < dt \/ (want[2] < dt /\ kind \notin Subcycled)
    BY <1>1 DEF IInv, AsksLess
  <2>4. GetDt \in Nat /\ GetDt < dt
    <3>1. CASE kind \in Subcycled
      BY <2>2, <2>3, <3>1 DEF GetDt
    <3>2. CASE kind \notin Subcycled
      <4>1. Least(want[1], want[2]) \in Nat /\ Least(want[1], want[2]) < dt
        BY <2>2, <2>3 DEF Least
      <4>2. GetDt = Least(want[1], want[2]) \div 1
        BY <2>2, <3>2 DEF GetDt
      <4> QED
        BY <4>1, <4>2
    <3> QED
      BY <3>1, <3>2
  <2>5. dt' = Least(GetDt, End - time)
    BY <2>1, Zenon DEF RefuseStep, TakeDt
  <2>6. time \in Nat
    BY <1>1 DEF IInv, TypeOK
  <2> QED
    BY <2>2, <2>4, <2>5, <2>6, CouplingAssumption DEF Least
<1> QED
  BY Inductive, <1>1, PTL DEF Spec, RetryIsShorter

-----------------------------------------------------------------------------
(* Why the run ends.  Liveness itself is left to TLC; what it rests on is  *)
(* stated of the steps.  As for RetryIsShorter, the couplers whose refused *)
(* step may be asked for again are left out.                               *)

Shrinking == kind \notin {"subcycled", "shallow_water"}

Stage == CASE pc = "driver" -> 3 [] pc \in {"pk1", "pk2", "slave"} -> 2
           [] pc \in {"success", "fail"} -> 1 [] OTHER -> 0
Place == IF pc = "pk1" THEN 1 ELSE 0

\* Within a step: an iteration more; the next PK; a part of the step that the
\* slave covers; or a smaller part after a failure.
StepUsesUp ==
  \/ itr' > itr
  \/ /\ itr' = itr
     /\ \/ Place' < Place
        \/ Place' = Place /\ (done' > done \/ (done' = done /\ next' < next))

\* A step moves the time; or follows a refusal with a smaller dt; or gets further
\* with the step that is tried.
UsesUp ==
  \/ time' > time
  \/ /\ time' = time
     /\ \/ dt' < dt
        \/ dt' = dt /\ (Stage' < Stage \/ (Stage' = Stage /\ StepUsesUp))

UsesUpBounds ==
  /\ time \in 0 .. End /\ dt \in Nat /\ Stage \in 0 .. 3 /\ Place \in 0 .. 1
  /\ itr \in 0 .. MaxItrs /\ next \in Nat
  /\ pc = "slave" => done \in 0 .. dt

\* A subcycled slave is never asked for an empty substep.
Positive ==
  kind = "reactive" => /\ End > 0 => want[2] > 0
                       /\ pc = "slave" => next > 0

LEMMA InitPositive == Init => Positive
<1> SUFFICES ASSUME Init, End > 0 PROVE want[2] > 0 /\ pc # "slave"
  BY DEF Positive, Init
<1>1. dt > 0
  BY CouplingAssumption DEF Init, Least
<1> QED
  BY <1>1 DEF Init, PKs

LEMMA StepPositive == IInv /\ Positive /\ [Next]_vars => Positive'
<1> SUFFICES ASSUME IInv, Positive, [Next]_vars, kind = "reactive"
             PROVE  /\ End > 0 => want'[2] > 0
                    /\ pc' = "slave" => next' > 0
  BY Zenon DEF Positive, Next, AdvanceStep, StartStep, AcceptStep, RefuseStep, Finish,
     SolveTogether, FirstSolved, FirstCommitted, ShallowSolved, FirstFails, SecondSolved,
     Iterate, SecondFails, MasterSolved, SlaveSolved, SlaveFails, vars
<1> USE CouplingAssumption
<1>1. /\ End > 0 => want[2] > 0
      /\ pc = "slave" => next > 0
      /\ want \in [PKs -> Nat] /\ dt \in Nat /\ next \in Nat /\ pc # "pk2"
      /\ time + dt <= End /\ time \in Nat /\ done \in Nat /\ final \in Nat
      /\ pc = "pk1" => dt > 0
      /\ pc = "slave" => time + done < final
  BY DEF Positive, IInv, TypeOK, StepShape, Trying, Subcycled
<1>2. CASE StartStep \/ AcceptStep \/ RefuseStep \/ Finish
  <2>1. want' = want /\ pc' # "slave"
    BY <1>2 DEF StartStep, AcceptStep, RefuseStep, Finish, TakeDt
  <2> QED
    BY <1>1, <2>1
<1>3. CASE FirstFails
  <2>1. want'[2] = want[2] /\ pc' # "slave"
    BY <1>1, <1>3 DEF FirstFails, AsksForLess, PKs
  <2> QED
    BY <1>1, <2>1
<1>4. CASE MasterSolved
  <2>1. want'[2] = want[2]
    BY <1>1, <1>4 DEF MasterSolved, AsksForAny, PKs
  <2>2. pc = "pk1" /\ next' = Least(want[2], dt)
    BY <1>4 DEF MasterSolved
  <2>3. End > 0 /\ want[2] > 0
    BY <1>1, <2>2
  <2> QED
    BY <1>1, <2>1, <2>2, <2>3 DEF Least, PKs
<1>5. CASE SlaveSolved
  <2>1. PICK a \in Dts : want' = [want EXCEPT ![2] = a]
    BY <1>5 DEF SlaveSolved, AsksForAny
  <2>2. want'[2] = a /\ a \in Nat /\ a > 0
    BY <1>1, <2>1 DEF PKs
  <2>3. next' = want'[2]
    BY <1>5 DEF SlaveSolved, ThrowingNext
  <2> QED
    BY <2>2, <2>3
<1>6. CASE SlaveFails
  <2>1. want' = want /\ next' = Substep \div 2 /\ (pc' = "slave" => ~(next' < MinSub))
    BY <1>6 DEF SlaveFails, ThrowingNext
  <2>2. Substep \in Nat
    BY <1>1, <1>6 DEF Substep, Least, SlaveFails
  <2>3. next' \in Nat
    BY <2>1, <2>2
  <2> QED
    BY <1>1, <2>1, <2>3
<1>7. CASE UNCHANGED vars
  BY <1>1, <1>7 DEF vars, local
<1> QED
  BY <1>1, <1>2, <1>3, <1>4, <1>5, <1>6, <1>7
     DEF Next, AdvanceStep, SolveTogether, FirstSolved, FirstCommitted, ShallowSolved,
         SecondSolved, Iterate, SecondFails, Sequential

LEMMA IInvUsesUp == IInv /\ Positive /\ Next /\ Shrinking => UsesUp
<1> SUFFICES ASSUME IInv, Positive, Next, Shrinking PROVE UsesUp
  OBVIOUS
<1>1. /\ time \in Nat /\ dt \in Nat /\ itr \in Nat /\ done \in Nat /\ next \in Nat
      /\ final \in Nat /\ want \in [PKs -> Nat]
      /\ time + dt <= End
      /\ pc \in Trying => dt > 0 /\ final = time + dt
      /\ pc = "slave" => kind \in Subcycled /\ time + done < final
  BY CouplingAssumption DEF IInv, TypeOK, StepShape
<1>2. CASE StartStep
  BY <1>2 DEF StartStep, UsesUp, Stage
<1>3. CASE AcceptStep
  <2>1. time' = final /\ final > time
    BY <1>1, <1>3 DEF AcceptStep, Trying
  <2> QED BY <2>1 DEF UsesUp
<1>4. CASE RefuseStep
  <2>1. time' = time /\ dt' = Least(GetDt, End - time)
    BY <1>4 DEF RefuseStep, TakeDt
  <2>2. GetDt < dt /\ GetDt \in Nat
    BY <1>1, <1>4 DEF RefuseStep, GetDt, Least, IInv, AsksLess, Shrinking, PKs
  <2> QED BY <1>1, <2>1, <2>2 DEF UsesUp, Least
<1>5. CASE Finish
  BY <1>5 DEF Finish, UsesUp, Stage
<1>6. CASE \/ SolveTogether \/ FirstFails \/ SecondSolved \/ SecondFails
  <2>1. /\ time' = time /\ dt' = dt
        /\ pc \in {"pk1", "pk2"} /\ pc' \in {"success", "fail", "thrown"}
    BY <1>6 DEF SolveTogether, FirstFails, SecondSolved, SecondFails
  <2> QED BY <2>1 DEF UsesUp, Stage
<1>7. CASE FirstSolved \/ FirstCommitted \/ MasterSolved
  <2>1. /\ time' = time /\ dt' = dt /\ itr' = itr
        /\ pc = "pk1" /\ pc' \in {"pk2", "slave"}
    BY <1>7 DEF FirstSolved, FirstCommitted, MasterSolved, local
  <2> QED BY <2>1 DEF UsesUp, StepUsesUp, Stage, Place
<1>8. CASE ShallowSolved
  BY <1>8 DEF ShallowSolved, Shrinking
<1>9. CASE \E c \in BOOLEAN : Iterate(c)
  <2>1. /\ time' = time /\ dt' = dt /\ itr' = itr + 1
        /\ pc = "pk2" /\ pc' \in {"success", "fail", "pk1"}
    BY <1>9 DEF Iterate
  <2> QED BY <1>1, <2>1 DEF UsesUp, StepUsesUp, Stage
<1>10. CASE SlaveSolved \/ SlaveFails
  <2>1. /\ time' = time /\ dt' = dt /\ itr' = itr /\ pc = "slave" /\ kind = "reactive"
    BY <1>1, <1>10 DEF SlaveSolved, SlaveFails, Subcycled, Shrinking
  <2>2. pc' \in {"thrown", "success", "slave"}
    BY <1>10, <2>1 DEF SlaveSolved, SlaveFails, ThrowingNext
  <2>3. Substep \in Nat /\ Substep <= next /\ Substep > 0
    BY <1>1, <2>1 DEF Substep, Least, Trying, Positive
  <2>4. CASE SlaveSolved
    <3>1. done' = done + Substep
      BY <2>4 DEF SlaveSolved
    <3> QED BY <1>1, <2>1, <2>2, <2>3, <2>4, <3>1 DEF UsesUp, StepUsesUp, Stage, Place
  <2>5. CASE SlaveFails
    <3>1. done' = done /\ next' = Substep \div 2
      BY <2>1, <2>5 DEF SlaveFails, ThrowingNext
    <3>2. next' < next
      BY <1>1, <2>3, <2>5, <3>1
    <3> QED BY <1>1, <2>1, <2>2, <3>1, <3>2 DEF UsesUp, StepUsesUp, Stage, Place
  <2> QED BY <1>10, <2>4, <2>5
<1> QED BY <1>2, <1>3, <1>4, <1>5, <1>6, <1>7, <1>8, <1>9, <1>10 DEF Next, AdvanceStep

\* Every step of the run uses something up, and what is used up is bounded:
\* neither refused steps nor iterations nor substeps follow each other for ever.
THEOREM EveryStepUsesUp == Spec => []UsesUpBounds /\ [][Shrinking => UsesUp]_vars
<1>1. IInv => UsesUpBounds
  <2> SUFFICES ASSUME IInv PROVE UsesUpBounds
    OBVIOUS
  <2>1. Stage \in 0 .. 3 /\ Place \in 0 .. 1
    BY DEF Stage, Place
  <2>2. /\ time \in Nat /\ dt \in Nat /\ time + dt <= End /\ next \in Nat /\ done \in Nat
        /\ itr \in 0 .. MaxItrs /\ End \in Nat
        /\ pc = "slave" => time + done < final /\ final = time + dt
    BY CouplingAssumption DEF IInv, TypeOK, StepShape, Trying
  <2> QED
    BY <2>1, <2>2 DEF UsesUpBounds
<1>2. IInv /\ Positive /\ [Next]_vars => [Shrinking => UsesUp]_vars
  BY IInvUsesUp
<1>3. IInv /\ [Next]_vars => IInv'
  BY StepTypeOK, StepStepShape, StepCanGoBack, StepFinished, StepReacted, StepClocks, StepAsksLess DEF IInv
<1> QED
  BY InitInv, InitPositive, StepPositive, <1>1, <1>2, <1>3, PTL DEF Spec
=============================================================================
