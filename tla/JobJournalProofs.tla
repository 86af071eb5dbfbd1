-------------------------- MODULE JobJournalProofs --------------------------
(***************************************************************************)
(* Theorems about JobJournal for every plan, budget, deadline, retention   *)
(* and number of epochs, and about LocalRunner for every number of runs    *)
(* and every set of epochs whose runner is wrongly taken for stopped,      *)
(* checked by TLAPS.                                                       *)
(***************************************************************************)
EXTENDS LocalRunner, SumTheorems

\* An erased job leaves an empty row and is never admitted again.
ErasedIsAbsent == tomb => jstate = "absent"

\* Whatever was ever claimed had its dependencies settled.
ClaimedAfterDeps ==
    \A s \in Stage : claimedBy[s] # 0 => \A d \in Deps[s] : Settled(s, d)

\* Text is appended under an attempt of the final stage only.
TextNeedsClaim == frags > 0 => claimedBy[Final] # 0

\* The inductive invariant.
IInv ==
    /\ TypeOK
    /\ SuccessMeansWhole
    /\ CancelWins
    /\ OwnershipAgrees
    /\ ErasedIsAbsent
    /\ ClaimedAfterDeps
    /\ TextNeedsClaim

-----------------------------------------------------------------------------
\* Each method writes only states of the two state machines and counters.
LEMMA TypeStep == TypeOK /\ [Next]_vars => TypeOK'
<1> SUFFICES ASSUME TypeOK, [Next]_vars PROVE TypeOK'
  OBVIOUS
<1> USE PlanAssumption, BudgetAssumption, BoundAssumption
        DEF TypeOK, jobVars, stageVars, publicVars, Emit
<1>1. CASE Create
  BY <1>1 DEF Create, JobStates
<1>2. CASE BeginExpired
  BY <1>2 DEF BeginExpired, JobStates, Terminal
<1>3. CASE Begin
  BY <1>3 DEF Begin, JobStates
<1>4. ASSUME NEW e \in 1..epoch, Fenced(e) PROVE TypeOK'
  <2>1. ASSUME NEW s \in Stage, Skip(e, s) PROVE TypeOK'
    BY <2>1 DEF Skip, StageStates
  <2>2. ASSUME NEW s \in Stage, Claim(e, s) PROVE TypeOK'
    BY <2>2 DEF Claim, StageStates
  <2>3. ASSUME NEW s \in Stage, NEW tools \in BOOLEAN, NEW d \in Verdicts,
               Complete(e, s, tools, d)
        PROVE  TypeOK'
    BY <2>3 DEF Complete, CompletedAs, StageStates, Verdicts
  <2>4. ASSUME NEW s \in Stage, FailStage(e, s) PROVE TypeOK'
    BY <2>4 DEF FailStage, StageStates
  <2>5. ASSUME NEW s \in Stage, NEW n \in FragmentSize, AppendPublicDelta(e, s, n)
        PROVE  TypeOK'
    BY <2>5 DEF AppendPublicDelta
  <2>6. ASSUME NEW w \in Terminal \union {"paused"}, Finish(e, w) PROVE TypeOK'
    BY <2>6 DEF Finish, MayFinish, FinalAs, JobStates, Terminal
  <2>7. CASE RecoverAbandoned(e)
    BY <2>7 DEF RecoverAbandoned, RecoveredAs, JobStates, Terminal, StageStates
  <2>8. QED
    BY <1>4, <2>1, <2>2, <2>3, <2>4, <2>5, <2>6, <2>7 DEF Fenced
<1>5. CASE RequestCancel
  BY <1>5 DEF RequestCancel, JobStates, Terminal
<1>6. CASE DeleteJob
  BY <1>6 DEF DeleteJob, EraseRow, JobStates, StageStates, Verdicts, NoUse
<1>7. CASE Tick
  BY <1>7 DEF Tick
<1>8. CASE UNCHANGED vars
  BY <1>8 DEF vars
<1>9. QED
  BY <1>1, <1>2, <1>3, <1>4, <1>5, <1>6, <1>7, <1>8 DEF Next

\* create() has made no row yet.
LEMMA InitType == Init => TypeOK
<1> SUFFICES ASSUME Init PROVE TypeOK
  OBVIOUS
<1>1. reserved \in [Resource -> Nat]
  BY DEF Init, EmptyRow, NoUse
<1>2. st \in [Stage -> StageStates]
  BY DEF Init, EmptyRow, StageStates
<1>3. claimedBy \in [Stage -> Nat]
  BY DEF Init, EmptyRow
<1>4. QED
  BY <1>1, <1>2, <1>3 DEF Init, EmptyRow, TypeOK, JobStates, Verdicts

\* Every variable keeps its type: each method of the store writes only states
\* of the two state machines and natural counters.
THEOREM TypeCorrect == Spec => []TypeOK
<1> QED
  BY InitType, TypeStep, PTL DEF Spec
-----------------------------------------------------------------------------
\* The strengthening IInv is inductive: the journal's transactions together
\* keep outcome, cancellation, ownership, erasure, dependency order and public
\* text consistent, whoever calls them and with whatever old fence.
LEMMA Inductive == IInv /\ [Next]_vars /\ TypeOK' => IInv'
<1> SUFFICES ASSUME IInv, [Next]_vars, TypeOK' PROVE IInv'
  OBVIOUS
<1> USE PlanAssumption DEF IInv, TypeOK, jobVars, stageVars, publicVars, InFlight, Settled,
        Terminal, SuccessMeansWhole, CancelWins, OwnershipAgrees, ErasedIsAbsent,
        ClaimedAfterDeps, TextNeedsClaim
<1>1. CASE Create
  BY <1>1 DEF Create
<1>2. CASE BeginExpired
  BY <1>2 DEF BeginExpired
<1>3. CASE Begin
  BY <1>3 DEF Begin
<1>4. ASSUME NEW e \in 1..epoch, Fenced(e) PROVE IInv'
  <2> USE DEF Fence
  <2>1. ASSUME NEW s \in Stage, Skip(e, s) PROVE IInv'
    BY <2>1 DEF Skip, MayClaim, Working
  <2>2. ASSUME NEW s \in Stage, Claim(e, s) PROVE IInv'
    BY <2>2 DEF Claim, MayClaim, Working
  <2>3. ASSUME NEW s \in Stage, NEW tools \in BOOLEAN, NEW d \in Verdicts,
               Complete(e, s, tools, d)
        PROVE  IInv'
    BY <2>3 DEF Complete, CompletedAs, OwnsAttempt
  <2>4. ASSUME NEW s \in Stage, FailStage(e, s) PROVE IInv'
    BY <2>4 DEF FailStage, OwnsAttempt
  <2>5. ASSUME NEW s \in Stage, NEW n \in FragmentSize, AppendPublicDelta(e, s, n)
        PROVE  IInv'
    BY <2>5 DEF AppendPublicDelta, OwnsAttempt
  <2>6. ASSUME NEW w \in Terminal \union {"paused"}, Finish(e, w) PROVE IInv'
    BY <2>6 DEF Finish, MayFinish, FinalAs
  <2>7. CASE RecoverAbandoned(e)
    BY <2>7 DEF RecoverAbandoned, RecoveredAs, Has, StageStates
  <2>8. QED
    BY <1>4, <2>1, <2>2, <2>3, <2>4, <2>5, <2>6, <2>7 DEF Fenced
<1>5. CASE RequestCancel
  BY <1>5 DEF RequestCancel
<1>6. CASE DeleteJob
  BY <1>6 DEF DeleteJob, EraseRow
<1>7. CASE Tick
  BY <1>7 DEF Tick
<1>8. CASE UNCHANGED vars
  BY <1>8 DEF vars
<1>9. QED
  BY <1>1, <1>2, <1>3, <1>4, <1>5, <1>6, <1>7, <1>8 DEF Next

\* IInv holds in every reachable state.
THEOREM Invariance == Spec => []IInv
<1>1. Init /\ TypeOK => IInv
  BY DEF Init, EmptyRow, IInv, TypeOK, SuccessMeansWhole, CancelWins, OwnershipAgrees,
         ErasedIsAbsent, ClaimedAfterDeps, TextNeedsClaim, InFlight
<1>2. QED
  BY <1>1, Inductive, TypeCorrect, PTL DEF Spec

\* finish() and recovery never report success for a plan that did not run to
\* its end, nor after a cancellation was accepted.
THEOREM SuccessIsWhole == Spec => []SuccessMeansWhole
<1>1. IInv => SuccessMeansWhole
  BY DEF IInv
<1>2. QED
  BY <1>1, Invariance, PTL

\* No order of begin, completion, finish, crash recovery and deletion lets
\* another outcome overtake an accepted cancellation.
THEOREM CancellationWins == Spec => []CancelWins
<1>1. IInv => CancelWins
  BY DEF IInv
<1>2. QED
  BY <1>1, Invariance, PTL

\* Ownership, job state and attempts in flight agree at every commit.
THEOREM OwnershipIsSound == Spec => []OwnershipAgrees
<1>1. IInv => OwnershipAgrees
  BY DEF IInv
<1>2. QED
  BY <1>1, Invariance, PTL

\* append_public_delta never publishes ahead of the plan.
THEOREM PublicationIsOrdered == Spec => []PublishedAfterPlan
<1>1. IInv => PublishedAfterPlan
  BY PlanAssumption DEF IInv, ClaimedAfterDeps, TextNeedsClaim, PublishedAfterPlan
<1>2. QED
  BY <1>1, Invariance, PTL

-----------------------------------------------------------------------------
\* A terminal job has no owner, so no fence opens it; what is left is deletion,
\* and a tombstone keeps create() away afterwards.
THEOREM ClosedStaysClosed == Spec => ClosedIsFinal
<1> DEFINE Closed ==
      /\ jstate \in Terminal =>
             \/ UNCHANGED <<jobVars, seq, stageVars, publicVars, tomb>>
             \/ jstate' = "absent" /\ tomb'
      /\ tomb => jstate' = "absent" /\ tomb'
<1>1. IInv /\ [Next]_vars => Closed
  <2> SUFFICES ASSUME IInv, [Next]_vars PROVE Closed
    OBVIOUS
  <2>1. runner # 0 => jstate \in {"running", "cancelling"}
    BY DEF IInv, OwnershipAgrees
  <2>2. tomb => jstate = "absent"
    BY DEF IInv, ErasedIsAbsent
  <2>3. ASSUME NEW e \in 1..epoch, Fenced(e)
        PROVE  runner # 0 /\ tomb' = tomb
    BY <2>3 DEF Fenced, Skip, Claim, MayClaim, Complete, FailStage, AppendPublicDelta,
                Finish, MayFinish, RecoverAbandoned, OwnsAttempt, Fence
  <2>4. CASE Create
    BY <2>4 DEF Create, Terminal
  <2>5. CASE BeginExpired \/ Begin
    BY <2>2, <2>5 DEF BeginExpired, Begin, Terminal
  <2>6. CASE \E e \in 1..epoch : Fenced(e)
    BY <2>1, <2>2, <2>3, <2>6 DEF Terminal
  <2>7. CASE RequestCancel
    BY <2>2, <2>7 DEF RequestCancel
  <2>8. CASE DeleteJob
    BY <2>8 DEF DeleteJob
  <2>9. CASE Tick
    BY <2>2, <2>9 DEF Tick, jobVars, stageVars, publicVars
  <2>10. CASE UNCHANGED vars
    BY <2>2, <2>10 DEF vars, jobVars, stageVars, publicVars
  <2>11. QED
    BY <2>4, <2>5, <2>6, <2>7, <2>8, <2>9, <2>10 DEF Next
<1>2. QED
  BY <1>1, Invariance, PTL DEF Spec, ClosedIsFinal

-----------------------------------------------------------------------------
(* The budget.                                                             *)

Price(r) == [s \in Stage |-> Need[s][r]]
Claimed == {s \in Stage : claimedBy[s] # 0}

\* A stage that may be claimed never was: nothing is put back into the plan.
PendingIsUnclaimed == \A s \in Stage : st[s] = "pending" => claimedBy[s] = 0

\* The counters are what the claimed stages reserved.
CountersAreClaims ==
    \A r \in Resource : reserved[r] = SumFunctionOnSet(Price(r), Claimed)

\* A pending stage was never claimed, so its price is not among the claims.
BudgetInv == TypeOK /\ PendingIsUnclaimed /\ CountersAreClaims

\* Prices are natural numbers, and the stages are finitely many.
LEMMA PricesAreNaturals ==
    ASSUME NEW r \in Resource, NEW S \in SUBSET Stage
    PROVE  IsFiniteSet(S) /\ Naturals(Price(r), S)
<1>1. IsFiniteSet(S)
  BY PlanAssumption, FS_Subset
<1> QED
  BY <1>1, BudgetAssumption DEF Naturals, Price

\* A claim charges the price of its stage once.
LEMMA ClaimCharges ==
    ASSUME BudgetInv, NEW e \in Nat \ {0}, NEW s \in Stage, Claim(e, s)
    PROVE  PendingIsUnclaimed' /\ CountersAreClaims'
<1>0. TypeOK /\ PendingIsUnclaimed /\ CountersAreClaims
  BY DEF BudgetInv
<1>1. /\ st' = [st EXCEPT ![s] = "running"]
      /\ claimedBy' = [claimedBy EXCEPT ![s] = e]
      /\ reserved' = [r \in Resource |-> reserved[r] + Need[s][r]]
      /\ claimedBy[s] = 0
  BY <1>0 DEF Claim, MayClaim, PendingIsUnclaimed
<1>2. Claimed' = Claimed \union {s} /\ s \notin Claimed
  BY <1>0, <1>1 DEF Claimed, TypeOK
<1>3. PendingIsUnclaimed'
  BY <1>0, <1>1 DEF PendingIsUnclaimed, TypeOK
<1>4. ASSUME NEW r \in Resource
      PROVE  reserved'[r] = SumFunctionOnSet(Price(r), Claimed')
  <2>1. IsFiniteSet(Claimed) /\ Naturals(Price(r), Claimed \union {s})
    <3>1. Claimed \in SUBSET Stage /\ Claimed \union {s} \in SUBSET Stage
      BY DEF Claimed
    <3> QED
      BY <3>1, PricesAreNaturals
  <2>2. SumFunctionOnSet(Price(r), Claimed \union {s})
          = SumFunctionOnSet(Price(r), Claimed) + Price(r)[s]
    BY <1>2, <2>1, SumAdd
  <2>3. reserved'[r] = reserved[r] + Price(r)[s]
    BY <1>1 DEF Price
  <2> QED
    BY <1>0, <1>2, <2>2, <2>3 DEF CountersAreClaims
<1>5. CountersAreClaims'
  BY <1>4 DEF CountersAreClaims, Price
<1> QED
  BY <1>3, <1>5

\* No other method touches the counters or the claims, but for the deletion
\* that empties both.
LEMMA BudgetStep == BudgetInv /\ [Next]_vars => BudgetInv'
<1> SUFFICES ASSUME BudgetInv, [Next]_vars PROVE PendingIsUnclaimed' /\ CountersAreClaims'
  BY TypeStep DEF BudgetInv
<1>0. TypeOK /\ PendingIsUnclaimed /\ CountersAreClaims
  BY DEF BudgetInv
<1>1. ASSUME NEW e \in 1..epoch, NEW s \in Stage, Claim(e, s)
      PROVE  PendingIsUnclaimed' /\ CountersAreClaims'
  <2>1. e \in Nat \ {0}
    BY <1>0 DEF TypeOK
  <2> QED
    BY <1>1, <2>1, ClaimCharges
<1>2. CASE DeleteJob
  <2>1. /\ claimedBy' = [s \in Stage |-> 0] /\ reserved' = [r \in Resource |-> 0]
    BY <1>2 DEF DeleteJob, EraseRow, NoUse
  <2>2. Claimed' = {}
    BY <2>1 DEF Claimed
  <2>3. ASSUME NEW r \in Resource PROVE reserved'[r] = SumFunctionOnSet(Price(r), Claimed')
    BY <2>1, <2>2, SumEmpty
  <2>4. CountersAreClaims'
    BY <2>3 DEF CountersAreClaims, Price
  <2> QED
    BY <2>1, <2>4 DEF PendingIsUnclaimed
<1>3. ASSUME UNCHANGED <<reserved, claimedBy>>,
             \A s \in Stage : st'[s] = "pending" => st[s] = "pending"
      PROVE  PendingIsUnclaimed' /\ CountersAreClaims'
  <2>1. Claimed' = Claimed
    BY <1>3 DEF Claimed
  <2>2. CountersAreClaims'
    BY <1>0, <1>3, <2>1 DEF CountersAreClaims, Price
  <2> QED
    BY <1>0, <1>3, <2>2 DEF PendingIsUnclaimed
<1>4. ASSUME NEW e \in 1..epoch, Fenced(e), \A s \in Stage : ~Claim(e, s)
      PROVE  /\ UNCHANGED <<reserved, claimedBy>>
             /\ \A s \in Stage : st'[s] = "pending" => st[s] = "pending"
  <2> DEFINE Kept == /\ UNCHANGED <<reserved, claimedBy>>
                     /\ \A s \in Stage : st'[s] = "pending" => st[s] = "pending"
  <2> USE <1>0 DEF TypeOK, jobVars, stageVars
  <2>1. ASSUME NEW s \in Stage, Skip(e, s) PROVE Kept
    BY <2>1 DEF Skip
  <2>2. ASSUME NEW s \in Stage, NEW tools \in BOOLEAN, NEW d \in Verdicts,
               Complete(e, s, tools, d)
        PROVE  Kept
    BY <2>2 DEF Complete, CompletedAs
  <2>3. ASSUME NEW s \in Stage, FailStage(e, s) PROVE Kept
    BY <2>3 DEF FailStage
  <2>4. ASSUME NEW s \in Stage, NEW n \in FragmentSize, AppendPublicDelta(e, s, n)
        PROVE  Kept
    BY <2>4 DEF AppendPublicDelta
  <2>5. ASSUME NEW w \in Terminal \union {"paused"}, Finish(e, w) PROVE Kept
    BY <2>5 DEF Finish
  <2>6. CASE RecoverAbandoned(e)
    BY <2>6 DEF RecoverAbandoned
  <2> QED
    BY <1>4, <2>1, <2>2, <2>3, <2>4, <2>5, <2>6 DEF Fenced
<1>5. CASE Create \/ BeginExpired \/ Begin \/ RequestCancel \/ Tick \/ UNCHANGED vars
  <2>1. UNCHANGED <<reserved, claimedBy, st>>
    BY <1>5 DEF Create, BeginExpired, Begin, RequestCancel, Tick, vars, jobVars, stageVars
  <2> QED
    BY <1>3, <2>1
<1> QED
  BY <1>1, <1>2, <1>3, <1>4, <1>5 DEF Next

\* What is left of the plan fits what is left of the budget.
LEMMA PendingFits ==
    ASSUME BudgetInv, NEW r \in Resource, NEW s \in Stage, st[s] = "pending"
    PROVE  reserved[r] + Need[s][r] <= Limit[r]
<1>1. s \notin Claimed /\ Claimed \in SUBSET Stage /\ Claimed \union {s} \in SUBSET Stage
  BY DEF BudgetInv, PendingIsUnclaimed, Claimed
<1>2. /\ IsFiniteSet(Claimed) /\ IsFiniteSet(Stage)
      /\ Naturals(Price(r), Claimed \union {s}) /\ Naturals(Price(r), Stage)
  BY <1>1, PricesAreNaturals
<1>3. SumFunctionOnSet(Price(r), Claimed \union {s}) = reserved[r] + Need[s][r]
  <2>1. SumFunctionOnSet(Price(r), Claimed \union {s})
          = SumFunctionOnSet(Price(r), Claimed) + Price(r)[s]
    BY <1>1, <1>2, SumAdd
  <2> QED
    BY <2>1 DEF BudgetInv, CountersAreClaims, Price
<1>4. SumFunctionOnSet(Price(r), Claimed \union {s}) <= SumFunctionOnSet(Price(r), Stage)
  <2>1. \A t \in Claimed \union {s} : Price(r)[t] <= Price(r)[t]
    BY <1>1, <1>2 DEF Naturals
  <2> QED
    BY <1>1, <1>2, <2>1, SumMonotone
<1>5. SumFunctionOnSet(Price(r), Stage) <= Limit[r]
  BY BudgetAssumption DEF Price
<1>6. /\ SumFunctionOnSet(Price(r), Claimed \union {s}) \in Nat
      /\ SumFunctionOnSet(Price(r), Stage) \in Nat /\ Limit[r] \in Nat
  <2>1. IsFiniteSet(Claimed \union {s})
    BY <1>1, PricesAreNaturals
  <2> QED
    BY <1>2, <2>1, SumType, BudgetAssumption
<1> QED
  BY <1>3, <1>4, <1>5, <1>6

\* The counters of a job are the reservations of the stages ever claimed, and
\* every pending stage fits them, whatever crashed, paused or was resumed.
THEOREM BudgetIsSound == Spec => []BudgetIsClaims
<1>1. Init => BudgetInv
  <2> SUFFICES ASSUME Init PROVE PendingIsUnclaimed /\ CountersAreClaims
    BY InitType DEF BudgetInv
  <2>1. Claimed = {} /\ \A r \in Resource : reserved[r] = 0
    BY DEF Init, EmptyRow, NoUse, Claimed
  <2>2. CountersAreClaims
    BY <2>1, SumEmpty DEF CountersAreClaims
  <2> QED
    BY <2>2 DEF Init, EmptyRow, PendingIsUnclaimed
<1>2. BudgetInv => BudgetIsClaims
  BY PendingFits DEF BudgetInv, CountersAreClaims, BudgetIsClaims, Price, Claimed
<1> QED
  BY <1>1, <1>2, BudgetStep, PTL DEF Spec

-----------------------------------------------------------------------------
\* Rewriting one stage row rewrites one phase.
LEMMA PhaseUpdate ==
    ASSUME TypeOK, NEW s \in Stage, NEW v \in StageStates, st' = [st EXCEPT ![s] = v]
    PROVE  [x \in Stage |-> Phase(st'[x])]
             = [[x \in Stage |-> Phase(st[x])] EXCEPT ![s] = Phase(v)]
<1> DEFINE before == [x \in Stage |-> Phase(st[x])]
           after == [x \in Stage |-> Phase(st'[x])]
           target == [before EXCEPT ![s] = Phase(v)]
<1>1. ASSUME NEW x \in Stage PROVE after[x] = target[x]
  BY <1>1 DEF TypeOK
<1>2. after = target
  BY <1>1
<1>3. QED
  BY <1>2

\* The journal implements OnceDag: every transaction is a start, a skip, an
\* end, an answer, a close or an erasure of the abstract plan, or invisible
\* there.  In particular no schedule of crashes, recoveries and stale callers
\* starts a stage twice.
THEOREM Refinement == Spec => KeepsPromise
<1> USE DEF Outcome
<1>1. Init => Dag!Init
  BY DEF Init, EmptyRow, Dag!Init, Terminal, Phase
<1>2. IInv /\ IInv' /\ [Next]_vars => [Dag!Next]_(Dag!vars)
  <2> SUFFICES ASSUME IInv, IInv', [Next]_vars PROVE [Dag!Next]_(Dag!vars)
    OBVIOUS
  <2> USE PlanAssumption
      DEF jobVars, stageVars, publicVars, Terminal, Dag!vars, Dag!Next, TypeOK, StageStates
  <2>1. CASE Create
    BY <2>1 DEF Create
  <2>2. CASE BeginExpired
    BY <2>2 DEF BeginExpired, Dag!Close, IInv, OwnershipAgrees, Phase
  <2>3. CASE Begin
    BY <2>3 DEF Begin
  <2>4. ASSUME NEW e \in 1..epoch, Fenced(e) PROVE [Dag!Next]_(Dag!vars)
    <3>0. runner # 0 /\ jstate \in {"running", "cancelling"} /\ ~tomb /\ tomb' = tomb
      BY <2>4 DEF Fenced, Skip, Claim, MayClaim, Complete, FailStage, AppendPublicDelta,
                  Finish, MayFinish, RecoverAbandoned, OwnsAttempt, Fence, IInv, OwnershipAgrees,
                  ErasedIsAbsent
    <3> USE DEF IInv
    <3>d. ASSUME NEW s \in Stage, NEW d \in Deps[s], Settled(s, d)
          PROVE  Dag!Settled(s, d)
      BY <3>d DEF Settled, Dag!Settled, Phase
    <3>1. ASSUME NEW s \in Stage, Skip(e, s) PROVE Dag!Skip(s)
      <4>1. st' = [st EXCEPT ![s] = "skipped"] /\ st[s] = "pending" /\ s = Debate
        BY <3>1 DEF Skip, MayClaim
      <4>2. \A d \in Deps[s] : Dag!Settled(s, d)
        BY <3>1, <3>d DEF Skip, MayClaim
      <4>3. Outcome = "open" /\ Outcome' = "open"
        BY <3>0, <3>1 DEF Skip
      <4>4. QED
        BY <4>1, <4>2, <4>3, PhaseUpdate DEF Dag!Skip, Phase
    <3>2. ASSUME NEW s \in Stage, Claim(e, s) PROVE Dag!Start(s)
      <4>1. st' = [st EXCEPT ![s] = "running"] /\ st[s] = "pending"
        BY <3>2 DEF Claim, MayClaim
      <4>2. \A d \in Deps[s] : Dag!Settled(s, d)
        BY <3>2, <3>d DEF Claim, MayClaim
      <4>3. Outcome = "open" /\ Outcome' = "open"
        BY <3>0, <3>2 DEF Claim
      <4>4. QED
        BY <4>1, <4>2, <4>3, PhaseUpdate DEF Dag!Start, Phase
    <3>e. ASSUME NEW s \in Stage, NEW v \in StageStates \ {"pending", "running", "skipped"},
                 st[s] = "running", st' = [st EXCEPT ![s] = v], UNCHANGED jobVars
          PROVE  Dag!End(s)
      <4>1. Outcome = "open" /\ Outcome' = "open"
        BY <3>0, <3>e
      <4>2. Phase(st[s]) = "busy" /\ Phase(v) \in {"done", "dead"}
        BY <3>e DEF Phase
      <4>3. QED
        BY <3>e, <4>1, <4>2, PhaseUpdate DEF Dag!End
    <3>3. ASSUME NEW s \in Stage, NEW tools \in BOOLEAN, NEW d \in Verdicts,
                 Complete(e, s, tools, d)
          PROVE  Dag!End(s)
      <4>1. CompletedAs(tools) \in StageStates \ {"pending", "running", "skipped"}
        BY DEF CompletedAs
      <4>2. QED
        BY <3>3, <3>e, <4>1 DEF Complete, OwnsAttempt
    <3>4. ASSUME NEW s \in Stage, FailStage(e, s) PROVE Dag!End(s)
      BY <3>4, <3>e DEF FailStage, OwnsAttempt
    <3>5. ASSUME NEW s \in Stage, NEW n \in FragmentSize, AppendPublicDelta(e, s, n)
          PROVE  UNCHANGED Dag!vars
      BY <3>0, <3>5 DEF AppendPublicDelta
    <3>6. ASSUME NEW w \in Terminal \union {"paused"}, Finish(e, w)
          PROVE  Dag!Answer \/ Dag!Close \/ UNCHANGED Dag!vars
      BY <3>0, <3>6 DEF Finish, MayFinish, FinalAs, InFlight, Dag!Answer, Dag!Close, Phase
    <3>7. ASSUME RecoverAbandoned(e)
          PROVE  Dag!Close \/ UNCHANGED Dag!vars
      BY <3>0, <3>7 DEF RecoverAbandoned, RecoveredAs, Has, Dag!Close, Phase
    <3>8. QED
      BY <2>4, <3>1, <3>2, <3>3, <3>4, <3>5, <3>6, <3>7 DEF Fenced
  <2>5. CASE RequestCancel
    BY <2>5 DEF RequestCancel, IInv, OwnershipAgrees, ErasedIsAbsent, Dag!Close, JobStates, Phase
  <2>6. CASE DeleteJob
    BY <2>6 DEF DeleteJob, EraseRow, IInv, ErasedIsAbsent, Dag!Forget, Phase
  <2>7. CASE Tick
    BY <2>7 DEF Tick
  <2>8. CASE UNCHANGED vars
    BY <2>8 DEF vars
  <2>9. QED
    BY <2>1, <2>2, <2>3, <2>4, <2>5, <2>6, <2>7, <2>8 DEF Next
<1>3. QED
  BY <1>1, <1>2, Invariance, PTL DEF Spec, KeepsPromise, Dag!Spec
-----------------------------------------------------------------------------
(***************************************************************************)
(* The scheduler: runs of LocalRunner over the journal, with their threads,*)
(* crashes, wrong recoveries, revocations and deletions.                   *)
(***************************************************************************)

\* A write to one cell of a table of threads or of results.
LEMMA Cell ==
  ASSUME NEW S, NEW f \in [Runs -> [Stage -> S]], NEW r \in Runs, NEW s \in Stage, NEW v \in S
  PROVE  /\ [f EXCEPT ![r][s] = v] \in [Runs -> [Stage -> S]]
         /\ \A q \in Runs, t \in Stage :
               [f EXCEPT ![r][s] = v][q][t] = IF q = r /\ t = s THEN v ELSE f[q][t]
  OBVIOUS

\* What a check can raise.
Stops == {"failed", "expired", "cancelled"}

\* A check of a run lets it go on or names a reason to stop.
LEMMA CheckOutcome == \A r : Check(r) \in Stops \union {"ok"}
  BY DEF Check, Stops

\* A batch is a finite part of the plan.
LEMMA BatchCount == ASSUME NEW r PROVE Cardinality(Batch(r)) \in Nat
<1>1. Batch(r) \subseteq Stage
  BY DEF Batch, Ready
<1>2. IsFiniteSet(Batch(r))
  BY <1>1, PlanAssumption, FS_Subset
<1> QED BY <1>2, FS_CardinalityType

\* A fence that opens the journal was issued by it.
LEMMA FenceIssued ==
  ASSUME TypeOK, NEW e \in Nat, Fence(e) PROVE e \in 1..epoch
  BY DEF TypeOK, Fence

\* Each step of a run, of a supervisor or of a user is a method of the store
\* under a fence that the store issued, or leaves the journal alone.
LEMMA RunStepIsJournal ==
  ASSUME RunTypeOK, [RunNext]_allVars PROVE [Next]_vars
<1> USE DEF RunTypeOK
<1>1. ASSUME NEW r \in Runs, NEW e \in 1..epoch, e = lease[r], Fenced(e) PROVE [Next]_vars
  BY <1>1 DEF Next
<1>f. ASSUME NEW r \in Runs, Fence(lease[r]) PROVE lease[r] \in 1..epoch
  BY <1>f, FenceIssued
<1>2. ASSUME NEW r \in Runs, NEW k \in Slices, Start(r, k) PROVE [Next]_vars
  BY <1>2 DEF Start, Next
<1>3. ASSUME NEW r \in Runs, StartExpired(r) PROVE [Next]_vars
  BY <1>3 DEF StartExpired, Next
<1>4. ASSUME NEW r \in Runs, Main(r) PROVE [Next]_vars
  <2>1. CASE FinishRun(r)
    <3>1. Finish(lease[r], want[r]) /\ want[r] \in Terminal \union {"paused"}
      BY <2>1 DEF FinishRun
    <3>2. Fence(lease[r]) /\ Fenced(lease[r])
      BY <3>1 DEF Finish, MayFinish, Fenced
    <3> QED BY <3>2, <1>1, <1>f
  <2>2. CASE ~FinishRun(r)
    BY <1>4, <2>2 DEF Main, CheckFails, PlanDone, Pause, LeaveLoop, Submit, Poll, BatchOver,
        FinishRefused, Collect
  <2> QED BY <2>1, <2>2
<1>5. ASSUME NEW r \in Runs, NEW s \in Stage, Thread(r, s) PROVE [Next]_vars
  <2>1. CASE ClaimStage(r, s)
    <3>1. Claim(lease[r], s) BY <2>1 DEF ClaimStage
    <3>2. Fence(lease[r]) /\ Fenced(lease[r])
      BY <3>1 DEF Claim, MayClaim, Fenced
    <3> QED BY <3>2, <1>1, <1>f
  <2>2. CASE SkipStage(r, s)
    <3>1. Skip(lease[r], s) BY <2>2 DEF SkipStage
    <3>2. Fence(lease[r]) /\ Fenced(lease[r])
      BY <3>1 DEF Skip, MayClaim, Fenced
    <3> QED BY <3>2, <1>1, <1>f
  <2>3. ASSUME NEW n \in FragmentSize, PersistDelta(r, s, n) PROVE [Next]_vars
    <3>1. AppendPublicDelta(lease[r], s, n) BY <2>3 DEF PersistDelta
    <3>2. Fence(lease[r]) /\ Fenced(lease[r])
      BY <3>1 DEF AppendPublicDelta, Fenced
    <3> QED BY <3>2, <1>1, <1>f
  <2>4. ASSUME NEW tools \in BOOLEAN, NEW d \in Verdicts, CompleteStage(r, s, tools, d)
        PROVE  [Next]_vars
    <3>1. Complete(lease[r], s, tools, d) BY <2>4 DEF CompleteStage
    <3>2. Fence(lease[r]) /\ Fenced(lease[r])
      BY <3>1 DEF Complete, OwnsAttempt, Fenced
    <3> QED BY <3>2, <1>1, <1>f
  <2>5. CASE RecordFailure(r, s)
    <3>1. CASE UNCHANGED vars BY <3>1
    <3>2. CASE FailStage(lease[r], s)
      <4>1. Fence(lease[r]) /\ Fenced(lease[r])
        BY <3>2 DEF FailStage, OwnsAttempt, Fenced
      <4> QED BY <4>1, <1>1, <1>f
    <3> QED BY <2>5, <3>1, <3>2 DEF RecordFailure
  <2>6. CASE \/ ClaimRefused(r, s) \/ ClearToCall(r, s) \/ CallWorker(r, s)
             \/ WorkerAnswers(r, s) \/ WorkerRaises(r, s) \/ AttemptRaises(r, s)
    BY <2>6 DEF ClaimRefused, ClearToCall, CallWorker, WorkerAnswers, WorkerRaises, AttemptRaises
  <2> QED BY <1>5, <2>1, <2>2, <2>3, <2>4, <2>5, <2>6 DEF Thread
<1>6. ASSUME NEW r \in Runs, Crash(r) PROVE [Next]_vars
  BY <1>6 DEF Crash
<1>7. ASSUME NEW r \in Runs, Supervise(r) PROVE [Next]_vars
  <2>1. Fence(lease[r]) /\ Fenced(lease[r])
    BY <1>7 DEF Supervise, RecoverAbandoned, Fenced
  <2> QED BY <2>1, <1>1, <1>f
<1>8. CASE ChangeGrant
  BY <1>8 DEF ChangeGrant
<1>9. CASE Outside
  BY <1>9 DEF Outside, Next
<1>10. CASE UNCHANGED allVars
  BY <1>10 DEF allVars
<1> QED BY <1>2, <1>3, <1>4, <1>5, <1>6, <1>7, <1>8, <1>9, <1>10 DEF RunNext

\* Every local of a run keeps its type.
LEMMA RunTypeStep ==
  ASSUME RunTypeOK, [RunNext]_allVars PROVE RunTypeOK'
<1>1. TypeOK'
  BY RunStepIsJournal, TypeStep DEF RunTypeOK
<1> USE <1>1, RunnerAssumption DEF RunTypeOK, mainVars, threadVars, runVars, Pcs
<1>c. \A r \in Runs : Check(r) = "ok" \/ Check(r) \in Terminal
  BY CheckOutcome DEF Stops, Terminal
<1>t. "failed" \in Terminal /\ "succeeded" \in Terminal
  BY DEF Terminal
<1>r. ASSUME NEW r \in Runs, NEW next \in {"idle", "dead"}, Return(r, next)
      PROVE  /\ pc' \in [Runs -> Pcs] /\ lease' \in [Runs -> Nat] /\ slice' \in [Runs -> Slices \union {0}]
             /\ started' \in [Runs -> Nat] /\ stopped' \in [Runs -> BOOLEAN]
             /\ failure' \in [Runs -> {"none"} \union Terminal]
             /\ want' \in [Runs -> Terminal \union {"paused"}]
  <2>1. pc' \in [Runs -> Pcs] /\ slice' \in [Runs -> Slices \union {0}] /\ started' \in [Runs -> Nat]
    BY <1>r DEF Return
  <2>2. lease' \in [Runs -> Nat] /\ stopped' \in [Runs -> BOOLEAN]
    BY <1>r DEF Return
  <2>3. failure' \in [Runs -> {"none"} \union Terminal] /\ want' \in [Runs -> Terminal \union {"paused"}]
    BY <1>r, <1>t DEF Return
  <2> QED BY <2>1, <2>2, <2>3
<1>2. ASSUME NEW r \in Runs, NEW k \in Slices, Start(r, k) PROVE RunTypeOK'
  <2>1. epoch \in Nat BY DEF TypeOK
  <2> QED BY <1>2, <2>1 DEF Start, Terminal
<1>3. ASSUME NEW r \in Runs, StartExpired(r) PROVE RunTypeOK'
  BY <1>3 DEF StartExpired
<1>4. ASSUME NEW r \in Runs, Main(r) PROVE RunTypeOK'
  <2>1. CASE CheckFails(r) \/ PlanDone(r) \/ Pause(r)
    <3>1. PICK o \in Terminal \union {"paused"} : LeaveLoop(r, o)
      BY <2>1, <1>c, <1>t DEF CheckFails, PlanDone, Pause
    <3>2. pc' \in [Runs -> Pcs] /\ want' \in [Runs -> Terminal \union {"paused"}]
      BY <3>1 DEF LeaveLoop
    <3> QED BY <3>1, <3>2 DEF LeaveLoop
  <2>2. CASE Submit(r)
    BY <2>2, BatchCount DEF Submit, ThreadStates
  <2>3. CASE Poll(r)
    BY <2>3, <1>c DEF Poll
  <2>4. CASE BatchOver(r)
    BY <2>4 DEF BatchOver
  <2>5. CASE FinishRun(r) \/ FinishRefused(r)
    <3>1. PICK next \in {"idle", "dead"} : Return(r, next) /\ UNCHANGED <<threadVars, granted, calls>>
      BY <2>5 DEF FinishRun, FinishRefused
    <3> QED BY <3>1, <1>r
  <2>6. ASSUME NEW s \in Stage, Collect(r, s) PROVE RunTypeOK'
    <3>1. th' \in [Runs -> [Stage -> ThreadStates]] /\ res' \in [Runs -> [Stage -> Outcomes]]
      <4>1. "none" \in ThreadStates /\ "none" \in Outcomes BY DEF ThreadStates, Outcomes
      <4> QED BY <2>6, <4>1, Cell DEF Collect, SetThread, SetResult
    <3>2. failure' \in [Runs -> {"none"} \union Terminal]
      BY <2>6 DEF Collect, Outcomes
    <3> QED BY <2>6, <3>1, <3>2 DEF Collect
  <2> QED BY <1>4, <2>1, <2>2, <2>3, <2>4, <2>5, <2>6 DEF Main
<1>5. ASSUME NEW r \in Runs, NEW s \in Stage, Thread(r, s) PROVE RunTypeOK'
  <2>1. ASSUME NEW from, NEW to \in ThreadStates, ThreadStep(r, s, from, to),
               calls' \in [Stage -> Nat],
               UNCHANGED res \/ \E o \in Outcomes : SetResult(r, s, o)
        PROVE  RunTypeOK'
    <3>1. th' \in [Runs -> [Stage -> ThreadStates]]
      BY <2>1, Cell DEF ThreadStep, SetThread
    <3>2. res' \in [Runs -> [Stage -> Outcomes]]
      <4>1. CASE UNCHANGED res BY <4>1
      <4>2. ASSUME NEW o \in Outcomes, SetResult(r, s, o) PROVE res' \in [Runs -> [Stage -> Outcomes]]
        BY <4>2, Cell DEF SetResult
      <4> QED BY <2>1, <4>1, <4>2
    <3> QED BY <2>1, <3>1, <3>2 DEF ThreadStep
  <2>2. \A x : x \in {"queued", "claimed", "cleared", "calling", "answered", "raised", "done"} => x \in ThreadStates
    BY DEF ThreadStates
  <2>3. Stops \subseteq Outcomes /\ (Check(r) # "ok" => Check(r) \in Outcomes)
    BY <1>c DEF Stops, Outcomes, Terminal
  <2>4. CASE ClaimStage(r, s)
    BY <2>4, <2>1, <2>2 DEF ClaimStage
  <2>5. CASE SkipStage(r, s)
    <3>1. "skipped" \in Outcomes BY DEF Outcomes
    <3> QED BY <2>5, <2>1, <2>2, <3>1 DEF SkipStage
  <2>6. CASE ClaimRefused(r, s)
    BY <2>6, <2>1, <2>2, <2>3 DEF ClaimRefused, Stops
  <2>7. CASE ClearToCall(r, s)
    BY <2>7, <2>1, <2>2 DEF ClearToCall
  <2>8. CASE CallWorker(r, s)
    BY <2>8, <2>1, <2>2 DEF CallWorker
  <2>9. ASSUME NEW n \in FragmentSize, PersistDelta(r, s, n) PROVE RunTypeOK'
    BY <2>9, <2>1, <2>2 DEF PersistDelta
  <2>10. CASE WorkerAnswers(r, s)
    BY <2>10, <2>1, <2>2 DEF WorkerAnswers
  <2>11. CASE WorkerRaises(r, s)
    BY <2>11, <2>1, <2>2, <2>3 DEF WorkerRaises, Stops
  <2>12. ASSUME NEW tools \in BOOLEAN, NEW d \in Verdicts, CompleteStage(r, s, tools, d)
         PROVE  RunTypeOK'
    <3>1. CompletedAs(tools) \in Outcomes BY DEF CompletedAs, Outcomes, Terminal
    <3> QED BY <2>12, <2>1, <2>2, <3>1 DEF CompleteStage
  <2>13. CASE AttemptRaises(r, s)
    BY <2>13, <2>1, <2>2, <2>3 DEF AttemptRaises, Stops
  <2>14. CASE RecordFailure(r, s)
    BY <2>14, <2>1, <2>2 DEF RecordFailure
  <2> QED BY <1>5, <2>4, <2>5, <2>6, <2>7, <2>8, <2>9, <2>10, <2>11, <2>12, <2>13, <2>14 DEF Thread
<1>6. ASSUME NEW r \in Runs, Crash(r) PROVE RunTypeOK'
  <2>1. "none" \in ThreadStates /\ "none" \in Outcomes
    BY DEF ThreadStates, Outcomes
  <2>2. th' \in [Runs -> [Stage -> ThreadStates]] /\ res' \in [Runs -> [Stage -> Outcomes]]
    BY <1>6, <2>1 DEF Crash, NoThreads
  <2> QED BY <1>6, <1>r, <2>2 DEF Crash
<1>7. ASSUME NEW r \in Runs, Supervise(r) PROVE RunTypeOK'
  BY <1>7 DEF Supervise
<1>8. CASE ChangeGrant
  BY <1>8 DEF ChangeGrant
<1>9. CASE Outside
  BY <1>9 DEF Outside
<1>10. CASE UNCHANGED allVars
  BY <1>10 DEF allVars
<1> QED BY <1>2, <1>3, <1>4, <1>5, <1>6, <1>7, <1>8, <1>9, <1>10 DEF RunNext

\* Every variable of the journal and of its runs keeps its type.
THEOREM RunTypeCorrect == RunSpec => []RunTypeOK
<1>1. RunInit => RunTypeOK
  <2> SUFFICES ASSUME RunInit PROVE RunTypeOK OBVIOUS
  <2>1. TypeOK BY InitType DEF RunInit
  <2> QED BY <2>1 DEF RunInit, RunTypeOK, Pcs, NoThreads, ThreadStates, Outcomes, Terminal
<1> QED BY <1>1, RunTypeStep, PTL DEF RunSpec

\* The scheduler uses the journal only as its methods allow: whatever holds of
\* the journal under any caller holds under runs, crashes and supervisors.
THEOREM RunnerImplementsJournal == RunSpec => Spec
<1>1. RunInit => Init
  BY DEF RunInit
<1>2. RunTypeOK /\ [RunNext]_allVars => [Next]_vars
  BY RunStepIsJournal
<1> QED BY <1>1, <1>2, RunTypeCorrect, PTL DEF RunSpec, Spec

-----------------------------------------------------------------------------
\* No two runs were given the same fence, and the journal is not behind them;
\* an erased job has forgotten its epochs, but nobody opens it any more.
FencesDiffer ==
    ~tomb => \A r \in Runs :
        /\ lease[r] <= epoch
        /\ \A q \in Runs : lease[q] = lease[r] /\ lease[r] # 0 => q = r

\* Threads exist only while their batch is collected; a thread has an outcome
\* once it has raised or is done.
ThreadFits(r, s) ==
    /\ pc[r] # "collect" => th[r][s] = "none"
    /\ th[r][s] \notin {"raised", "done"} <=> res[r][s] = "none"
    /\ th[r][s] = "raised" => res[r][s] \in Stops
    /\ res[r][s] \in {"none", "completed", "skipped", "waiting_tools"} \union Stops

ThreadsFit == \A r \in Runs, s \in Stage : ThreadFits(r, s)

\* The call of a stage is still to come or was made, never both; a stage that is
\* still pending was not called, and one attempt at a time is held anywhere.
CallFits(s) ==
    /\ \A r \in Runs :
          /\ th[r][s] \in {"claimed", "cleared"} => calls[s] = 0
          /\ th[r][s] \in {"calling", "answered"} => calls[s] = 1
          /\ th[r][s] \in Holding => \A q \in Runs : th[q][s] \in Holding => q = r
          /\ st[s] = "pending" /\ ~tomb => th[r][s] \notin Holding
    /\ st[s] = "pending" /\ ~tomb => calls[s] = 0
    /\ st[s] \in {"completed", "waiting_tools"} => calls[s] = 1
    /\ calls[s] <= 1

CallsFit == \A s \in Stage : CallFits(s)

OnlyDebateSkips == \A s \in Stage : st[s] = "skipped" => s = Debate

Good == {"pending", "completed", "skipped"}

\* What a run that owns the job believes of the plan is so: a stage that ended
\* badly is a failure it has seen or is about to collect.
Knows(r) ==
    /\ \A s \in Stage : st[s] = "running" <=> th[r][s] \in Holding
    /\ \A s \in Stage : res[r][s] = "waiting_tools" => st[s] = "waiting_tools"
    /\ failure[r] = "none" =>
          \A s \in Stage : \/ st[s] \in Good \union {"running"}
                           \/ th[r][s] = "done" /\ res[r][s] \notin {"completed", "skipped"}
    /\ failure[r] = "waiting_tools" => Has("waiting_tools")
    /\ pc[r] = "finish" =>
          /\ want[r] = "succeeded" => AllDone
          /\ want[r] = "paused" => \A s \in Stage : st[s] \in Good
          /\ want[r] = "waiting_tools" => Has("waiting_tools")

OwnersKnow == \A r \in Runs : Alive(r) /\ Fence(lease[r]) => Knows(r)

FailuresFit ==
    \A r \in Runs :
        /\ failure[r] \in {"none", "waiting_tools"} \union Stops
        /\ pc[r] = "loop" => failure[r] = "none"

\* The inductive invariant of the scheduler, beside those of the journal.
RunInv == FencesDiffer /\ ThreadsFit /\ CallsFit /\ OnlyDebateSkips /\ FailuresFit /\ OwnersKnow

\* The invariant of the runs holds initially.
LEMMA RunInitially == RunInit => RunInv
<1> SUFFICES ASSUME RunInit PROVE RunInv OBVIOUS
<1> USE DEF RunInit, Init, EmptyRow, NoThreads, Holding
<1>1. FencesDiffer
  BY DEF FencesDiffer
<1>2. ThreadsFit
  BY DEF ThreadsFit, ThreadFits
<1>3. CallsFit
  BY DEF CallsFit, CallFits
<1>4. OnlyDebateSkips
  BY DEF OnlyDebateSkips
<1>5. FailuresFit
  BY DEF FailuresFit
<1>6. OwnersKnow
  BY DEF OwnersKnow, Fence
<1> QED BY <1>1, <1>2, <1>3, <1>4, <1>5, <1>6 DEF RunInv

\* What a thread's step does to the table of threads.
LEMMA ThreadCell ==
  ASSUME RunTypeOK, NEW r \in Runs, NEW s \in Stage, NEW from, NEW to \in ThreadStates,
         ThreadStep(r, s, from, to)
  PROVE  /\ \A q \in Runs, t \in Stage : th'[q][t] = IF q = r /\ t = s THEN to ELSE th[q][t]
         /\ th[r][s] = from /\ Alive(r)
         /\ UNCHANGED <<pc, lease, slice, started, stopped, failure, want>>
  BY Cell DEF ThreadStep, SetThread, RunTypeOK, mainVars

\* Storing a result changes one cell of the results.
LEMMA ResultCell ==
  ASSUME RunTypeOK, NEW r \in Runs, NEW s \in Stage, NEW o \in Outcomes, SetResult(r, s, o)
  PROVE  \A q \in Runs, t \in Stage : res'[q][t] = IF q = r /\ t = s THEN o ELSE res[q][t]
  BY Cell DEF SetResult, RunTypeOK

\* Epochs fall only when the row is erased, which is for good.
LEMMA EpochGrows ==
  ASSUME TypeOK, [Next]_vars
  PROVE  (tomb' \/ epoch' >= epoch) /\ (tomb => tomb')
<1> USE DEF TypeOK, jobVars, stageVars, publicVars
<1>1. ASSUME NEW e \in 1..epoch, Fenced(e) PROVE epoch' >= epoch /\ tomb' = tomb
  BY <1>1 DEF Fenced, Skip, Claim, Complete, FailStage, AppendPublicDelta, Finish, RecoverAbandoned
<1>2. ASSUME Create \/ BeginExpired \/ Begin \/ RequestCancel \/ Tick \/ UNCHANGED vars
      PROVE  epoch' >= epoch /\ tomb' = tomb
  BY <1>2 DEF Create, BeginExpired, Begin, RequestCancel, Tick, vars
<1>3. ASSUME DeleteJob PROVE tomb'
  BY <1>3 DEF DeleteJob
<1> QED BY <1>1, <1>2, <1>3 DEF Next

\* Except for the fence that begin() hands out, a run keeps its fence or drops it.
LEMMA FenceMoves ==
  ASSUME RunTypeOK, [RunNext]_allVars
  PROVE  \/ \E r \in Runs, k \in Slices : Start(r, k)
         \/ \A q \in Runs : lease'[q] \in {lease[q], 0}
<1> USE DEF RunTypeOK, mainVars, threadVars, runVars
<1>1. ASSUME NEW r \in Runs, Main(r) PROVE \A q \in Runs : lease'[q] \in {lease[q], 0}
  BY <1>1 DEF Main, CheckFails, PlanDone, Pause, LeaveLoop, Submit, Poll, BatchOver,
      FinishRun, FinishRefused, Return, Collect
<1>2. ASSUME NEW r \in Runs, NEW s \in Stage, Thread(r, s) PROVE UNCHANGED lease
  BY <1>2 DEF Thread, ThreadStep, ClaimStage, SkipStage, ClaimRefused, ClearToCall, CallWorker,
      PersistDelta, WorkerAnswers, WorkerRaises, CompleteStage, AttemptRaises, RecordFailure
<1>3. ASSUME NEW r \in Runs, Crash(r) PROVE UNCHANGED lease
  BY <1>3 DEF Crash, Return
<1>4. ASSUME NEW r \in Runs, StartExpired(r) \/ Supervise(r) PROVE UNCHANGED lease
  BY <1>4 DEF StartExpired, Supervise
<1>5. ASSUME ChangeGrant \/ Outside \/ UNCHANGED allVars PROVE UNCHANGED lease
  BY <1>5 DEF ChangeGrant, Outside, allVars
<1> QED BY <1>1, <1>2, <1>3, <1>4, <1>5 DEF RunNext

\* No step gives one fence to two runs.
LEMMA FencesStep ==
  ASSUME RunTypeOK, RunTypeOK', FencesDiffer, [RunNext]_allVars PROVE FencesDiffer'
<1> SUFFICES ASSUME ~tomb' PROVE FencesDiffer'
  BY DEF FencesDiffer
<1>0. epoch' >= epoch /\ ~tomb
  BY RunStepIsJournal, EpochGrows DEF RunTypeOK
<1>t. epoch \in Nat /\ epoch' \in Nat /\ lease \in [Runs -> Nat] /\ lease' \in [Runs -> Nat]
  BY DEF RunTypeOK, TypeOK
<1>1. ASSUME NEW r \in Runs, NEW k \in Slices, Start(r, k) PROVE FencesDiffer'
  <2>1. epoch' = epoch + 1 /\ lease' = [lease EXCEPT ![r] = epoch + 1]
    BY <1>1 DEF Start, Begin
  <2> QED BY <1>0, <1>t, <2>1 DEF FencesDiffer
<1>2. ASSUME \A q \in Runs : lease'[q] \in {lease[q], 0} PROVE FencesDiffer'
  BY <1>0, <1>t, <1>2 DEF FencesDiffer
<1> QED BY <1>1, <1>2, FenceMoves

\* A skipped stage is the debate.
LEMMA SkipStep ==
  ASSUME TypeOK, OnlyDebateSkips, [Next]_vars PROVE OnlyDebateSkips'
<1> USE DEF TypeOK, jobVars, stageVars, publicVars, OnlyDebateSkips
<1>1. ASSUME NEW e \in 1..epoch, Fenced(e) PROVE OnlyDebateSkips'
  <2>1. ASSUME NEW s \in Stage, Skip(e, s) PROVE OnlyDebateSkips'
    BY <2>1 DEF Skip
  <2>2. ASSUME NEW s \in Stage, Claim(e, s) \/ FailStage(e, s) PROVE OnlyDebateSkips'
    BY <2>2 DEF Claim, FailStage
  <2>3. ASSUME NEW s \in Stage, NEW tools \in BOOLEAN, NEW d \in Verdicts, Complete(e, s, tools, d)
        PROVE  OnlyDebateSkips'
    <3>1. CompletedAs(tools) # "skipped" BY DEF CompletedAs
    <3> QED BY <2>3, <3>1 DEF Complete
  <2>4. ASSUME NEW s \in Stage, NEW n \in FragmentSize, AppendPublicDelta(e, s, n)
        PROVE  OnlyDebateSkips'
    BY <2>4 DEF AppendPublicDelta
  <2>5. ASSUME NEW w \in Terminal \union {"paused"}, Finish(e, w) PROVE OnlyDebateSkips'
    BY <2>5 DEF Finish
  <2>6. CASE RecoverAbandoned(e)
    BY <2>6 DEF RecoverAbandoned
  <2> QED BY <1>1, <2>1, <2>2, <2>3, <2>4, <2>5, <2>6 DEF Fenced
<1>2. CASE Create \/ BeginExpired \/ Begin \/ RequestCancel \/ Tick \/ UNCHANGED vars
  BY <1>2 DEF Create, BeginExpired, Begin, RequestCancel, Tick, vars
<1>3. CASE DeleteJob
  BY <1>3 DEF DeleteJob, EraseRow
<1> QED BY <1>1, <1>2, <1>3 DEF Next

\* The pool: threads, their results and the failure of a batch.
LEMMA ThreadsStep ==
  ASSUME RunTypeOK, RunTypeOK', ThreadsFit, FailuresFit, [RunNext]_allVars
  PROVE  ThreadsFit' /\ FailuresFit'
<1> USE DEF mainVars, threadVars, runVars
<1>t. /\ pc \in [Runs -> Pcs] /\ failure \in [Runs -> {"none"} \union Terminal]
      /\ th \in [Runs -> [Stage -> ThreadStates]] /\ res \in [Runs -> [Stage -> Outcomes]]
      /\ want \in [Runs -> Terminal \union {"paused"}]
  BY DEF RunTypeOK
<1>u. ASSUME UNCHANGED <<pc, th, res, failure>> PROVE ThreadsFit' /\ FailuresFit'
  BY <1>u DEF ThreadsFit, ThreadFits, FailuresFit
<1>1. ASSUME NEW r \in Runs, NEW k \in Slices, Start(r, k) PROVE ThreadsFit' /\ FailuresFit'
  BY <1>1, <1>t DEF Start, ThreadsFit, ThreadFits, FailuresFit
<1>2. ASSUME NEW r \in Runs, Main(r) PROVE ThreadsFit' /\ FailuresFit'
  <2>1. ASSUME NEW o, LeaveLoop(r, o), pc[r] = "loop" PROVE ThreadsFit' /\ FailuresFit'
    BY <2>1, <1>t DEF LeaveLoop, ThreadsFit, ThreadFits, FailuresFit
  <2>2. CASE CheckFails(r) \/ PlanDone(r) \/ Pause(r)
    BY <2>1, <2>2 DEF CheckFails, PlanDone, Pause, Scheduling
  <2>3. CASE Submit(r)
    <3>1. \A q \in Runs, t \in Stage : th'[q][t] = th[q][t] \/ (q = r /\ th'[q][t] \in {"queued", "none"})
      BY <2>3, <1>t DEF Submit
    <3>2. pc' = [pc EXCEPT ![r] = "collect"] /\ UNCHANGED <<res, failure>> /\ pc[r] = "loop"
      BY <2>3 DEF Submit, Scheduling
    <3>3. \A t \in Stage : res[r][t] = "none"
      BY <3>2 DEF ThreadsFit, ThreadFits
    <3> QED BY <3>1, <3>2, <3>3, <1>t DEF ThreadsFit, ThreadFits, FailuresFit
  <2>4. CASE Poll(r)
    <3>1. failure' = [failure EXCEPT ![r] = Check(r)] /\ Check(r) \in Stops /\ UNCHANGED <<pc, th, res>>
      BY <2>4, CheckOutcome DEF Poll
    <3>2. pc[r] # "loop" BY <2>4 DEF Poll
    <3> QED BY <3>1, <3>2, <1>t DEF ThreadsFit, ThreadFits, FailuresFit
  <2>5. CASE BatchOver(r)
    <3>1. \A t \in Stage : th[r][t] = "none"
      BY <2>5 DEF BatchOver, NoThreads
    <3>2. UNCHANGED <<th, res, failure>>
      BY <2>5 DEF BatchOver
    <3>3. \/ pc' = [pc EXCEPT ![r] = "loop"] /\ failure[r] = "none"
          \/ pc' = [pc EXCEPT ![r] = "finish"]
      BY <2>5 DEF BatchOver
    <3> QED BY <3>1, <3>2, <3>3, <1>t DEF ThreadsFit, ThreadFits, FailuresFit
  <2>6. CASE FinishRun(r) \/ FinishRefused(r)
    <3>1. PICK next \in {"idle", "dead"} : Return(r, next) /\ UNCHANGED <<th, res>> /\ pc[r] = "finish"
      BY <2>6 DEF FinishRun, FinishRefused
    <3>2. pc' = [pc EXCEPT ![r] = next] /\ failure' = [failure EXCEPT ![r] = "none"]
      BY <3>1 DEF Return
    <3> QED BY <3>1, <3>2, <1>t DEF ThreadsFit, ThreadFits, FailuresFit
  <2>7. ASSUME NEW s \in Stage, Collect(r, s) PROVE ThreadsFit' /\ FailuresFit'
    <3>0. "none" \in ThreadStates /\ "none" \in Outcomes BY DEF ThreadStates, Outcomes
    <3>1. \A q \in Runs, t \in Stage : th'[q][t] = IF q = r /\ t = s THEN "none" ELSE th[q][t]
      BY <2>7, <3>0, <1>t, Cell DEF Collect, SetThread
    <3>2. \A q \in Runs, t \in Stage : res'[q][t] = IF q = r /\ t = s THEN "none" ELSE res[q][t]
      BY <2>7, <3>0, ResultCell DEF Collect
    <3>3. UNCHANGED pc /\ pc[r] = "collect" /\ th[r][s] = "done"
      BY <2>7 DEF Collect
    <3>4. \/ UNCHANGED failure
          \/ failure' = [failure EXCEPT ![r] = res[r][s]] /\ res[r][s] \notin {"completed", "skipped"}
      BY <2>7 DEF Collect
    <3>5. ThreadsFit'
      BY <3>1, <3>2, <3>3 DEF ThreadsFit, ThreadFits
    <3>6. FailuresFit'
      <4>1. res[r][s] \in {"none", "completed", "skipped", "waiting_tools"} \union Stops
        BY DEF ThreadsFit, ThreadFits
      <4> QED BY <3>3, <3>4, <4>1, <1>t DEF FailuresFit
    <3> QED BY <3>5, <3>6
  <2> QED BY <1>2, <2>2, <2>3, <2>4, <2>5, <2>6, <2>7 DEF Main
<1>3. ASSUME NEW r \in Runs, NEW s \in Stage, Thread(r, s) PROVE ThreadsFit' /\ FailuresFit'
  <2>1. ASSUME NEW from, NEW to \in ThreadStates \ {"raised", "done"}, from \notin {"none", "raised", "done"},
               ThreadStep(r, s, from, to), UNCHANGED res
        PROVE  ThreadsFit' /\ FailuresFit'
    BY <2>1, ThreadCell DEF ThreadsFit, ThreadFits, FailuresFit
  <2>2. ASSUME NEW from, NEW to \in {"raised", "done"}, from # "none", ThreadStep(r, s, from, to),
               NEW o \in Outcomes, SetResult(r, s, o), to = "raised" => o \in Stops,
               o \in {"completed", "skipped", "waiting_tools"} \union Stops
        PROVE  ThreadsFit' /\ FailuresFit'
    <3>1. to \in ThreadStates BY DEF ThreadStates
    <3> QED BY <2>2, <3>1, ThreadCell, ResultCell DEF Stops, ThreadsFit, ThreadFits, FailuresFit
  <2>s. Stops \subseteq Outcomes /\ {"completed", "skipped", "waiting_tools"} \subseteq Outcomes
    BY DEF Stops, Outcomes, Terminal
  <2>3. CASE ClaimStage(r, s)
    BY <2>3, <2>1 DEF ClaimStage, ThreadStates
  <2>4. CASE SkipStage(r, s)
    BY <2>4, <2>2, <2>s DEF SkipStage
  <2>5. CASE ClaimRefused(r, s)
    <3>1. PICK o \in Stops : SetResult(r, s, o)
      BY <2>5, CheckOutcome DEF ClaimRefused, Stops
    <3> QED BY <2>5, <3>1, <2>2, <2>s DEF ClaimRefused
  <2>6. CASE ClearToCall(r, s)
    BY <2>6, <2>1 DEF ClearToCall, ThreadStates
  <2>7. CASE CallWorker(r, s)
    BY <2>7, <2>1 DEF CallWorker, ThreadStates
  <2>8. ASSUME NEW n \in FragmentSize, PersistDelta(r, s, n) PROVE ThreadsFit' /\ FailuresFit'
    BY <2>8, <2>1 DEF PersistDelta, ThreadStates
  <2>9. CASE WorkerAnswers(r, s)
    BY <2>9, <2>1 DEF WorkerAnswers, ThreadStates
  <2>10. CASE WorkerRaises(r, s)
    <3>1. PICK o \in Stops : SetResult(r, s, o)
      BY <2>10 DEF WorkerRaises, Stops
    <3> QED BY <2>10, <3>1, <2>2, <2>s DEF WorkerRaises
  <2>11. ASSUME NEW tools \in BOOLEAN, NEW d \in Verdicts, CompleteStage(r, s, tools, d)
         PROVE  ThreadsFit' /\ FailuresFit'
    <3>1. CompletedAs(tools) \in {"completed", "waiting_tools"} \union Stops
      BY DEF CompletedAs, Stops
    <3> QED BY <2>11, <3>1, <2>2, <2>s DEF CompleteStage
  <2>12. CASE AttemptRaises(r, s)
    <3>1. PICK o \in Stops : SetResult(r, s, o)
      BY <2>12, CheckOutcome DEF AttemptRaises, Stops
    <3>2. PICK from \in {"claimed", "answered"} : ThreadStep(r, s, from, "raised")
      BY <2>12 DEF AttemptRaises
    <3> QED BY <3>1, <3>2, <2>2, <2>s
  <2>13. CASE RecordFailure(r, s)
    <3>0. "done" \in ThreadStates BY DEF ThreadStates
    <3>1. ThreadStep(r, s, "raised", "done") /\ UNCHANGED res
      BY <2>13 DEF RecordFailure
    <3> QED BY <3>0, <3>1, ThreadCell DEF ThreadsFit, ThreadFits, FailuresFit
  <2> QED BY <1>3, <2>3, <2>4, <2>5, <2>6, <2>7, <2>8, <2>9, <2>10, <2>11, <2>12, <2>13 DEF Thread
<1>4. ASSUME NEW r \in Runs, Crash(r) PROVE ThreadsFit' /\ FailuresFit'
  <2>1. pc' = [pc EXCEPT ![r] = "dead"] /\ failure' = [failure EXCEPT ![r] = "none"]
    BY <1>4 DEF Crash, Return
  <2>2. th' = [th EXCEPT ![r] = NoThreads] /\ res' = [res EXCEPT ![r] = NoThreads]
    BY <1>4 DEF Crash
  <2> QED BY <2>1, <2>2, <1>t DEF NoThreads, ThreadsFit, ThreadFits, FailuresFit
<1>5. ASSUME NEW r \in Runs, StartExpired(r) \/ Supervise(r) PROVE ThreadsFit' /\ FailuresFit'
  BY <1>5, <1>u DEF StartExpired, Supervise
<1>6. ASSUME ChangeGrant \/ Outside \/ UNCHANGED allVars PROVE ThreadsFit' /\ FailuresFit'
  BY <1>6, <1>u DEF ChangeGrant, Outside, allVars
<1> QED BY <1>1, <1>2, <1>3, <1>4, <1>5, <1>6 DEF RunNext

\* Steps that make no call and take no attempt keep the calls in order, if they
\* finish no stage either.
LEMMA CallsKept ==
  ASSUME CallsFit, UNCHANGED calls,
         \A q \in Runs, t \in Stage : th'[q][t] = th[q][t] \/ th'[q][t] \notin Holding,
         \/ tomb' /\ \A t \in Stage : st'[t] = "pending"
         \/ /\ tomb' = tomb
            /\ \A t \in Stage :
                  st'[t] = st[t] \/ st'[t] \notin {"pending", "completed", "waiting_tools"}
  PROVE  CallsFit'
<1> SUFFICES ASSUME NEW s \in Stage PROVE CallFits(s)'
  BY DEF CallsFit
<1>1. CallFits(s)
  BY DEF CallsFit
<1> QED BY <1>1 DEF CallFits, Holding

\* Every step keeps the calls in line with the rows.
LEMMA CallsStep ==
  ASSUME RunTypeOK, RunTypeOK', CallsFit, IInv, [RunNext]_allVars
  PROVE  CallsFit'
<1> USE DEF mainVars, threadVars, runVars, jobVars, stageVars, publicVars
<1>t. /\ th \in [Runs -> [Stage -> ThreadStates]] /\ st \in [Stage -> StageStates]
      /\ calls \in [Stage -> Nat]
  BY DEF RunTypeOK, TypeOK
<1>1. ASSUME NEW r \in Runs, NEW k \in Slices, Start(r, k) PROVE CallsFit'
  BY <1>1, CallsKept DEF Start, Begin
<1>2. ASSUME NEW r \in Runs, Main(r) PROVE CallsFit'
  <2>1. CASE CheckFails(r) \/ PlanDone(r) \/ Pause(r) \/ Poll(r) \/ BatchOver(r) \/ FinishRefused(r)
    BY <2>1, CallsKept DEF CheckFails, PlanDone, Pause, LeaveLoop, Poll, BatchOver, FinishRefused, vars
  <2>2. CASE Submit(r)
    <3>1. \A q \in Runs, t \in Stage : th'[q][t] = th[q][t] \/ th'[q][t] \in {"queued", "none"}
      BY <2>2, <1>t DEF Submit
    <3> QED BY <2>2, <3>1, CallsKept DEF Submit, vars, Holding
  <2>3. CASE FinishRun(r)
    BY <2>3, CallsKept DEF FinishRun, Finish
  <2>4. ASSUME NEW s \in Stage, Collect(r, s) PROVE CallsFit'
    <3>0. "none" \in ThreadStates BY DEF ThreadStates
    <3>1. \A q \in Runs, t \in Stage : th'[q][t] = IF q = r /\ t = s THEN "none" ELSE th[q][t]
      BY <2>4, <3>0, <1>t, Cell DEF Collect, SetThread
    <3> QED BY <2>4, <3>1, CallsKept DEF Collect, vars, Holding
  <2> QED BY <1>2, <2>1, <2>2, <2>3, <2>4 DEF Main
<1>3. ASSUME NEW r \in Runs, NEW s \in Stage, Thread(r, s) PROVE CallsFit'
  <2>0. \A x \in {"queued", "claimed", "cleared", "calling", "answered", "raised", "done"} : x \in ThreadStates
    BY DEF ThreadStates
  <2>1. ASSUME NEW from, ThreadStep(r, s, from, "done"), UNCHANGED <<calls, tomb>>,
               \A t \in Stage : st'[t] = st[t] \/ st'[t] \notin {"pending", "completed", "waiting_tools"}
        PROVE  CallsFit'
    <3>1. \A q \in Runs, t \in Stage : th'[q][t] = IF q = r /\ t = s THEN "done" ELSE th[q][t]
      BY <2>1, <2>0, ThreadCell
    <3> QED BY <2>1, <3>1, CallsKept DEF Holding
  \* A thread that keeps its attempt.
  <2>2. ASSUME NEW from \in Holding, NEW to \in Holding, ThreadStep(r, s, from, to),
               UNCHANGED <<calls, tomb, st>>,
               to \in {"claimed", "cleared"} => calls[s] = 0,
               to \in {"calling", "answered"} => calls[s] = 1
        PROVE  CallsFit'
    <3>0. to \in ThreadStates BY DEF Holding, ThreadStates
    <3>1. /\ \A q \in Runs, t \in Stage : th'[q][t] = IF q = r /\ t = s THEN to ELSE th[q][t]
          /\ th[r][s] = from
      BY <2>2, <3>0, ThreadCell
    <3> SUFFICES ASSUME NEW x \in Stage PROVE CallFits(x)'
      BY DEF CallsFit
    <3>2. CallFits(x) BY DEF CallsFit
    <3> QED BY <2>2, <3>1, <3>2 DEF CallFits
  <2>c. CallFits(s) BY DEF CallsFit
  <2>3. CASE ClaimStage(r, s)
    <3>1. Claim(lease[r], s) /\ UNCHANGED calls
      BY <2>3 DEF ClaimStage
    <3>2. st[s] = "pending" /\ ~tomb /\ st' = [st EXCEPT ![s] = "running"] /\ tomb' = tomb
      BY <3>1 DEF Claim, MayClaim, Working, IInv, ErasedIsAbsent
    <3>3. \A q \in Runs, t \in Stage : th'[q][t] = IF q = r /\ t = s THEN "claimed" ELSE th[q][t]
      BY <2>3, <2>0, ThreadCell DEF ClaimStage
    <3> SUFFICES ASSUME NEW x \in Stage PROVE CallFits(x)'
      BY DEF CallsFit
    <3>4. CallFits(x) BY DEF CallsFit
    <3>5. CASE x = s
      BY <3>1, <3>2, <3>3, <3>4, <3>5, <1>t DEF CallFits, Holding
    <3>6. CASE x # s
      BY <3>1, <3>2, <3>3, <3>4, <3>6, <1>t DEF CallFits
    <3> QED BY <3>5, <3>6
  <2>4. CASE SkipStage(r, s)
    BY <2>4, <2>1, <1>t DEF SkipStage, Skip
  <2>5. CASE ClaimRefused(r, s)
    BY <2>5, <2>1 DEF ClaimRefused, vars
  <2>6. CASE ClearToCall(r, s)
    <3>1. th[r][s] = "claimed" BY <2>6 DEF ClearToCall, ThreadStep
    <3>2. ThreadStep(r, s, "claimed", "cleared") /\ UNCHANGED <<calls, tomb, st>>
      BY <2>6 DEF ClearToCall, vars
    <3>3. calls[s] = 0 BY <2>c, <3>1 DEF CallFits
    <3> QED BY <2>2, <3>2, <3>3 DEF Holding
  <2>7. CASE CallWorker(r, s)
    <3>1. /\ \A q \in Runs, t \in Stage : th'[q][t] = IF q = r /\ t = s THEN "calling" ELSE th[q][t]
          /\ th[r][s] = "cleared"
      BY <2>7, <2>0, ThreadCell DEF CallWorker
    <3>2. calls' = [calls EXCEPT ![s] = calls[s] + 1] /\ UNCHANGED <<st, tomb>>
      BY <2>7 DEF CallWorker, vars
    <3>3. calls[s] = 0 BY <2>c, <3>1 DEF CallFits
    <3>4. calls' = [calls EXCEPT ![s] = 1] BY <3>2, <3>3
    <3> SUFFICES ASSUME NEW x \in Stage PROVE CallFits(x)'
      BY DEF CallsFit
    <3>5. CallFits(x) BY DEF CallsFit
    <3>6. CASE x = s
      BY <3>1, <3>2, <3>4, <3>5, <3>6, <1>t DEF CallFits, Holding
    <3>7. CASE x # s
      BY <3>1, <3>2, <3>4, <3>5, <3>7, <1>t DEF CallFits
    <3> QED BY <3>6, <3>7
  <2>8. ASSUME NEW n \in FragmentSize, PersistDelta(r, s, n) PROVE CallsFit'
    <3>1. ThreadStep(r, s, "calling", "calling") /\ UNCHANGED <<calls, tomb, st>>
      BY <2>8 DEF PersistDelta, AppendPublicDelta
    <3>2. calls[s] = 1 BY <2>c, <3>1 DEF CallFits, ThreadStep
    <3> QED BY <2>2, <3>1, <3>2 DEF Holding
  <2>9. CASE WorkerAnswers(r, s)
    <3>1. ThreadStep(r, s, "calling", "answered") /\ UNCHANGED <<calls, tomb, st>>
      BY <2>9 DEF WorkerAnswers, vars
    <3>2. calls[s] = 1 BY <2>c, <3>1 DEF CallFits, ThreadStep
    <3> QED BY <2>2, <3>1, <3>2 DEF Holding
  <2>10. CASE WorkerRaises(r, s)
    BY <2>10, <2>2 DEF WorkerRaises, vars, Holding
  <2>11. ASSUME NEW tools \in BOOLEAN, NEW d \in Verdicts, CompleteStage(r, s, tools, d) PROVE CallsFit'
    <3>1. /\ \A q \in Runs, t \in Stage : th'[q][t] = IF q = r /\ t = s THEN "done" ELSE th[q][t]
          /\ th[r][s] = "answered"
      BY <2>11, <2>0, ThreadCell DEF CompleteStage
    <3>2. st' = [st EXCEPT ![s] = CompletedAs(tools)] /\ UNCHANGED <<calls, tomb>> /\ CompletedAs(tools) # "pending"
      BY <2>11 DEF CompleteStage, Complete, CompletedAs
    <3> SUFFICES ASSUME NEW x \in Stage PROVE CallFits(x)'
      BY DEF CallsFit
    <3>5. CallFits(x) BY DEF CallsFit
    <3>6. CASE x = s
      BY <3>1, <3>2, <3>5, <3>6, <1>t DEF CallFits, Holding
    <3>7. CASE x # s
      BY <3>1, <3>2, <3>5, <3>7, <1>t DEF CallFits
    <3> QED BY <3>6, <3>7
  <2>12. CASE AttemptRaises(r, s)
    BY <2>12, <2>2 DEF AttemptRaises, vars, Holding
  <2>13. CASE RecordFailure(r, s)
    <3>1. ThreadStep(r, s, "raised", "done") /\ UNCHANGED calls
      BY <2>13 DEF RecordFailure
    <3>2. CASE UNCHANGED vars
      BY <3>1, <3>2, <2>1 DEF vars
    <3>3. CASE FailStage(lease[r], s)
      BY <3>1, <3>3, <2>1, <1>t DEF FailStage
    <3> QED BY <2>13, <3>2, <3>3 DEF RecordFailure
  <2> QED BY <1>3, <2>3, <2>4, <2>5, <2>6, <2>7, <2>8, <2>9, <2>10, <2>11, <2>12, <2>13 DEF Thread
<1>4. ASSUME NEW r \in Runs, Crash(r) PROVE CallsFit'
  <2>1. \A q \in Runs, t \in Stage : th'[q][t] = th[q][t] \/ th'[q][t] = "none"
    BY <1>4, <1>t DEF Crash, NoThreads
  <2> QED BY <1>4, <2>1, CallsKept DEF Crash, vars, Holding
<1>5. ASSUME NEW r \in Runs, StartExpired(r) PROVE CallsFit'
  BY <1>5, CallsKept DEF StartExpired, BeginExpired
<1>6. ASSUME NEW r \in Runs, Supervise(r) PROVE CallsFit'
  BY <1>6, <1>t, CallsKept DEF Supervise, RecoverAbandoned
<1>7. CASE Outside
  <2>1. UNCHANGED <<calls, th>> BY <1>7 DEF Outside
  <2>2. CASE DeleteJob
    BY <2>1, <2>2, CallsKept DEF DeleteJob, EraseRow
  <2>3. CASE Create \/ RequestCancel \/ Tick
    BY <2>1, <2>3, CallsKept DEF Create, RequestCancel, Tick
  <2> QED BY <1>7, <2>2, <2>3 DEF Outside
<1>8. ASSUME ChangeGrant \/ UNCHANGED allVars PROVE CallsFit'
  BY <1>8, CallsKept DEF ChangeGrant, allVars, vars
<1> QED BY <1>1, <1>2, <1>3, <1>4, <1>5, <1>6, <1>7, <1>8 DEF RunNext

\* What a run knows stays so while nothing that it knows of changes.
LEMMA KnowsKept ==
  ASSUME NEW q \in Runs, Knows(q), UNCHANGED st,
         pc'[q] = pc[q], failure'[q] = failure[q], want'[q] = want[q],
         \A t \in Stage : th'[q][t] = th[q][t] /\ res'[q][t] = res[q][t]
  PROVE  Knows(q)'
  BY DEF Knows, Has, AllDone

\* Nobody but r has the fence under which r opened the journal.
LEMMA OneOwner ==
  ASSUME IInv, FencesDiffer, NEW q \in Runs, NEW r \in Runs, Fence(lease[q]), Fence(lease[r])
  PROVE  q = r
<1>1. runner # 0 /\ ~tomb
  BY DEF Fence, IInv, OwnershipAgrees, ErasedIsAbsent
<1> QED BY <1>1 DEF FencesDiffer, Fence

\* Every step keeps what an owner knows of the plan.
LEMMA OwnersStep ==
  ASSUME RunTypeOK, RunTypeOK', RunInv, ThreadsFit', FailuresFit', IInv, [RunNext]_allVars
  PROVE  OwnersKnow'
<1> USE DEF mainVars, threadVars, runVars, jobVars, stageVars, publicVars
<1> SUFFICES ASSUME NEW q \in Runs, Alive(q)', Fence(lease[q])' PROVE Knows(q)'
  BY DEF OwnersKnow
<1>t. /\ th \in [Runs -> [Stage -> ThreadStates]] /\ st \in [Stage -> StageStates]
      /\ res \in [Runs -> [Stage -> Outcomes]] /\ pc \in [Runs -> Pcs] /\ lease \in [Runs -> Nat]
      /\ failure \in [Runs -> {"none"} \union Terminal] /\ epoch \in Nat /\ runner \in Nat
      /\ want \in [Runs -> Terminal \union {"paused"}]
  BY DEF RunTypeOK, TypeOK
<1>r. runner' # 0
  BY DEF Fence
\* What q knew, if its fence was good before the step.
<1>o. ASSUME Alive(q), Fence(lease[q]) PROVE Knows(q)
  BY <1>o DEF RunInv, OwnersKnow
<1>1. ASSUME NEW r \in Runs, NEW k \in Slices, Start(r, k) PROVE Knows(q)'
  <2>1. /\ jstate \in {"queued", "paused"} /\ runner = 0 /\ runner' = epoch + 1 /\ epoch' = epoch + 1 /\ UNCHANGED st
        /\ lease' = [lease EXCEPT ![r] = epoch + 1]
    BY <1>1 DEF Start, Begin
  <2>2. ~tomb /\ \A s \in Stage : st[s] \in Good
    BY <2>1 DEF IInv, OwnershipAgrees, ErasedIsAbsent, Good
  <2>3. q = r
    <3>1. lease'[q] = epoch + 1
      BY <2>1 DEF Fence
    <3>2. lease[q] <= epoch /\ lease[q] \in Nat
      BY <1>t, <2>2 DEF RunInv, FencesDiffer
    <3> QED BY <1>t, <2>1, <3>1, <3>2
  <2>4. /\ pc'[q] = "loop" /\ failure'[q] = "none" /\ UNCHANGED <<th, res>> /\ pc[q] = "idle"
    BY <1>1, <2>3, <1>t DEF Start
  <2>5. \A s \in Stage : th[q][s] = "none" /\ res[q][s] = "none"
    BY <2>4 DEF RunInv, ThreadsFit, ThreadFits
  <2> QED BY <2>1, <2>2, <2>4, <2>5 DEF Knows, Good, Holding
<1>2. ASSUME NEW r \in Runs, Main(r), ~FinishRun(r) PROVE Knows(q)'
  <2>1. UNCHANGED vars
    BY <1>2 DEF Main, CheckFails, PlanDone, Pause, LeaveLoop, Submit, Poll, BatchOver, FinishRefused, Collect
  <2>2. UNCHANGED <<runner, epoch, st, tomb>>
    BY <2>1 DEF vars
  <2>3. CASE q # r
    <3>1. /\ pc'[q] = pc[q] /\ failure'[q] = failure[q] /\ want'[q] = want[q] /\ lease'[q] = lease[q]
      BY <1>2, <2>3, <1>t DEF Main, CheckFails, PlanDone, Pause, LeaveLoop, Submit, Poll, BatchOver, FinishRefused,
          Return, Collect
    <3>2. \A t \in Stage : th'[q][t] = th[q][t] /\ res'[q][t] = res[q][t]
      <4>1. ASSUME NEW s \in Stage, Collect(r, s) PROVE \A t \in Stage : th'[q][t] = th[q][t] /\ res'[q][t] = res[q][t]
        BY <4>1, <2>3, <1>t DEF Collect, SetThread, SetResult
      <4>2. CASE Submit(r)
        BY <4>2, <2>3, <1>t DEF Submit
      <4> QED BY <1>2, <4>1, <4>2 DEF Main, CheckFails, PlanDone, Pause, LeaveLoop, Poll, BatchOver, FinishRefused
    <3>3. Alive(q) /\ Fence(lease[q])
      BY <3>1, <2>2 DEF Alive, Fence
    <3> QED BY <1>o, <2>2, <3>1, <3>2, <3>3, KnowsKept
  <2>4. CASE q = r
    <3>0. CASE FinishRefused(r)
      <4>1. pc'[r] \in {"dead", "idle"}
        BY <3>0, <1>t DEF FinishRefused, Return
      <4> QED BY <4>1, <2>4 DEF Alive
    <3>a. ASSUME ~FinishRefused(r) PROVE Alive(r) /\ UNCHANGED lease
      BY <3>a, <1>2 DEF Main, CheckFails, PlanDone, Pause, LeaveLoop, Submit, Poll, BatchOver, Collect, Alive, Scheduling
    <3>k. ASSUME ~FinishRefused(r) PROVE Knows(r)
      BY <3>a, <3>k, <2>2, <2>4, <1>o DEF Fence
    <3>1. ASSUME NEW o, LeaveLoop(r, o), pc[r] = "loop", Knows(r),
                 o = "succeeded" => AllDone, o = "paused" => \A s \in Stage : st[s] \in Good, o # "waiting_tools"
          PROVE  Knows(r)'
      <4>1. want'[r] = o /\ UNCHANGED <<th, res, failure>>
        BY <3>1, <1>t DEF LeaveLoop
      <4> QED BY <3>1, <4>1, <2>2 DEF Knows, Has, AllDone
    <3>g. ASSUME pc[r] = "loop", Knows(r) PROVE \A s \in Stage : st[s] \in Good
      BY <3>g DEF Knows, RunInv, ThreadsFit, ThreadFits, FailuresFit, Holding
    <3>2. CASE CheckFails(r)
      BY <3>2, <3>1, <3>k, <2>4, CheckOutcome DEF CheckFails, Stops, FinishRefused, LeaveLoop
    <3>3. CASE PlanDone(r)
      BY <3>3, <3>1, <3>k, <2>4 DEF PlanDone, Scheduling, FinishRefused
    <3>4. CASE Pause(r)
      BY <3>4, <3>1, <3>k, <3>g, <2>4 DEF Pause, Scheduling, FinishRefused
    <3>5. CASE Submit(r)
      <4>1. pc[r] = "loop" /\ pc'[r] = "collect" /\ UNCHANGED <<res, failure, want>>
        BY <3>5, <1>t DEF Submit, Scheduling
      <4>2. \A t \in Stage : th'[r][t] \in {"queued", "none"}
        BY <3>5, <1>t DEF Submit
      <4>3. Knows(r) /\ \A s \in Stage : st[s] \in Good
        BY <3>k, <3>g, <4>1 DEF FinishRefused
      <4> QED BY <2>4, <2>2, <4>1, <4>2, <4>3 DEF Knows, Holding, Good, Has
    <3>6. CASE Poll(r)
      <4>1. failure'[r] \in Stops /\ UNCHANGED <<pc, th, res>> /\ pc[r] = "collect"
        BY <3>6, <1>t, CheckOutcome DEF Poll
      <4>2. Knows(r) BY <3>k, <4>1 DEF FinishRefused
      <4> QED BY <2>4, <2>2, <4>1, <4>2 DEF Knows, Stops
    <3>7. CASE BatchOver(r)
      <4>1. pc[r] = "collect" /\ UNCHANGED <<th, res, failure>>
        BY <3>7 DEF BatchOver
      <4>2. \/ pc'[r] = "loop"
            \/ pc'[r] = "finish" /\ want'[r] = failure[r]
        BY <3>7, <1>t DEF BatchOver
      <4>3. Knows(r) BY <3>k, <4>1 DEF FinishRefused
      <4>4. failure[r] \notin {"succeeded", "paused"}
        BY DEF RunInv, FailuresFit, Stops
      <4> QED BY <2>4, <2>2, <4>1, <4>2, <4>3, <4>4 DEF Knows, Has
    <3>8. ASSUME NEW s \in Stage, Collect(r, s) PROVE Knows(r)'
      <4>0. "none" \in ThreadStates /\ "none" \in Outcomes BY DEF ThreadStates, Outcomes
      <4>1. \A t \in Stage : th'[r][t] = IF t = s THEN "none" ELSE th[r][t]
        BY <3>8, <4>0, <1>t, Cell DEF Collect, SetThread
      <4>2. \A t \in Stage : res'[r][t] = IF t = s THEN "none" ELSE res[r][t]
        BY <3>8, <4>0, ResultCell DEF Collect
      <4>3. UNCHANGED <<pc, want>> /\ pc[r] = "collect" /\ th[r][s] = "done"
        BY <3>8 DEF Collect
      <4>4. \/ failure'[r] = failure[r] /\ (failure[r] # "none" \/ res[r][s] \in {"completed", "skipped"})
            \/ failure'[r] = res[r][s] /\ res[r][s] \notin {"completed", "skipped"}
        BY <3>8, <1>t DEF Collect
      <4>5. Knows(r) BY <3>k, <4>3 DEF FinishRefused
      \* A thread that is done has an outcome.
      <4>6. res[r][s] # "none"
        BY <4>3 DEF RunInv, ThreadsFit, ThreadFits
      <4>7. \A t \in Stage : st'[t] = "running" <=> th'[r][t] \in Holding
        BY <4>1, <4>3, <4>5, <2>2 DEF Knows, Holding
      <4>8. failure'[r] = "waiting_tools" => Has("waiting_tools")'
        BY <4>4, <4>5, <2>2 DEF Knows, Has
      <4>9. failure'[r] = "none" =>
               \A t \in Stage : \/ st'[t] \in Good \union {"running"}
                                \/ th'[r][t] = "done" /\ res'[r][t] \notin {"completed", "skipped"}
        <5> SUFFICES ASSUME failure'[r] = "none", NEW t \in Stage
                     PROVE  \/ st'[t] \in Good \union {"running"}
                            \/ th'[r][t] = "done" /\ res'[r][t] \notin {"completed", "skipped"}
          OBVIOUS
        <5>1. CASE res[r][s] \in {"completed", "skipped"} /\ failure[r] = "none"
          BY <5>1, <4>1, <4>2, <4>5, <2>2 DEF Knows
        <5> QED BY <4>4, <4>6, <5>1
      <4> QED BY <4>1, <4>2, <4>3, <4>5, <4>7, <4>8, <4>9, <2>2 DEF Knows
    <3> QED BY <1>2, <2>4, <3>0, <3>2, <3>3, <3>4, <3>5, <3>6, <3>7, <3>8 DEF Main
  <2> QED BY <2>3, <2>4
<1>3. ASSUME NEW r \in Runs, FinishRun(r) PROVE FALSE
  BY <1>3, <1>r DEF FinishRun, Finish
<1>4. ASSUME NEW r \in Runs, NEW s \in Stage, Thread(r, s) PROVE Knows(q)'
  <2>0. \A x \in {"queued", "claimed", "cleared", "calling", "answered", "raised", "done"} : x \in ThreadStates
    BY DEF ThreadStates
  <2>s. Stops \subseteq Outcomes /\ {"completed", "skipped", "waiting_tools"} \subseteq Outcomes
    BY DEF Stops, Outcomes, Terminal
  <2>1. Alive(r) /\ UNCHANGED <<pc, lease, failure, want>>
    BY <1>4 DEF Thread, ThreadStep, ClaimStage, SkipStage, ClaimRefused, ClearToCall, CallWorker,
        PersistDelta, WorkerAnswers, WorkerRaises, CompleteStage, AttemptRaises, RecordFailure
  <2>2. UNCHANGED <<runner, epoch>>
    BY <1>4 DEF Thread, ClaimStage, SkipStage, ClaimRefused, ClearToCall, CallWorker,
        PersistDelta, WorkerAnswers, WorkerRaises, CompleteStage, AttemptRaises, RecordFailure, vars,
        Claim, Skip, AppendPublicDelta, Complete, FailStage
  <2>3. Alive(q) /\ Fence(lease[q]) /\ Knows(q)
    BY <2>1, <2>2, <1>o DEF Alive, Fence
  \* A thread of r that does not change the plan.
  <2>a. ASSUME NEW from, NEW to \in ThreadStates, ThreadStep(r, s, from, to), UNCHANGED st,
               UNCHANGED res \/ (to \in {"raised", "done"} /\ \E o \in Stops : SetResult(r, s, o)),
               from \in Holding <=> to \in Holding, from # "done"
        PROVE  Knows(q)'
    <3>1. /\ \A x \in Runs, t \in Stage : th'[x][t] = IF x = r /\ t = s THEN to ELSE th[x][t]
          /\ th[r][s] = from
      BY <2>a, ThreadCell
    <3>2. CASE UNCHANGED res
      BY <2>1, <2>3, <2>a, <3>1, <3>2 DEF Knows, Has, AllDone
    <3>3. ASSUME NEW o \in Stops, SetResult(r, s, o) PROVE Knows(q)'
      <4>1. \A x \in Runs, t \in Stage : res'[x][t] = IF x = r /\ t = s THEN o ELSE res[x][t]
        BY <3>3, <2>s, ResultCell
      <4> QED BY <2>1, <2>3, <2>a, <3>1, <4>1, <3>3 DEF Knows, Has, AllDone, Stops
    <3> QED BY <2>a, <3>2, <3>3
  \* A thread of r that owns the job and settles or claims its stage.
  <2>b. ASSUME NEW from, NEW to \in ThreadStates, ThreadStep(r, s, from, to), from # "none",
               Fence(lease[r]), NEW v, st' = [st EXCEPT ![s] = v], st[s] \in {"pending", "running"},
               v = "running" <=> to \in Holding,
               NEW o \in Outcomes, (UNCHANGED res /\ res[r][s] = o) \/ SetResult(r, s, o),
               o = "waiting_tools" => v = "waiting_tools",
               v \in Good \union {"running"} \/ (to = "done" /\ o \notin {"completed", "skipped"})
        PROVE  Knows(q)'
    <3>0. q = r
      BY <2>3, <2>b, OneOwner DEF RunInv
    <3>1. /\ \A t \in Stage : th'[r][t] = IF t = s THEN to ELSE th[r][t]
          /\ th[r][s] = from
      BY <2>b, ThreadCell
    <3>2. \A t \in Stage : res'[r][t] = IF t = s THEN o ELSE res[r][t]
      BY <2>b, ResultCell
    <3>3. \A t \in Stage : st'[t] = IF t = s THEN v ELSE st[t]
      BY <2>b, <1>t
    <3>4. pc[r] = "collect"
      BY <3>1, <2>b DEF RunInv, ThreadsFit, ThreadFits
    <3>5. Has("waiting_tools") => Has("waiting_tools")'
      BY <3>3, <2>b DEF Has
    <3>6. pc'[r] = "collect" /\ failure'[r] = failure[r]
      BY <2>1, <3>4
    <3>7. Knows(r)
      BY <2>3, <3>0
    <3>8. \A t \in Stage : st'[t] = "running" <=> th'[r][t] \in Holding
      BY <3>7, <3>1, <3>3, <2>b DEF Knows
    <3>9. \A t \in Stage : res'[r][t] = "waiting_tools" => st'[t] = "waiting_tools"
      BY <3>7, <3>2, <3>3, <2>b DEF Knows
    <3>10. failure'[r] = "none" =>
              \A t \in Stage : \/ st'[t] \in Good \union {"running"}
                               \/ th'[r][t] = "done" /\ res'[r][t] \notin {"completed", "skipped"}
      BY <3>7, <3>6, <3>1, <3>2, <3>3, <2>b DEF Knows
    <3> QED BY <3>0, <3>5, <3>6, <3>7, <3>8, <3>9, <3>10 DEF Knows
  <2>n. th[r][s] \notin {"raised", "done"} => res[r][s] = "none"
    BY DEF RunInv, ThreadsFit, ThreadFits
  <2>h. "none" \in Outcomes BY DEF Outcomes
  <2>4. CASE ClaimStage(r, s)
    <3>1. Fence(lease[r]) /\ st[s] = "pending" /\ st' = [st EXCEPT ![s] = "running"]
      BY <2>4 DEF ClaimStage, Claim, MayClaim
    <3>2. ThreadStep(r, s, "queued", "claimed") /\ UNCHANGED res /\ res[r][s] = "none"
      BY <2>4, <2>n DEF ClaimStage, ThreadStep
    <3> QED BY <3>1, <3>2, <2>b, <2>0, <2>h DEF Holding
  <2>5. CASE SkipStage(r, s)
    <3>1. Fence(lease[r]) /\ st[s] = "pending" /\ st' = [st EXCEPT ![s] = "skipped"]
      BY <2>5 DEF SkipStage, Skip, MayClaim
    <3>2. ThreadStep(r, s, "queued", "done") /\ SetResult(r, s, "skipped")
      BY <2>5 DEF SkipStage
    <3> QED BY <3>1, <3>2, <2>b, <2>0, <2>s DEF Holding, Good
  <2>6. CASE ClaimRefused(r, s)
    <3>1. PICK o \in Stops : SetResult(r, s, o)
      BY <2>6, CheckOutcome DEF ClaimRefused, Stops
    <3>2. ThreadStep(r, s, "queued", "done") /\ UNCHANGED st
      BY <2>6 DEF ClaimRefused, vars
    <3> QED BY <3>1, <3>2, <2>a, <2>0 DEF Holding
  <2>7. CASE ClearToCall(r, s)
    BY <2>7, <2>a, <2>0 DEF ClearToCall, vars, Holding
  <2>8. CASE CallWorker(r, s)
    BY <2>8, <2>a, <2>0 DEF CallWorker, vars, Holding
  <2>9. ASSUME NEW n \in FragmentSize, PersistDelta(r, s, n) PROVE Knows(q)'
    BY <2>9, <2>a, <2>0 DEF PersistDelta, AppendPublicDelta, Holding
  <2>10. CASE WorkerAnswers(r, s)
    BY <2>10, <2>a, <2>0 DEF WorkerAnswers, vars, Holding
  <2>11. CASE WorkerRaises(r, s)
    <3>1. PICK o \in Stops : SetResult(r, s, o)
      BY <2>11 DEF WorkerRaises, Stops
    <3>2. ThreadStep(r, s, "calling", "raised") /\ UNCHANGED st
      BY <2>11 DEF WorkerRaises, vars
    <3> QED BY <3>1, <3>2, <2>a, <2>0 DEF Holding
  <2>12. ASSUME NEW tools \in BOOLEAN, NEW d \in Verdicts, CompleteStage(r, s, tools, d) PROVE Knows(q)'
    <3>1. /\ ThreadStep(r, s, "answered", "done") /\ SetResult(r, s, CompletedAs(tools))
          /\ Fence(lease[r]) /\ st[s] = "running" /\ st' = [st EXCEPT ![s] = CompletedAs(tools)]
      BY <2>12 DEF CompleteStage, Complete, OwnsAttempt
    <3>2. CompletedAs(tools) \in {"completed", "waiting_tools"} \union Stops
      BY DEF CompletedAs, Stops
    <3>3. /\ CompletedAs(tools) \in Outcomes /\ CompletedAs(tools) # "running"
          /\ CompletedAs(tools) \in Good \/ CompletedAs(tools) \notin {"completed", "skipped"}
          /\ "done" \notin Holding
      BY <3>2, <2>s DEF Good, Stops, Holding
    <3> QED BY <3>1, <3>3, <2>b, <2>0
  <2>13. CASE AttemptRaises(r, s)
    <3>1. PICK o \in Stops : SetResult(r, s, o)
      BY <2>13, CheckOutcome DEF AttemptRaises, Stops
    <3>2. PICK from \in {"claimed", "answered"} : ThreadStep(r, s, from, "raised")
      BY <2>13 DEF AttemptRaises
    <3>3. UNCHANGED st BY <2>13 DEF AttemptRaises, vars
    <3> QED BY <3>1, <3>2, <3>3, <2>a, <2>0 DEF Holding
  <2>14. CASE RecordFailure(r, s)
    <3>1. ThreadStep(r, s, "raised", "done") /\ UNCHANGED res
      BY <2>14 DEF RecordFailure
    <3>2. th[r][s] = "raised" BY <3>1 DEF ThreadStep
    <3>3. res[r][s] \in Stops
      BY <3>2 DEF RunInv, ThreadsFit, ThreadFits
    <3>4. CASE FailStage(lease[r], s)
      <4>1. Fence(lease[r]) /\ st[s] = "running" /\ st' = [st EXCEPT ![s] = "failed"]
        BY <3>4 DEF FailStage, OwnsAttempt
      <4> QED BY <3>1, <3>3, <4>1, <2>b, <2>0, <2>s DEF Holding, Stops
    <3>5. CASE ~OwnsAttempt(lease[r], s) /\ UNCHANGED vars
      <4>1. q # r
        \* An owner that holds a thread owns the attempt.
        <5> SUFFICES ASSUME q = r PROVE FALSE OBVIOUS
        <5>1. st[s] = "running"
          BY <2>3, <3>2 DEF Knows, Holding
        <5>2. claimedBy[s] = lease[r]
          BY <5>1, <2>3 DEF IInv, OwnershipAgrees, InFlight, Fence
        <5> QED BY <5>1, <5>2, <3>5, <2>3 DEF OwnsAttempt
      <4>2. \A t \in Stage : th'[q][t] = th[q][t]
        BY <4>1, <3>1, <2>0, ThreadCell
      <4> QED BY <3>1, <3>5, <2>1, <2>3, <4>2, KnowsKept DEF vars
    <3> QED BY <2>14, <3>4, <3>5 DEF RecordFailure
  <2> QED BY <1>4, <2>4, <2>5, <2>6, <2>7, <2>8, <2>9, <2>10, <2>11, <2>12, <2>13, <2>14 DEF Thread
<1>5. ASSUME NEW r \in Runs, Crash(r) PROVE Knows(q)'
  <2>1. /\ pc' = [pc EXCEPT ![r] = "dead"] /\ lease' = [lease EXCEPT ![r] = lease[r]]
        /\ failure' = [failure EXCEPT ![r] = "none"] /\ want' = [want EXCEPT ![r] = "failed"]
        /\ th' = [th EXCEPT ![r] = NoThreads] /\ res' = [res EXCEPT ![r] = NoThreads] /\ UNCHANGED vars
    BY <1>5 DEF Crash, Return
  <2>2. q # r
    BY <2>1, <1>t DEF Alive
  <2>3. Alive(q) /\ Fence(lease[q])
    BY <2>1, <2>2, <1>t DEF Alive, Fence, vars
  <2>4. \A t \in Stage : th'[q][t] = th[q][t] /\ res'[q][t] = res[q][t]
    BY <2>1, <2>2, <1>t
  <2>5. pc'[q] = pc[q] /\ failure'[q] = failure[q] /\ want'[q] = want[q] /\ UNCHANGED st
    BY <2>1, <2>2, <1>t DEF vars
  <2> QED BY <1>o, <2>3, <2>4, <2>5, KnowsKept
<1>6. ASSUME NEW r \in Runs, StartExpired(r) PROVE FALSE
  BY <1>6, <1>r DEF StartExpired, BeginExpired
<1>7. ASSUME NEW r \in Runs, Supervise(r) PROVE FALSE
  BY <1>7, <1>r DEF Supervise, RecoverAbandoned
<1>8. ASSUME UNCHANGED <<runVars, runner, epoch, st>> PROVE Knows(q)'
  <2>1. Alive(q) /\ Fence(lease[q])
    BY <1>8 DEF Alive, Fence
  <2> QED BY <1>8, <2>1, <1>o, KnowsKept
<1>9. CASE Outside
  BY <1>8, <1>9, <1>r DEF Outside, Create, RequestCancel, DeleteJob, EraseRow, Tick
<1>10. CASE ChangeGrant
  <2>1. Alive(q) /\ Fence(lease[q])
    BY <1>10 DEF ChangeGrant, Alive, Fence, vars
  <2> QED BY <1>10, <2>1, <1>o, KnowsKept DEF ChangeGrant, vars
<1>11. CASE UNCHANGED allVars
  BY <1>8, <1>11 DEF allVars, vars
<1> QED BY <1>1, <1>2, <1>3, <1>4, <1>5, <1>6, <1>7, <1>9, <1>10, <1>11 DEF RunNext, Main

\* In every reachable state the runs, their threads and calls fit the journal.
THEOREM RunInvariance == RunSpec => []RunInv
<1>1. RunInv /\ RunTypeOK /\ RunTypeOK' /\ IInv /\ [RunNext]_allVars => RunInv'
  <2> SUFFICES ASSUME RunInv, RunTypeOK, RunTypeOK', IInv, [RunNext]_allVars PROVE RunInv'
    OBVIOUS
  <2>1. FencesDiffer' BY FencesStep DEF RunInv
  <2>2. ThreadsFit' /\ FailuresFit' BY ThreadsStep DEF RunInv
  <2>3. CallsFit' BY CallsStep DEF RunInv
  <2>4. OnlyDebateSkips' BY RunStepIsJournal, SkipStep DEF RunInv, RunTypeOK
  <2>5. OwnersKnow' BY <2>2, OwnersStep
  <2> QED BY <2>1, <2>2, <2>3, <2>4, <2>5 DEF RunInv
<1>2. RunSpec => []IInv
  BY RunnerImplementsJournal, Invariance, PTL
<1> QED BY <1>1, <1>2, RunInitially, RunTypeCorrect, PTL DEF RunSpec

\* perform(): no stage is ever sent to the model twice, and none is completed
\* without a call, whatever crashed, was recovered or was deleted in between.
THEOREM CalledAtMostOnce == RunSpec => []CalledOnce
<1>1. RunInv => CalledOnce
  BY DEF RunInv, CallsFit, CallFits, CalledOnce
<1> QED BY <1>1, RunInvariance, PTL

\* A run that owns the job holds in its threads exactly the attempts in flight.
THEOREM AttemptsHaveThreads == RunSpec => []AttemptsAreHeld
<1>1. RunInv => AttemptsAreHeld
  BY DEF RunInv, OwnersKnow, Knows, AttemptsAreHeld
<1> QED BY <1>1, RunInvariance, PTL

\* finish() never refuses the outcome of a run that still owns the job: the
\* scheduler cannot strand it.
THEOREM FinishIsAccepted == RunSpec => []FinishAccepted
<1>1. RunInv => FinishAccepted
  <2> SUFFICES ASSUME RunInv, NEW r \in Runs, pc[r] = "finish", Fence(lease[r])
               PROVE  MayFinish(lease[r], want[r])
    BY DEF FinishAccepted
  <2>1. Knows(r)
    BY DEF RunInv, OwnersKnow, Alive
  <2>2. InFlight = {}
    BY <2>1 DEF Knows, RunInv, ThreadsFit, ThreadFits, Holding, InFlight
  <2>3. FinalAs(want[r]) \in {"succeeded", "waiting_tools", "paused"} => FinalAs(want[r]) = want[r]
    BY DEF FinalAs
  <2>4. want[r] = "succeeded" => /\ \A s \in Stage : st[s] \in {"completed", "skipped"}
                                /\ st[Final] = "completed"
    BY <2>1, PlanAssumption DEF Knows, AllDone, RunInv, OnlyDebateSkips
  <2> QED BY <2>1, <2>2, <2>3, <2>4 DEF MayFinish, Knows, Good, Has
<1> QED BY <1>1, RunInvariance, PTL
=============================================================================
