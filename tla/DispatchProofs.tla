---------------------------- MODULE DispatchProofs ----------------------------
(***************************************************************************)
(* The account, and the queue over the admitted journal, for every set of  *)
(* jobs, policies, quotas, receipts and workers, with any deaths, wrong    *)
(* stop receipts and lost acknowledgements.                                *)
(***************************************************************************)
EXTENDS Dispatch, SumTheorems

USE DEF Terminal, JobStates, Works

-----------------------------------------------------------------------------
(* Types.                                                                  *)

\* The account starts with its types.
LEMMA AdmissionInitType == AdmissionInit => AdmissionTypeOK
  BY AdmissionAssumption DEF AdmissionInit, AdmissionTypeOK

\* Freeing a slot keeps its type.
LEMMA ReleaseType ==
    ASSUME AdmissionTypeOK, NEW j \in Job, ReleaseIfSafe(j)
    PROVE  slot' \in [Job -> BOOLEAN]
  BY DEF AdmissionTypeOK, ReleaseIfSafe

\* What finish() writes is terminal, or the pause it was asked for.
LEMMA FinalIsState ==
    ASSUME NEW j \in Job, NEW want \in Terminal \union {"paused"}
    PROVE  FinalAs(j, want) \in Terminal \union {"paused"}
  BY DEF FinalAs

\* Every method keeps the types.
LEMMA AdmissionStepType ==
    ASSUME AdmissionTypeOK, [AdmissionNext]_admissionVars
    PROVE  AdmissionTypeOK'
<1> USE DEF AdmissionTypeOK, accountVars, jobVars, reservationVars
<1>1. ASSUME NEW p \in Policies, ConfigureAccount(p) PROVE AdmissionTypeOK'
  BY <1>1, AdmissionAssumption DEF ConfigureAccount
<1>2. ASSUME NEW j \in Job, NEW id \in Receipt, ConfirmQuiescence(j, id)
      PROVE  AdmissionTypeOK'
  BY <1>2 DEF ConfirmQuiescence
<1>3. CASE Tick
  BY <1>3, AdmissionAssumption DEF Tick
<1>4. ASSUME NEW j \in Job, CreateJob(j) PROVE AdmissionTypeOK'
  <2>1. policy.period \in Nat
    BY <1>4, AdmissionAssumption DEF CreateJob, PolicyOpen, Policy
  <2> QED
    BY <1>4, <2>1 DEF CreateJob
<1>5. ASSUME NEW j \in Job, BeginJob(j) PROVE AdmissionTypeOK'
  BY <1>5 DEF BeginJob
<1>6. ASSUME NEW j \in Job, BeginExpiredJob(j) PROVE AdmissionTypeOK'
  BY <1>6, ReleaseType DEF BeginExpiredJob
<1>7. ASSUME NEW j \in Job, NEW e \in 1..epoch[j], ClaimStage(j, e) PROVE AdmissionTypeOK'
  BY <1>7 DEF ClaimStage
<1>8. ASSUME NEW j \in Job, NEW e \in 1..epoch[j], CompleteStage(j, e) PROVE AdmissionTypeOK'
  BY <1>8 DEF CompleteStage
<1>9. ASSUME NEW j \in Job, NEW e \in 1..epoch[j], BreakStage(j, e) PROVE AdmissionTypeOK'
  BY <1>9 DEF BreakStage
<1>10. ASSUME NEW j \in Job, NEW e \in 1..epoch[j], NEW want \in Terminal \union {"paused"},
              FinishJob(j, e, want)
       PROVE  AdmissionTypeOK'
  BY <1>10, ReleaseType, FinalIsState DEF FinishJob
<1>11. ASSUME NEW j \in Job, NEW e \in 1..epoch[j], RecoverJob(j, e) PROVE AdmissionTypeOK'
  <2>1. PICK state \in RecoveredStates(j) : jstate' = [jstate EXCEPT ![j] = state]
    BY <1>11 DEF RecoverJob
  <2>2. state \in JobStates
    BY <2>1 DEF RecoveredStates
  <2> QED
    BY <1>11, <2>1, <2>2 DEF RecoverJob
<1>12. ASSUME NEW j \in Job, CancelJob(j) PROVE AdmissionTypeOK'
  <2>1. cancel' \in [Job -> BOOLEAN] /\ jstate' \in [Job -> JobStates]
    BY <1>12 DEF CancelJob
  <2> QED
    BY <1>12, <2>1, ReleaseType DEF CancelJob
<1>13. ASSUME NEW j \in Job, DeleteJob(j) PROVE AdmissionTypeOK'
  BY <1>13 DEF DeleteJob
<1>14. CASE UNCHANGED admissionVars
  BY <1>14 DEF admissionVars
<1> QED
  BY <1>1, <1>2, <1>3, <1>4, <1>5, <1>6, <1>7, <1>8, <1>9, <1>10, <1>11, <1>12, <1>13, <1>14
     DEF AdmissionNext, Administration, Running

-----------------------------------------------------------------------------
(* The inductive invariant.                                                *)

\* Nothing is known of a job that was never admitted, and an erased one is
\* marked: so no job is admitted twice.
AdmittedOnce(j) ==
    /\ period[j] = 0 => jstate[j] = "absent" /\ runner[j] = 0 /\ ~slot[j]
    /\ period[j] # 0 /\ jstate[j] = "absent" => tomb[j]

\* What SlotMeansUncertain says of one job.
SlotOf(j) ==
    /\ period[j] # 0 /\ ~slot[j] =>
           /\ jstate[j] \in Terminal \union {"absent"}
           /\ runner[j] = 0
           /\ \/ jstate[j] = "succeeded" \/ tomb[j]
              \/ ~attempted[j] \/ receipt[j] # NoReceipt
    /\ slot[j] => jstate[j] # "absent"

JobInv(j) == AdmittedOnce(j) /\ SlotOf(j)

AdmissionInv == AdmissionTypeOK /\ \A j \in Job : JobInv(j)

\* The invariant of the account holds initially.
LEMMA AdmissionInitInv == AdmissionInit => AdmissionInv
  BY AdmissionInitType DEF AdmissionInit, AdmissionInv, JobInv, AdmittedOnce, SlotOf

\* A method on one job leaves the columns of the others alone.
Untouched(k) ==
    /\ period'[k] = period[k] /\ jstate'[k] = jstate[k] /\ runner'[k] = runner[k]
    /\ slot'[k] = slot[k] /\ tomb'[k] = tomb[k]
    /\ attempted'[k] = attempted[k] /\ receipt'[k] = receipt[k]

\* A job that a method does not touch keeps its part of the invariant.
LEMMA UntouchedKeeps ==
    ASSUME NEW k \in Job, JobInv(k), Untouched(k)
    PROVE  JobInv(k)'
  BY DEF JobInv, AdmittedOnce, SlotOf, Untouched

\* A slot is given back only as SlotMeansUncertain allows.
LEMMA ReleaseIsSafe ==
    ASSUME AdmissionTypeOK, NEW j \in Job, ReleaseIfSafe(j)
    PROVE  /\ \A k \in Job \ {j} : slot'[k] = slot[k]
           /\ slot'[j] => slot[j]
           /\ slot[j] /\ ~slot'[j] =>
                 /\ runner'[j] = 0 /\ jstate'[j] \in Terminal
                 /\ jstate'[j] = "succeeded" \/ ~attempted'[j]
  BY DEF AdmissionTypeOK, ReleaseIfSafe

\* Every method keeps the invariant of the account.
LEMMA AdmissionStepInv ==
    ASSUME AdmissionInv, [AdmissionNext]_admissionVars
    PROVE  \A j \in Job : JobInv(j)'
<1> USE DEF accountVars, jobVars, reservationVars
<1> DEFINE Others(j) == \A k \in Job \ {j} : Untouched(k)
<1>0. AdmissionTypeOK /\ \A j \in Job : JobInv(j)
  BY DEF AdmissionInv
<1>a. ASSUME NEW j \in Job, Others(j), JobInv(j)' PROVE \A k \in Job : JobInv(k)'
  BY <1>0, <1>a, UntouchedKeeps
<1>1. CASE UNCHANGED <<jobVars, reservationVars>>
  BY <1>0, <1>1, UntouchedKeeps DEF Untouched
<1>2. ASSUME NEW j \in Job, NEW id \in Receipt, ConfirmQuiescence(j, id)
      PROVE  \A k \in Job : JobInv(k)'
  <2>1. Others(j)
    BY <1>0, <1>2 DEF ConfirmQuiescence, Untouched, AdmissionTypeOK
  <2>2. JobInv(j)'
    BY <1>0, <1>2, AdmissionAssumption
       DEF ConfirmQuiescence, AdmissionTypeOK, JobInv, AdmittedOnce, SlotOf
  <2> QED
    BY <2>1, <2>2, <1>a
<1>4. ASSUME NEW j \in Job, CreateJob(j) PROVE \A k \in Job : JobInv(k)'
  <2>1. Others(j)
    BY <1>0, <1>4 DEF CreateJob, Untouched, AdmissionTypeOK
  <2>2. policy.period \in Nat \ {0}
    BY <1>0, <1>4, AdmissionAssumption DEF CreateJob, PolicyOpen, Policy, AdmissionTypeOK
  <2>3. JobInv(j)'
    BY <1>0, <1>4, <2>2 DEF CreateJob, AdmissionTypeOK, JobInv, AdmittedOnce, SlotOf
  <2> QED
    BY <2>1, <2>3, <1>a
<1>5. ASSUME NEW j \in Job, BeginJob(j) PROVE \A k \in Job : JobInv(k)'
  <2>1. Others(j)
    BY <1>0, <1>5 DEF BeginJob, Untouched, AdmissionTypeOK
  <2>2. JobInv(j)'
    BY <1>0, <1>5
       DEF BeginJob, CheckJobAdmission, AdmissionTypeOK, JobInv, AdmittedOnce, SlotOf
  <2> QED
    BY <2>1, <2>2, <1>a
<1>6. ASSUME NEW j \in Job, BeginExpiredJob(j) PROVE \A k \in Job : JobInv(k)'
  <2>1. ReleaseIfSafe(j)
    BY <1>6 DEF BeginExpiredJob
  <2>2. Others(j)
    BY <1>0, <1>6, <2>1, ReleaseIsSafe DEF BeginExpiredJob, Untouched, AdmissionTypeOK
  <2>3. JobInv(j)'
    BY <1>0, <1>6, <2>1, ReleaseIsSafe
       DEF BeginExpiredJob, CheckJobAdmission, AdmissionTypeOK, JobInv, AdmittedOnce, SlotOf
  <2> QED
    BY <2>2, <2>3, <1>a
<1>7. ASSUME NEW j \in Job, NEW e \in 1..epoch[j],
             ClaimStage(j, e) \/ CompleteStage(j, e) \/ BreakStage(j, e)
      PROVE  \A k \in Job : JobInv(k)'
  <2>1. Others(j)
    BY <1>0, <1>7 DEF ClaimStage, CompleteStage, BreakStage, Untouched, AdmissionTypeOK
  <2>2. runner[j] # 0 /\ slot[j]
    BY <1>0, <1>7 DEF ClaimStage, CompleteStage, BreakStage, Fence, AdmissionTypeOK, JobInv,
                      AdmittedOnce, SlotOf
  <2>3. JobInv(j)'
    BY <1>0, <1>7, <2>2
       DEF ClaimStage, CompleteStage, BreakStage, AdmissionTypeOK, JobInv, AdmittedOnce, SlotOf
  <2> QED
    BY <2>1, <2>3, <1>a
<1>8. ASSUME NEW j \in Job, NEW e \in 1..epoch[j], NEW want \in Terminal \union {"paused"},
             FinishJob(j, e, want)
      PROVE  \A k \in Job : JobInv(k)'
  <2>1. ReleaseIfSafe(j)
    BY <1>8 DEF FinishJob
  <2>2. Others(j)
    BY <1>0, <1>8, <2>1, ReleaseIsSafe DEF FinishJob, Untouched, AdmissionTypeOK
  <2>3. period[j] # 0 /\ slot[j]
    BY <1>0, <1>8 DEF FinishJob, Fence, AdmissionTypeOK, JobInv, AdmittedOnce, SlotOf
  <2>4. jstate'[j] # "absent"
    BY <1>0, <1>8, FinalIsState DEF FinishJob, AdmissionTypeOK
  <2>5. JobInv(j)'
    BY <1>0, <1>8, <2>1, <2>3, <2>4, ReleaseIsSafe
       DEF FinishJob, AdmissionTypeOK, JobInv, AdmittedOnce, SlotOf
  <2> QED
    BY <2>2, <2>5, <1>a
<1>9. ASSUME NEW j \in Job, NEW e \in 1..epoch[j], RecoverJob(j, e)
      PROVE  \A k \in Job : JobInv(k)'
  <2>1. Others(j)
    BY <1>0, <1>9 DEF RecoverJob, Untouched, AdmissionTypeOK
  <2>2. period[j] # 0 /\ slot[j]
    BY <1>0, <1>9 DEF RecoverJob, Fence, AdmissionTypeOK, JobInv, AdmittedOnce, SlotOf
  <2>3. jstate'[j] # "absent"
    BY <1>0, <1>9 DEF RecoverJob, RecoveredStates, AdmissionTypeOK
  <2>4. JobInv(j)'
    BY <1>0, <1>9, <2>2, <2>3 DEF RecoverJob, JobInv, AdmittedOnce, SlotOf
  <2> QED
    BY <2>1, <2>4, <1>a
<1>10. ASSUME NEW j \in Job, CancelJob(j) PROVE \A k \in Job : JobInv(k)'
  <2>1. ReleaseIfSafe(j)
    BY <1>10 DEF CancelJob
  <2>2. Others(j)
    BY <1>0, <1>10, <2>1, ReleaseIsSafe DEF CancelJob, Untouched, AdmissionTypeOK
  <2>3. period[j] # 0 /\ jstate'[j] # "absent"
    BY <1>0, <1>10 DEF CancelJob, AdmissionTypeOK, JobInv, AdmittedOnce
  <2>4. ~slot[j] => jstate'[j] = jstate[j]
    BY <1>0, <1>10, <2>3 DEF CancelJob, AdmissionTypeOK, JobInv, SlotOf
  <2>5. JobInv(j)'
    BY <1>0, <1>10, <2>1, <2>3, <2>4, ReleaseIsSafe
       DEF CancelJob, AdmissionTypeOK, JobInv, AdmittedOnce, SlotOf
  <2> QED
    BY <2>2, <2>5, <1>a
<1>11. ASSUME NEW j \in Job, DeleteJob(j) PROVE \A k \in Job : JobInv(k)'
  <2>1. Others(j)
    BY <1>0, <1>11 DEF DeleteJob, Untouched, AdmissionTypeOK
  <2>2. JobInv(j)'
    BY <1>0, <1>11 DEF DeleteJob, AdmissionTypeOK, JobInv, AdmittedOnce, SlotOf
  <2> QED
    BY <2>1, <2>2, <1>a
<1>12. CASE Tick \/ (\E p \in Policies : ConfigureAccount(p)) \/ UNCHANGED admissionVars
  BY <1>1, <1>12 DEF Tick, ConfigureAccount, admissionVars
<1> QED
  BY <1>2, <1>4, <1>5, <1>6, <1>7, <1>8, <1>9, <1>10, <1>11, <1>12
     DEF AdmissionNext, Administration, Running

\* Every reachable state is well typed, and every slot and reservation is
\* accounted for, job by job.
THEOREM AdmissionInvariance == AdmissionSpec => []AdmissionInv
<1>1. AdmissionInv /\ [AdmissionNext]_admissionVars => AdmissionInv'
  BY AdmissionStepType, AdmissionStepInv DEF AdmissionInv
<1> QED
  BY AdmissionInitInv, <1>1, PTL DEF AdmissionSpec

\* An account never runs more uncertain work than it has slots for: a slot is
\* free again only for a job that is over and whose outside effects are settled.
THEOREM SlotsAreSafe == AdmissionSpec => []SlotMeansUncertain
<1>1. AdmissionInv => SlotMeansUncertain
  BY DEF AdmissionInv, JobInv, SlotOf, SlotMeansUncertain
<1> QED
  BY AdmissionInvariance, <1>1, PTL

\* No method moves a reservation to another period or gives it back.
THEOREM ReservationsStay == AdmissionSpec => NeverRefunded
<1> DEFINE Stays == \A j \in Job : period[j] # 0 => period'[j] = period[j]
<1>1. AdmissionInv /\ [AdmissionNext]_admissionVars => [Stays]_admissionVars
  <2> SUFFICES ASSUME AdmissionInv, AdmissionNext PROVE Stays
    OBVIOUS
  <2>1. AdmissionTypeOK /\ \A j \in Job : JobInv(j)
    BY DEF AdmissionInv
  <2>2. ASSUME NEW j \in Job, CreateJob(j) PROVE Stays
    <3>1. period[j] = 0
      BY <2>1, <2>2 DEF CreateJob, AdmissionTypeOK, JobInv, AdmittedOnce
    <3> QED
      BY <2>1, <2>2, <3>1 DEF CreateJob, AdmissionTypeOK
  <2>3. CASE UNCHANGED period
    BY <2>3
  <2> QED
    BY <2>2, <2>3
       DEF AdmissionNext, Administration, Running, ConfigureAccount, ConfirmQuiescence, Tick,
           BeginJob, BeginExpiredJob, ClaimStage, CompleteStage, BreakStage, FinishJob,
           RecoverJob, CancelJob, DeleteJob, reservationVars
<1> QED
  BY AdmissionInvariance, <1>1, PTL DEF AdmissionSpec, NeverRefunded

-----------------------------------------------------------------------------
(* The caps of the account.                                                *)

Charges(r) == [j \in Job |-> Quota[j][r]]
Charged(p) == {j \in Job : period[j] = p}

\* However many jobs the owner may name, finitely many hold a reservation.
FewReservations == IsFiniteSet({j \in Job : period[j] # 0})

\* The reservations of a period are finitely many, and their total is a sum of naturals.
LEMMA ChargedIsFinite ==
    ASSUME AdmissionTypeOK, FewReservations, NEW p \in Nat \ {0}, NEW r \in Resource
    PROVE  /\ IsFiniteSet(Charged(p))
           /\ Naturals(Charges(r), Charged(p))
           /\ Total(p, r) = SumFunctionOnSet(Charges(r), Charged(p))
<1>1. Charged(p) \subseteq {j \in Job : period[j] # 0}
  BY DEF Charged
<1>2. IsFiniteSet(Charged(p))
  BY <1>1, FS_Subset DEF FewReservations
<1>3. Naturals(Charges(r), Charged(p))
  BY AdmissionAssumption DEF Naturals, Charges, Charged
<1> QED
  BY <1>2, <1>3 DEF Total, Charges, Charged

\* A new job adds its quota to the totals of the period, and no more.
LEMMA CreateAdds ==
    ASSUME AdmissionInv, FewReservations, NEW j \in Job, CreateJob(j)
    PROVE  /\ FewReservations'
           /\ \A r \in Resource :
                 Total(policy.period, r)' = Total(policy.period, r) + Quota[j][r]
<1>0. AdmissionTypeOK /\ JobInv(j)
  BY DEF AdmissionInv
<1>1. policy.period \in Nat \ {0} /\ policy' = policy
  BY <1>0, AdmissionAssumption DEF CreateJob, PolicyOpen, Policy, AdmissionTypeOK, accountVars
<1>2. period[j] = 0
  BY <1>0 DEF CreateJob, AdmissionTypeOK, JobInv, AdmittedOnce
<1>3. period'[j] = policy.period /\ \A k \in Job : k # j => period'[k] = period[k]
  BY <1>0 DEF CreateJob, AdmissionTypeOK
<1>4. FewReservations'
  <2>1. {k \in Job : period'[k] # 0} = {k \in Job : period[k] # 0} \union {j}
    BY <1>1, <1>2, <1>3
  <2> QED
    BY <2>1, FS_AddElement DEF FewReservations
<1>5. ASSUME NEW r \in Resource
      PROVE  Total(policy.period, r)' = Total(policy.period, r) + Quota[j][r]
  <2>1. PICK p : p = policy.period
    OBVIOUS
  <2>2. Charged(p)' = Charged(p) \union {j} /\ j \notin Charged(p)
    BY <1>1, <1>2, <1>3, <2>1 DEF Charged
  <2>3. IsFiniteSet(Charged(p)) /\ Total(p, r) = SumFunctionOnSet(Charges(r), Charged(p))
    BY <1>0, <1>1, <2>1, ChargedIsFinite
  <2>4. Naturals(Charges(r), Charged(p) \union {j}) /\ Charges(r)[j] = Quota[j][r]
    BY AdmissionAssumption DEF Naturals, Charges, Charged
  <2>5. SumFunctionOnSet(Charges(r), Charged(p) \union {j}) = Total(p, r) + Quota[j][r]
    BY <2>2, <2>3, <2>4, SumAdd
  <2>6. Total(p, r)' = SumFunctionOnSet(Charges(r), Charged(p)')
    BY DEF Total, Charges, Charged
  <2>7. Total(policy.period, r)' = Total(p, r)' /\ Total(policy.period, r) = Total(p, r)
    BY <1>1, <2>1 DEF Total
  <2> QED
    BY <2>2, <2>5, <2>6, <2>7
<1> QED
  BY <1>4, <1>5

\* The policy is replaced only by one that the totals fit; otherwise they are
\* raised only by a job whose admission counted them.
LEMMA CapsNext ==
    ASSUME AdmissionInv, FewReservations, CapsHold, [AdmissionNext]_admissionVars
    PROVE  FewReservations' /\ CapsHold'
<1>1. ASSUME NEW p \in Policies, ConfigureAccount(p) PROVE FewReservations' /\ CapsHold'
  <2>1. policy' = p /\ period' = period
    BY <1>1 DEF ConfigureAccount, reservationVars
  <2>2. \A r \in Resource : p.cap[r] >= Total(p.period, r)
    BY <1>1 DEF ConfigureAccount
  <2>3. \A r \in Resource : Total(policy.period, r)' = Total(p.period, r)
    BY <2>1 DEF Total
  <2>4. \A r \in Resource : Total(policy.period, r)' <= policy'.cap[r]
    BY <2>1, <2>2, <2>3
  <2> QED
    BY <2>1, <2>4 DEF FewReservations, CapsHold
<1>2. ASSUME NEW j \in Job, CreateJob(j) PROVE FewReservations' /\ CapsHold'
  <2>1. policy' = policy
    BY <1>2 DEF CreateJob, accountVars
  <2>2. \A r \in Resource : Total(policy.period, r) + Quota[j][r] <= policy.cap[r]
    BY <1>2 DEF CreateJob
  <2>3. /\ FewReservations'
        /\ \A r \in Resource :
              Total(policy.period, r)' = Total(policy.period, r) + Quota[j][r]
    BY <1>2, CreateAdds
  <2>4. \A r \in Resource : Total(policy.period, r)' <= policy'.cap[r]
    BY <2>1, <2>2, <2>3
  <2> QED
    BY <2>3, <2>4 DEF CapsHold
<1>3. CASE UNCHANGED <<policy, period>>
  BY <1>3 DEF FewReservations, CapsHold, Total
<1> QED
  BY <1>1, <1>2, <1>3
     DEF AdmissionNext, Administration, Running, ConfirmQuiescence, Tick,
         BeginJob, BeginExpiredJob, ClaimStage, CompleteStage, BreakStage, FinishJob,
         RecoverJob, CancelJob, DeleteJob, reservationVars, accountVars, admissionVars

\* The account's caps bound what is reserved in its period, through every
\* creation, deletion, cancellation and reconfiguration.
THEOREM CapsAreKept == AdmissionSpec => []CapsHold
<1>1. AdmissionInit => FewReservations /\ CapsHold
  <2> SUFFICES ASSUME AdmissionInit PROVE FewReservations /\ CapsHold
    OBVIOUS
  <2>1. {j \in Job : period[j] # 0} = {} /\ policy = NoPolicy
    BY DEF AdmissionInit
  <2> QED
    BY <2>1, FS_EmptySet DEF FewReservations, CapsHold
<1>2. AdmissionInv /\ FewReservations /\ CapsHold /\ [AdmissionNext]_admissionVars
        => FewReservations' /\ CapsHold'
  BY CapsNext
<1> QED
  BY <1>1, <1>2, AdmissionInvariance, PTL DEF AdmissionSpec

-----------------------------------------------------------------------------
(* The queue.                                                              *)

USE DEF RowStates, WorkerStates

\* What a supervisor may rely on about one job: an owned job has a claimed row
\* that names its runner, and what the row says of the job is true.
QueueOf(j) ==
    /\ runner[j] # 0 => row[j] = "claimed" /\ bound[j] = runner[j]
    /\ runner[j] = 0 => jstate[j] \notin {"running", "cancelling"}
    /\ row[j] # "none" => jstate[j] # "absent"
    /\ row[j] = "finished" => jstate[j] \in Terminal
    /\ row[j] = "interrupted" => jstate[j] = "interrupted"
    /\ runner[j] <= epoch[j]

\* A fence given to one worker is never given to another.
FencesDiffer ==
    /\ \A w \in Worker : wrun[w] <= epoch[wjob[w]]
    /\ \A v, w \in Worker :
          v # w /\ wjob[v] = wjob[w] /\ wrun[v] = wrun[w] => wrun[w] = 0

DispatchInv ==
    /\ DispatchTypeOK
    /\ \A j \in Job : QueueOf(j)
    /\ FencesDiffer

\* The invariant of queue and workers holds initially.
LEMMA DispatchInitInv == DispatchInit => DispatchInv
<1> SUFFICES ASSUME DispatchInit PROVE DispatchInv
  OBVIOUS
<1>1. DispatchTypeOK
  <2>1. (CHOOSE j \in Job : TRUE) \in Job
    BY DispatchAssumption
  <2> QED
    BY <2>1, AdmissionInitType DEF DispatchInit, DispatchTypeOK
<1>2. ASSUME NEW j \in Job PROVE QueueOf(j)
  BY DEF DispatchInit, AdmissionInit, QueueOf
<1>3. FencesDiffer
  <2>1. (CHOOSE j \in Job : TRUE) \in Job
    BY DispatchAssumption
  <2> QED
    BY <2>1 DEF DispatchInit, AdmissionInit, FencesDiffer
<1> QED
  BY <1>1, <1>2, <1>3 DEF DispatchInv

-----------------------------------------------------------------------------
(* Every step of the queue is a step of the account or leaves it alone.    *)

\* A fence that the journal accepts was issued by it.
LEMMA FenceIsIssued ==
    ASSUME AdmissionTypeOK, NEW j \in Job, NEW e, QueueOf(j), Fence(j, e)
    PROVE  e \in 1..epoch[j]
  BY DEF AdmissionTypeOK, QueueOf, Fence

\* Every step of the queue is a step of the account or leaves it alone.
LEMMA StepAdmits ==
    ASSUME DispatchInv, [DispatchNext]_dispatchVars
    PROVE  [AdmissionNext]_admissionVars
<1> DEFINE Goal == [AdmissionNext]_admissionVars
<1>0. DispatchTypeOK /\ AdmissionTypeOK /\ \A j \in Job : QueueOf(j)
  BY DEF DispatchInv, DispatchTypeOK
<1>1. CASE UNCHANGED admissionVars
  BY <1>1
<1>2. ASSUME NEW w \in Worker PROVE wjob[w] \in Job
  BY <1>0 DEF DispatchTypeOK
<1>3. ASSUME NEW j \in Job, CreateJob(j) \/ BeginJob(j) \/ BeginExpiredJob(j) \/ CancelJob(j) \/ DeleteJob(j)
      PROVE  Goal
  BY <1>3 DEF AdmissionNext
<1>4. ASSUME NEW j \in Job, NEW e, NEW want \in Terminal \union {"paused"},
             \/ ClaimStage(j, e) \/ CompleteStage(j, e) \/ BreakStage(j, e)
             \/ FinishJob(j, e, want) \/ RecoverJob(j, e)
      PROVE  Goal
  <2>1. Fence(j, e)
    BY <1>4 DEF ClaimStage, CompleteStage, BreakStage, FinishJob, RecoverJob
  <2>2. e \in 1..epoch[j]
    BY <1>0, <2>1, FenceIsIssued
  <2> QED
    BY <1>4, <2>2 DEF AdmissionNext, Running
<1>5. CASE Administer
  BY <1>5 DEF Administer, AdmissionNext
<1>6. ASSUME NEW j \in Job,
             \/ Enqueue(j) \/ AdmitAndEnqueue(j) \/ RecoverStoppedWorker(j)
             \/ UserCancels(j) \/ UserDeletes(j)
      PROVE  Goal
  <2>1. CASE RecoverStoppedWorker(j)
    <3>1. RecoverJob(j, runner[j]) \/ UNCHANGED admissionVars
      BY <2>1 DEF RecoverStoppedWorker
    <3>2. "paused" \in Terminal \union {"paused"}
      OBVIOUS
    <3> QED
      BY <3>1, <3>2, <1>1, <1>4
  <2> QED
    BY <1>6, <2>1, <1>1, <1>3 DEF Enqueue, AdmitAndEnqueue, UserCancels, UserDeletes
<1>7. ASSUME NEW w \in Worker, WorkerStep(w) PROVE Goal
  <2>1. ASSUME NEW heard \in Heard,
               StartSlice(w, heard) \/ ExpireSlice(w, heard) \/ Acknowledge(w, heard)
        PROVE  Goal
    BY <2>1, <1>1, <1>2, <1>3 DEF StartSlice, ExpireSlice, Acknowledge
  <2>2. ASSUME NEW heard \in Heard, FinishSlice(w, heard) PROVE Goal
    <3>1. PICK want \in Terminal \union {"paused"} : FinishJob(wjob[w], wrun[w], want)
      BY <2>2 DEF FinishSlice
    <3> QED
      BY <3>1, <1>2, <1>4
  <2>3. CASE WorkOnSlice(w)
    <3>1. "paused" \in Terminal \union {"paused"}
      OBVIOUS
    <3> QED
      BY <2>3, <3>1, <1>2, <1>4 DEF WorkOnSlice
  <2> QED
    BY <1>1, <1>7, <2>1, <2>2, <2>3
       DEF WorkerStep, EnterDispatch, SliceOver, SliceRefused, FinishFenced, FinishRefused, AckRefused
<1> QED
  BY <1>1, <1>5, <1>6, <1>7
     DEF DispatchNext, ClaimRow, SiftAll, Die, ChangeTrust, dispatchVars

-----------------------------------------------------------------------------
(* Types.                                                                  *)

\* Every step keeps the types of queue and workers.
LEMMA DispatchStepType ==
    ASSUME DispatchInv, [DispatchNext]_dispatchVars
    PROVE  DispatchTypeOK'
<1>0. DispatchTypeOK /\ AdmissionTypeOK /\ \A j \in Job : QueueOf(j)
  BY DEF DispatchInv, DispatchTypeOK
<1>1. AdmissionTypeOK'
  BY <1>0, StepAdmits, AdmissionStepType
<1>2. ASSUME NEW w \in Worker PROVE wjob[w] \in Job
  BY <1>0 DEF DispatchTypeOK
<1> DEFINE Columns == /\ row' \in [Job -> RowStates] /\ generation' \in [Job -> Nat]
                      /\ token' \in [Job -> Nat] /\ bound' \in [Job -> Nat]
                      /\ instance' \in [Job -> Worker \union {NoWorker}]
           Locals == /\ wpc' \in [Worker -> WorkerStates] /\ wjob' \in [Worker -> Job]
                     /\ wgen' \in [Worker -> Nat] /\ wrun' \in [Worker -> Nat]
           Trust == trusted' \in [Worker -> BOOLEAN] /\ granted' \in BOOLEAN
<1>3. ASSUME Columns, Locals, Trust PROVE DispatchTypeOK'
  BY <1>1, <1>3 DEF DispatchTypeOK
<1>4. UNCHANGED rowVars => Columns
  BY <1>0 DEF rowVars, DispatchTypeOK
<1>5. UNCHANGED workerVars => Locals
  BY <1>0 DEF workerVars, DispatchTypeOK
<1>6. UNCHANGED trustVars => Trust
  BY <1>0 DEF trustVars, DispatchTypeOK
<1>7. ASSUME NEW j \in Job,
             \/ Enqueue(j) \/ AdmitAndEnqueue(j) \/ RecoverStoppedWorker(j)
             \/ UserCancels(j) \/ UserDeletes(j)
      PROVE  Columns /\ Locals /\ Trust
  <2>1. Locals /\ Trust
    BY <1>7, <1>5, <1>6
       DEF Enqueue, AdmitAndEnqueue, RecoverStoppedWorker, UserCancels, UserDeletes
  <2>2. Columns
    BY <1>7, <1>0, <1>4
       DEF Enqueue, AdmitAndEnqueue, RecoverStoppedWorker, RowRecovered, UserCancels, UserDeletes,
           DispatchTypeOK
  <2> QED
    BY <2>1, <2>2
<1>8. ASSUME NEW w \in Worker, NEW j \in Claimable, NEW passed \in SUBSET (Pending \ Claimable),
             NEW heard \in Heard, ClaimRow(w, j, passed, heard)
      PROVE  Columns /\ Locals /\ Trust
  <2>1. j \in Job
    BY DEF Claimable, Pending
  <2>2. Columns
    BY <1>8, <1>0, <2>1 DEF ClaimRow, Sifted, DispatchTypeOK
  <2>3. Locals
    BY <1>8, <1>0, <2>1 DEF ClaimRow, Lost, DispatchTypeOK
  <2> QED
    BY <1>8, <2>2, <2>3, <1>6 DEF ClaimRow
<1>9. ASSUME NEW w \in Worker, SiftAll(w) PROVE Columns /\ Locals /\ Trust
  <2>1. Columns
    BY <1>9, <1>0 DEF SiftAll, Sifted, DispatchTypeOK
  <2> QED
    BY <1>9, <2>1, <1>5, <1>6 DEF SiftAll
<1>10. ASSUME NEW w \in Worker, WorkerStep(w) PROVE Columns /\ Locals /\ Trust
  <2>1. ASSUME NEW heard \in Heard, StartSlice(w, heard) PROVE Columns /\ Locals /\ Trust
    <3>1. epoch[wjob[w]] + 1 \in Nat
      BY <1>0, <1>2 DEF AdmissionTypeOK
    <3>2. Columns
      BY <2>1, <1>0, <3>1 DEF StartSlice, DispatchTypeOK
    <3>3. Locals
      BY <2>1, <1>0, <3>1 DEF StartSlice, Reply, Move, DispatchTypeOK
    <3> QED
      BY <2>1, <3>2, <3>3, <1>6 DEF StartSlice
  <2>2. ASSUME NEW heard \in Heard, Acknowledge(w, heard) PROVE Columns /\ Locals /\ Trust
    <3>1. Columns
      BY <2>2, <1>0 DEF Acknowledge, RowAfter, DispatchTypeOK
    <3>2. Locals
      BY <2>2, <1>0 DEF Acknowledge, Reply, Move, DispatchTypeOK
    <3> QED
      BY <2>2, <3>1, <3>2, <1>6 DEF Acknowledge
  <2>3. ASSUME NEW heard \in Heard, ExpireSlice(w, heard) \/ FinishSlice(w, heard)
        PROVE  Columns /\ Locals /\ Trust
    <3>1. Locals
      BY <2>3, <1>0 DEF ExpireSlice, FinishSlice, Reply, Move, DispatchTypeOK
    <3> QED
      BY <2>3, <3>1, <1>4, <1>6 DEF ExpireSlice, FinishSlice
  <2>4. CASE WorkOnSlice(w)
    BY <2>4, <1>4, <1>5, <1>6 DEF WorkOnSlice
  <2>5. CASE \/ EnterDispatch(w) \/ SliceOver(w) \/ SliceRefused(w)
             \/ FinishFenced(w) \/ FinishRefused(w) \/ AckRefused(w)
    <3>1. Locals
      BY <2>5, <1>0 DEF EnterDispatch, SliceOver, SliceRefused, FinishFenced, FinishRefused,
                        AckRefused, Move, DispatchTypeOK
    <3> QED
      BY <2>5, <3>1, <1>4, <1>6
         DEF EnterDispatch, SliceOver, SliceRefused, FinishFenced, FinishRefused, AckRefused
  <2> QED
    BY <1>10, <2>1, <2>2, <2>3, <2>4, <2>5 DEF WorkerStep
<1>11. ASSUME NEW w \in Worker, Die(w) PROVE Columns /\ Locals /\ Trust
  <2>1. Locals
    BY <1>11, <1>0 DEF Die, DispatchTypeOK
  <2> QED
    BY <1>11, <2>1, <1>4, <1>6 DEF Die
<1>12. CASE ChangeTrust
  <2>1. Trust
    BY <1>12, <1>0, DispatchAssumption DEF ChangeTrust, DispatchTypeOK
  <2> QED
    BY <1>12, <2>1, <1>4, <1>5, <1>3 DEF ChangeTrust
<1>13. CASE Administer \/ UNCHANGED dispatchVars
  BY <1>13, <1>3, <1>4, <1>5, <1>6 DEF Administer, dispatchVars
<1> QED
  BY <1>3, <1>7, <1>8, <1>9, <1>10, <1>11, <1>12, <1>13 DEF DispatchNext

-----------------------------------------------------------------------------
(* Queue and journal.                                                      *)

SameJob(k) == jstate'[k] = jstate[k] /\ runner'[k] = runner[k] /\ epoch'[k] = epoch[k]
SameRow(k) == row'[k] = row[k] /\ bound'[k] = bound[k]

\* What a step leaves alone keeps its part of the invariant.
LEMMA SameKeeps ==
    ASSUME NEW k \in Job, QueueOf(k), SameJob(k), SameRow(k)
    PROVE  QueueOf(k)'
  BY DEF QueueOf, SameJob, SameRow

\* What a method of the journal on one job does to the columns of the queue's
\* concern, and that it leaves other jobs alone.
LEMMA MethodEffect ==
    ASSUME AdmissionTypeOK, NEW j \in Job
    PROVE  /\ CreateJob(j) => /\ \A k \in Job \ {j} : SameJob(k)
                              /\ jstate[j] = "absent" /\ jstate'[j] = "queued"
                              /\ runner'[j] = runner[j] /\ epoch'[j] = epoch[j]
           /\ BeginJob(j) => /\ \A k \in Job \ {j} : SameJob(k)
                             /\ jstate'[j] = "running"
                             /\ runner'[j] = epoch[j] + 1 /\ epoch'[j] = epoch[j] + 1
           /\ BeginExpiredJob(j) => /\ \A k \in Job \ {j} : SameJob(k)
                                    /\ jstate'[j] = "expired" /\ Resumable(j)
                                    /\ runner'[j] = 0 /\ epoch'[j] = epoch[j]
           /\ CancelJob(j) => /\ \A k \in Job \ {j} : SameJob(k)
                              /\ jstate[j] # "absent"
                              /\ runner'[j] = runner[j] /\ epoch'[j] = epoch[j]
                              /\ \/ jstate'[j] = jstate[j]
                                 \/ /\ jstate[j] \notin Terminal
                                    /\ jstate'[j] = IF runner[j] # 0 THEN "cancelling" ELSE "cancelled"
           /\ DeleteJob(j) => /\ \A k \in Job \ {j} : SameJob(k)
                              /\ jstate'[j] = "absent" /\ runner[j] = 0
                              /\ runner'[j] = 0 /\ epoch'[j] = epoch[j]
<1> USE DEF AdmissionTypeOK, SameJob
<1>1. CreateJob(j) => /\ \A k \in Job \ {j} : SameJob(k)
                      /\ jstate[j] = "absent" /\ jstate'[j] = "queued"
                      /\ runner'[j] = runner[j] /\ epoch'[j] = epoch[j]
  BY DEF CreateJob
<1>2. BeginJob(j) => /\ \A k \in Job \ {j} : SameJob(k)
                     /\ jstate'[j] = "running"
                     /\ runner'[j] = epoch[j] + 1 /\ epoch'[j] = epoch[j] + 1
  BY DEF BeginJob
<1>3. BeginExpiredJob(j) => /\ \A k \in Job \ {j} : SameJob(k)
                            /\ jstate'[j] = "expired" /\ Resumable(j)
                            /\ runner'[j] = 0 /\ epoch'[j] = epoch[j]
  BY DEF BeginExpiredJob, Resumable
<1>4. CancelJob(j) => /\ \A k \in Job \ {j} : SameJob(k)
                      /\ jstate[j] # "absent"
                      /\ runner'[j] = runner[j] /\ epoch'[j] = epoch[j]
                      /\ \/ jstate'[j] = jstate[j]
                         \/ /\ jstate[j] \notin Terminal
                            /\ jstate'[j] = IF runner[j] # 0 THEN "cancelling" ELSE "cancelled"
  BY DEF CancelJob
<1>5. DeleteJob(j) => /\ \A k \in Job \ {j} : SameJob(k)
                      /\ jstate'[j] = "absent" /\ runner[j] = 0
                      /\ runner'[j] = 0 /\ epoch'[j] = epoch[j]
  BY DEF DeleteJob
<1> QED
  BY <1>1, <1>2, <1>3, <1>4, <1>5

\* A run gives its job back, by finish() or by recovery.
LEMMA GivenBack ==
    ASSUME AdmissionTypeOK, NEW j \in Job, NEW e,
           RecoverJob(j, e) \/ \E want \in Terminal \union {"paused"} : FinishJob(j, e, want)
    PROVE  /\ \A k \in Job \ {j} : SameJob(k)
           /\ jstate'[j] \in Terminal \union {"paused"}
           /\ runner[j] # 0 /\ runner'[j] = 0
           /\ epoch'[j] \in {epoch[j], epoch[j] + 1}
<1> USE DEF AdmissionTypeOK, SameJob
<1>1. CASE RecoverJob(j, e)
  BY <1>1 DEF RecoverJob, RecoveredStates, Fence, Terminal
<1>2. ASSUME NEW want \in Terminal \union {"paused"}, FinishJob(j, e, want)
      PROVE  /\ \A k \in Job \ {j} : SameJob(k)
             /\ jstate'[j] \in Terminal \union {"paused"}
             /\ runner[j] # 0 /\ runner'[j] = 0
             /\ epoch'[j] \in {epoch[j], epoch[j] + 1}
  BY <1>2, FinalIsState DEF FinishJob, Fence
<1> QED
  BY <1>1, <1>2

\* Every step keeps what a row says of its job.
LEMMA QueueStep ==
    ASSUME DispatchInv, [DispatchNext]_dispatchVars
    PROVE  \A j \in Job : QueueOf(j)'
<1> USE DEF Terminal
<1> DEFINE Goal == \A k \in Job : QueueOf(k)'
           Others(j) == \A k \in Job \ {j} : SameJob(k) /\ SameRow(k)
<1>0. DispatchTypeOK /\ AdmissionTypeOK /\ \A j \in Job : QueueOf(j)
  BY DEF DispatchInv, DispatchTypeOK
<1>a. ASSUME NEW j \in Job, Others(j), QueueOf(j)' PROVE Goal
  BY <1>0, <1>a, SameKeeps
<1>b. UNCHANGED jobVars => \A k \in Job : SameJob(k)
  BY DEF jobVars, SameJob
<1>c. UNCHANGED rowVars => \A k \in Job : SameRow(k)
  BY DEF rowVars, SameRow
<1>d. UNCHANGED admissionVars => UNCHANGED jobVars
  BY DEF admissionVars
<1>e. ASSUME UNCHANGED jobVars, UNCHANGED rowVars PROVE Goal
  BY <1>0, <1>b, <1>c, <1>e, SameKeeps
<1>1. ASSUME NEW j \in Job, Enqueue(j) PROVE Goal
  <2>1. Others(j)
    BY <1>0, <1>1, <1>b, <1>d DEF Enqueue, SameRow, DispatchTypeOK
  <2>2. QueueOf(j)'
    BY <1>0, <1>1, <1>b, <1>d
       DEF Enqueue, Resumable, SameJob, QueueOf, DispatchTypeOK
  <2> QED
    BY <2>1, <2>2, <1>a
<1>2. ASSUME NEW j \in Job, AdmitAndEnqueue(j) PROVE Goal
  <2>1. CreateJob(j)
    BY <1>2 DEF AdmitAndEnqueue
  <2>2. Others(j)
    BY <1>0, <1>2, <2>1, MethodEffect DEF AdmitAndEnqueue, SameRow, DispatchTypeOK
  <2>3. QueueOf(j)'
    BY <1>0, <1>2, <2>1, MethodEffect DEF AdmitAndEnqueue, QueueOf, DispatchTypeOK
  <2> QED
    BY <2>2, <2>3, <1>a
<1>3. ASSUME NEW j \in Job, RecoverStoppedWorker(j) PROVE Goal
  <2>1. row'[j] = RowRecovered(jstate'[j]) /\ bound'[j] = 0
    BY <1>0, <1>3 DEF RecoverStoppedWorker, DispatchTypeOK
  <2>2. \A k \in Job \ {j} : SameRow(k)
    BY <1>0, <1>3 DEF RecoverStoppedWorker, SameRow, DispatchTypeOK
  <2>3. CASE runner[j] = 0 /\ UNCHANGED admissionVars
    <3>1. \A k \in Job : SameJob(k)
      BY <2>3, <1>b, <1>d
    <3>2. jstate[j] \in {"queued", "paused"} \union Terminal
      <4>1. jstate[j] \in JobStates /\ jstate[j] \notin {"running", "cancelling", "absent"}
        BY <1>0, <1>3, <2>3 DEF RecoverStoppedWorker, QueueOf, AdmissionTypeOK
      <4> QED
        BY <4>1 DEF JobStates
    <3>3. QueueOf(j)'
      BY <1>0, <2>1, <2>3, <3>1, <3>2 DEF RowRecovered, SameJob, QueueOf
    <3> QED
      BY <2>2, <3>1, <3>3, <1>a
  <2>4. CASE RecoverJob(j, runner[j])
    <3>1. /\ \A k \in Job \ {j} : SameJob(k)
          /\ jstate'[j] \in Terminal \union {"paused"}
          /\ runner'[j] = 0 /\ epoch'[j] \in {epoch[j], epoch[j] + 1}
      BY <1>0, <2>4, GivenBack
    <3>2. epoch[j] \in Nat
      BY <1>0 DEF AdmissionTypeOK
    <3>3. QueueOf(j)'
      BY <2>1, <3>1, <3>2 DEF RowRecovered, QueueOf
    <3> QED
      BY <2>2, <3>1, <3>3, <1>a
  <2> QED
    BY <1>3, <2>3, <2>4 DEF RecoverStoppedWorker
<1>4. ASSUME NEW j \in Job, UserCancels(j) PROVE Goal
  <2>1. CancelJob(j) /\ \A k \in Job : SameRow(k)
    BY <1>4, <1>c DEF UserCancels
  <2>2. Others(j)
    BY <1>0, <2>1, MethodEffect
  <2>3. QueueOf(j)'
    BY <1>0, <2>1, MethodEffect DEF SameRow, QueueOf
  <2> QED
    BY <2>2, <2>3, <1>a
<1>5. ASSUME NEW j \in Job, UserDeletes(j) PROVE Goal
  <2>1. DeleteJob(j)
    BY <1>5 DEF UserDeletes
  <2>2. Others(j)
    BY <1>0, <1>5, <2>1, MethodEffect DEF UserDeletes, SameRow, DispatchTypeOK
  <2>3. QueueOf(j)'
    BY <1>0, <1>5, <2>1, MethodEffect
       DEF UserDeletes, QueueOf, DispatchTypeOK, AdmissionTypeOK
  <2> QED
    BY <2>2, <2>3, <1>a
<1>6. ASSUME NEW w \in Worker, NEW j \in Claimable, NEW passed \in SUBSET (Pending \ Claimable),
             NEW heard \in Heard, ClaimRow(w, j, passed, heard)
      PROVE  Goal
  <2>1. \A k \in Job : SameJob(k)
    BY <1>6, <1>b, <1>d DEF ClaimRow
  <2>2. j \in Job /\ Resumable(j) /\ row[j] = "pending"
    BY DEF Claimable, Pending
  <2>3. QueueOf(j)'
    BY <1>0, <1>6, <2>1, <2>2 DEF ClaimRow, Resumable, SameJob, QueueOf, DispatchTypeOK
  <2>4. ASSUME NEW k \in Job \ {j} PROVE QueueOf(k)'
    <3>1. bound'[k] = bound[k]
      BY <1>0, <1>6, <2>2 DEF ClaimRow, DispatchTypeOK
    <3>2. CASE k \in passed
      BY <1>0, <1>6, <2>1, <3>1, <3>2 DEF ClaimRow, Pending, Sifted, SameJob, QueueOf
    <3>3. CASE k \notin passed
      BY <1>0, <1>6, <2>1, <3>1, <3>3 DEF ClaimRow, SameJob, QueueOf
    <3> QED
      BY <3>2, <3>3
  <2> QED
    BY <2>3, <2>4
<1>7. ASSUME NEW w \in Worker, SiftAll(w) PROVE Goal
  <2>1. \A k \in Job : SameJob(k)
    BY <1>7, <1>b, <1>d DEF SiftAll
  <2> QED
    BY <1>0, <1>7, <2>1 DEF SiftAll, Pending, Sifted, SameJob, QueueOf
<1>8. ASSUME NEW w \in Worker, WorkerStep(w) PROVE Goal
  <2>0. PICK j \in Job : j = wjob[w]
    BY <1>0 DEF DispatchTypeOK
  <2>1. ASSUME NEW heard \in Heard, StartSlice(w, heard) PROVE Goal
    <3>1. BeginJob(j) /\ row[j] = "claimed"
      BY <2>0, <2>1 DEF StartSlice, CheckClaim, HoldsRow, BeginJob
    <3>2. Others(j)
      BY <1>0, <2>0, <2>1, <3>1, MethodEffect DEF StartSlice, SameRow, DispatchTypeOK
    <3>3. QueueOf(j)'
      BY <1>0, <2>0, <2>1, <3>1, MethodEffect
         DEF StartSlice, QueueOf, DispatchTypeOK, AdmissionTypeOK
    <3> QED
      BY <2>0, <3>2, <3>3, <1>a
  <2>2. ASSUME NEW heard \in Heard, ExpireSlice(w, heard) PROVE Goal
    <3>1. /\ BeginExpiredJob(j) /\ row[j] = "claimed"
          /\ \A k \in Job : SameRow(k)
      BY <2>0, <2>2, <1>c DEF ExpireSlice, CheckClaim, HoldsRow, BeginExpiredJob
    <3>2. Others(j)
      BY <1>0, <2>0, <3>1, MethodEffect
    <3>3. QueueOf(j)'
      BY <1>0, <2>0, <3>1, MethodEffect DEF SameRow, QueueOf, AdmissionTypeOK
    <3> QED
      BY <2>0, <3>2, <3>3, <1>a
  <2>3. ASSUME NEW heard \in Heard, FinishSlice(w, heard) PROVE Goal
    <3>0. \E want \in Terminal \union {"paused"} : FinishJob(j, wrun[w], want)
      BY <2>0, <2>3 DEF FinishSlice, FinishJob, Fence
    <3>1. /\ \A k \in Job : SameRow(k)
          /\ \A k \in Job \ {j} : SameJob(k)
          /\ jstate'[j] \in Terminal \union {"paused"}
          /\ runner[j] # 0 /\ runner'[j] = 0
          /\ epoch'[j] \in {epoch[j], epoch[j] + 1}
      BY <1>0, <1>c, <2>3, <3>0, GivenBack DEF FinishSlice
    <3>2. epoch[j] \in Nat /\ row[j] = "claimed"
      BY <1>0, <2>0, <3>1 DEF QueueOf, AdmissionTypeOK
    <3>3. QueueOf(j)'
      BY <1>0, <2>0, <3>1, <3>2 DEF SameRow, QueueOf
    <3> QED
      BY <2>0, <3>1, <3>3, <1>a
  <2>4. ASSUME NEW heard \in Heard, Acknowledge(w, heard) PROVE Goal
    <3>1. \A k \in Job : SameJob(k)
      BY <2>4, <1>b, <1>d DEF Acknowledge
    <3>2. Others(j)
      BY <1>0, <2>0, <2>4, <3>1 DEF Acknowledge, SameRow, DispatchTypeOK
    <3>3. QueueOf(j)'
      BY <1>0, <2>0, <2>4, <3>1
         DEF Acknowledge, CheckClaim, HoldsRow, RowAfter, SameJob, QueueOf, DispatchTypeOK
    <3> QED
      BY <2>0, <3>2, <3>3, <1>a
  <2>5. CASE WorkOnSlice(w)
    <3>1. UNCHANGED <<jstate, runner, epoch>> /\ UNCHANGED rowVars
      BY <2>5 DEF WorkOnSlice, ClaimStage, CompleteStage, BreakStage
    <3> QED
      BY <1>0, <1>c, <3>1, SameKeeps DEF SameJob
  <2>6. CASE \/ EnterDispatch(w) \/ SliceOver(w) \/ SliceRefused(w)
             \/ FinishFenced(w) \/ FinishRefused(w) \/ AckRefused(w)
    BY <2>6, <1>d, <1>e
       DEF EnterDispatch, SliceOver, SliceRefused, FinishFenced, FinishRefused, AckRefused
  <2> QED
    BY <1>8, <2>1, <2>2, <2>3, <2>4, <2>5, <2>6 DEF WorkerStep
<1>9. CASE Administer
  <2>1. UNCHANGED jobVars /\ UNCHANGED rowVars
    BY <1>9 DEF Administer, Administration, ConfigureAccount, ConfirmQuiescence, Tick
  <2> QED
    BY <2>1, <1>e
<1>10. CASE ChangeTrust \/ (\E w \in Worker : Die(w)) \/ UNCHANGED dispatchVars
  BY <1>10, <1>d, <1>e DEF ChangeTrust, Die, dispatchVars
<1> QED
  BY <1>1, <1>2, <1>3, <1>4, <1>5, <1>6, <1>7, <1>8, <1>9, <1>10 DEF DispatchNext

-----------------------------------------------------------------------------
(* Fences.                                                                 *)

\* No step lowers an epoch.
LEMMA EpochsGrow ==
    ASSUME AdmissionTypeOK, [AdmissionNext]_admissionVars
    PROVE  \A j \in Job : epoch[j] <= epoch'[j]
<1> DEFINE Goal == \A j \in Job : epoch[j] <= epoch'[j]
<1>0. \A j \in Job : epoch[j] \in Nat
  BY DEF AdmissionTypeOK
<1>1. CASE UNCHANGED epoch
  BY <1>0, <1>1
<1>2. ASSUME NEW j \in Job, epoch' = [epoch EXCEPT ![j] = epoch[j] + 1] PROVE Goal
  <2>1. ASSUME NEW k \in Job PROVE epoch'[k] = epoch[k] \/ epoch'[k] = epoch[k] + 1
    BY <1>2 DEF AdmissionTypeOK
  <2> QED
    BY <1>0, <2>1
<1> QED
  BY <1>1, <1>2
     DEF AdmissionNext, Administration, Running, ConfigureAccount, ConfirmQuiescence, Tick,
         CreateJob, BeginJob, BeginExpiredJob, ClaimStage, CompleteStage, BreakStage, FinishJob,
         RecoverJob, CancelJob, DeleteJob, admissionVars, jobVars

\* Every step keeps the fences of two workers different.
LEMMA FenceStep ==
    ASSUME DispatchInv, [DispatchNext]_dispatchVars
    PROVE  FencesDiffer'
<1>0. /\ DispatchTypeOK /\ AdmissionTypeOK /\ FencesDiffer
      /\ DispatchTypeOK' /\ \A j \in Job : epoch[j] <= epoch'[j]
  BY StepAdmits, DispatchStepType, EpochsGrow DEF DispatchInv, DispatchTypeOK
<1>1. ASSUME NEW w \in Worker
      PROVE  /\ wjob[w] \in Job /\ wrun[w] \in Nat
             /\ epoch[wjob[w]] \in Nat /\ epoch'[wjob[w]] \in Nat
             /\ epoch[wjob[w]] <= epoch'[wjob[w]]
  BY <1>0 DEF DispatchTypeOK, AdmissionTypeOK
<1>2. CASE UNCHANGED <<wjob, wrun>>
  <2>1. ASSUME NEW w \in Worker PROVE wrun'[w] <= epoch'[wjob'[w]]
    BY <1>0, <1>1, <1>2 DEF FencesDiffer
  <2>2. \A v, w \in Worker :
            v # w /\ wjob'[v] = wjob'[w] /\ wrun'[v] = wrun'[w] => wrun'[w] = 0
    BY <1>0, <1>2 DEF FencesDiffer
  <2> QED
    BY <2>1, <2>2 DEF FencesDiffer
<1>3. ASSUME NEW w \in Worker, NEW j \in Job,
             wjob' = [wjob EXCEPT ![w] = j], wrun' = [wrun EXCEPT ![w] = 0]
      PROVE  FencesDiffer'
  <2>1. wrun'[w] = 0 /\ wjob'[w] = j /\ epoch'[j] \in Nat
    BY <1>0, <1>3 DEF DispatchTypeOK, AdmissionTypeOK
  <2>2. \A v \in Worker \ {w} : wrun'[v] = wrun[v] /\ wjob'[v] = wjob[v]
    BY <1>0, <1>3 DEF DispatchTypeOK
  <2>3. ASSUME NEW v \in Worker PROVE wrun'[v] <= epoch'[wjob'[v]]
    <3>1. CASE v = w
      BY <2>1, <3>1
    <3>2. CASE v # w
      BY <1>0, <1>1, <2>2, <3>2 DEF FencesDiffer
    <3> QED
      BY <3>1, <3>2
  <2>4. ASSUME NEW u \in Worker, NEW v \in Worker,
               u # v, wjob'[u] = wjob'[v], wrun'[u] = wrun'[v]
        PROVE  wrun'[v] = 0
    <3>1. CASE u = w \/ v = w
      BY <2>1, <2>4, <3>1
    <3>2. CASE u # w /\ v # w
      BY <1>0, <2>2, <2>4, <3>2 DEF FencesDiffer
    <3> QED
      BY <3>1, <3>2
  <2> QED
    BY <2>3, <2>4 DEF FencesDiffer
\* A fresh epoch is above every fence given for the job so far.
<1>4. ASSUME NEW w \in Worker, NEW heard \in Heard, StartSlice(w, heard) PROVE FencesDiffer'
  <2>0. PICK j \in Job : j = wjob[w]
    BY <1>1
  <2>1. /\ wjob' = wjob /\ epoch[j] \in Nat /\ epoch'[j] = epoch[j] + 1
        /\ wrun'[w] \in {0, epoch[j] + 1}
    BY <1>0, <1>4, <2>0 DEF StartSlice, BeginJob, DispatchTypeOK, AdmissionTypeOK
  <2>2. \A v \in Worker \ {w} : wrun'[v] = wrun[v]
    BY <1>0, <1>4 DEF StartSlice, DispatchTypeOK
  <2>3. ASSUME NEW v \in Worker PROVE wrun'[v] <= epoch'[wjob'[v]]
    <3>1. CASE v = w
      BY <2>0, <2>1, <3>1
    <3>2. CASE v # w
      BY <1>0, <1>1, <2>1, <2>2, <3>2 DEF FencesDiffer
    <3> QED
      BY <3>1, <3>2
  <2>4. ASSUME NEW v \in Worker \ {w}, wjob[v] = j PROVE wrun'[v] \in Nat /\ wrun'[v] <= epoch[j]
    BY <1>0, <1>1, <2>2, <2>4 DEF FencesDiffer
  <2>5. ASSUME NEW u \in Worker, NEW v \in Worker,
               u # v, wjob'[u] = wjob'[v], wrun'[u] = wrun'[v]
        PROVE  wrun'[v] = 0
    <3>1. CASE u = w
      BY <2>0, <2>1, <2>4, <2>5, <3>1
    <3>2. CASE v = w
      BY <2>0, <2>1, <2>4, <2>5, <3>2
    <3>3. CASE u # w /\ v # w
      BY <1>0, <2>1, <2>2, <2>5, <3>3 DEF FencesDiffer
    <3> QED
      BY <3>1, <3>2, <3>3
  <2> QED
    BY <2>3, <2>5 DEF FencesDiffer
<1>5. ASSUME NEW w \in Worker, NEW j \in Claimable, NEW passed \in SUBSET (Pending \ Claimable),
             NEW heard \in Heard, ClaimRow(w, j, passed, heard)
      PROVE  FencesDiffer'
  <2>1. j \in Job
    BY DEF Claimable, Pending
  <2> QED
    BY <1>2, <1>3, <1>5, <2>1 DEF ClaimRow, Lost
<1>6. ASSUME NEW w \in Worker, WorkerStep(w) PROVE FencesDiffer'
  <2>1. ASSUME NEW heard \in Heard,
               ExpireSlice(w, heard) \/ FinishSlice(w, heard) \/ Acknowledge(w, heard)
        PROVE  UNCHANGED <<wjob, wrun>>
    BY <2>1 DEF ExpireSlice, FinishSlice, Acknowledge
  <2>2. CASE \/ EnterDispatch(w) \/ SliceOver(w) \/ SliceRefused(w)
             \/ WorkOnSlice(w) \/ FinishFenced(w) \/ FinishRefused(w) \/ AckRefused(w)
    BY <2>2, <1>2
       DEF EnterDispatch, SliceOver, SliceRefused, WorkOnSlice, FinishFenced, FinishRefused,
           AckRefused, workerVars
  <2> QED
    BY <1>2, <1>4, <1>6, <2>1, <2>2 DEF WorkerStep
<1> QED
  BY <1>2, <1>5, <1>6
     DEF DispatchNext, Enqueue, AdmitAndEnqueue, RecoverStoppedWorker, UserCancels, UserDeletes,
         SiftAll, Die, ChangeTrust, Administer, workerVars, dispatchVars

-----------------------------------------------------------------------------
(* Theorems.                                                               *)

\* Every reachable state of the queue is well typed, its rows tell the truth
\* about their jobs, and no two workers were given the same fence.
THEOREM DispatchInvariance == DispatchSpec => []DispatchInv
<1>1. DispatchInv /\ [DispatchNext]_dispatchVars => DispatchInv'
  BY DispatchStepType, QueueStep, FenceStep DEF DispatchInv
<1> QED
  BY DispatchInitInv, <1>1, PTL DEF DispatchSpec

\* The queue is a way of using the admitted journal: whatever workers,
\* supervisors, users and administrators do, the account sees its own methods.
THEOREM DispatchImplementsAdmission == DispatchSpec => AdmissionSpec
<1>1. DispatchInit => AdmissionInit
  BY DEF DispatchInit
<1>2. DispatchInv /\ [DispatchNext]_dispatchVars => [AdmissionNext]_admissionVars
  BY StepAdmits
<1> QED
  BY <1>1, <1>2, DispatchInvariance, PTL DEF DispatchSpec, AdmissionSpec

\* A confirmed recovery can always name the fence it takes back, and a row that
\* says the job ended is right.
THEOREM QueueIsTrue == DispatchSpec => []QueueAgrees
<1>1. DispatchInv => QueueAgrees
  BY DEF DispatchInv, QueueOf, QueueAgrees
<1> QED
  BY DispatchInvariance, <1>1, PTL

\* However many workers there are, and however wrong a stop receipt was, one of
\* them at most can act on a job.
THEOREM WorkersExclude == DispatchSpec => []OneWorkerPerJob
<1>1. DispatchInv => OneWorkerPerJob
  <2> SUFFICES ASSUME DispatchInv, NEW v \in Worker, NEW w \in Worker,
                      v # w, wjob[v] = wjob[w]
               PROVE  /\ ~(HoldsRow(v) /\ HoldsRow(w))
                      /\ ~(Fence(wjob[v], wrun[v]) /\ Fence(wjob[w], wrun[w]))
    BY DEF OneWorkerPerJob
  <2>1. ~(HoldsRow(v) /\ HoldsRow(w))
    BY DEF HoldsRow
  <2>2. wrun[v] = wrun[w] => wrun[w] = 0
    BY DEF DispatchInv, FencesDiffer
  <2> QED
    BY <2>1, <2>2 DEF Fence
<1> QED
  BY DispatchInvariance, <1>1, PTL

\* Nobody works on a job that was interrupted: no method moves it on.
LEMMA InterruptedRests ==
    ASSUME AdmissionTypeOK, [AdmissionNext]_admissionVars,
           NEW j \in Job, jstate[j] = "interrupted", runner[j] = 0
    PROVE  work'[j] = work[j]
<1>1. ASSUME NEW k \in Job, NEW e,
             ClaimStage(k, e) \/ CompleteStage(k, e) \/ BreakStage(k, e) \/ RecoverJob(k, e)
      PROVE  work'[j] = work[j]
  <2>1. k # j
    BY <1>1 DEF ClaimStage, CompleteStage, BreakStage, RecoverJob, Fence
  <2> QED
    BY <1>1, <2>1 DEF ClaimStage, CompleteStage, BreakStage, RecoverJob, AdmissionTypeOK
<1>2. CASE UNCHANGED work
  BY <1>2
<1> QED
  BY <1>1, <1>2
     DEF AdmissionNext, Administration, Running, ConfigureAccount, ConfirmQuiescence, Tick,
         CreateJob, BeginJob, BeginExpiredJob, FinishJob, CancelJob, DeleteJob,
         admissionVars, jobVars

\* A slice whose outcome is unknown is never queued again.
THEOREM NoReplay == DispatchSpec => InterruptedIsNotReplayed
<1> DEFINE Rests == \A j \in Job : row[j] = "interrupted" =>
                       /\ row'[j] \in {"interrupted", "none"}
                       /\ work'[j] = work[j]
<1>1. DispatchInv /\ [DispatchNext]_dispatchVars => [Rests]_dispatchVars
  <2> SUFFICES ASSUME DispatchInv, DispatchNext, NEW j \in Job, row[j] = "interrupted"
               PROVE  row'[j] \in {"interrupted", "none"} /\ work'[j] = work[j]
    OBVIOUS
  <2>1. /\ DispatchTypeOK /\ AdmissionTypeOK
        /\ jstate[j] = "interrupted" /\ runner[j] = 0
    BY DEF DispatchInv, DispatchTypeOK, QueueOf
  <2>2. work'[j] = work[j]
    BY <2>1, StepAdmits, InterruptedRests
  <2>3. ASSUME NEW k \in Job, UNCHANGED row \/ (k # j /\ \E s : row' = [row EXCEPT ![k] = s])
        PROVE  row'[j] = "interrupted"
    BY <2>1, <2>3 DEF DispatchTypeOK
  <2>4. ASSUME NEW k \in Job,
               \/ Enqueue(k) \/ AdmitAndEnqueue(k) \/ RecoverStoppedWorker(k) \/ UserCancels(k)
        PROVE  row'[j] = "interrupted"
    BY <2>1, <2>3, <2>4
       DEF Enqueue, AdmitAndEnqueue, RecoverStoppedWorker, UserCancels, rowVars, Resumable, CreateJob
  <2>5. ASSUME NEW k \in Job, UserDeletes(k) PROVE row'[j] \in {"interrupted", "none"}
    BY <2>1, <2>5 DEF UserDeletes, DispatchTypeOK
  <2>6. ASSUME NEW w \in Worker,
               \/ \E k \in Claimable, passed \in SUBSET (Pending \ Claimable), heard \in Heard :
                     ClaimRow(w, k, passed, heard)
               \/ SiftAll(w)
        PROVE  row'[j] = "interrupted"
    BY <2>1, <2>6 DEF ClaimRow, SiftAll, Claimable, Pending
  <2>7. ASSUME NEW w \in Worker, NEW heard \in Heard, Acknowledge(w, heard)
        PROVE  row'[j] = "interrupted"
    <3>1. PICK k \in Job : k = wjob[w]
      BY <2>1 DEF DispatchTypeOK
    <3>2. k # j /\ row' = [row EXCEPT ![k] = RowAfter(jstate[k])]
      BY <2>1, <2>7, <3>1 DEF Acknowledge, CheckClaim, HoldsRow
    <3> QED
      BY <2>3, <3>2
  <2>8. ASSUME UNCHANGED row PROVE row'[j] = "interrupted"
    BY <2>8
  <2>9. row'[j] \in {"interrupted", "none"}
    BY <2>4, <2>5, <2>6, <2>7, <2>8
       DEF DispatchNext, WorkerStep, EnterDispatch, SliceOver, SliceRefused, WorkOnSlice,
           FinishFenced, FinishRefused, AckRefused, StartSlice, ExpireSlice, FinishSlice,
           Die, ChangeTrust, Administer, rowVars
  <2> QED
    BY <2>2, <2>9
<1> QED
  BY DispatchInvariance, <1>1, PTL DEF DispatchSpec, InterruptedIsNotReplayed
=============================================================================
