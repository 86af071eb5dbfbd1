-------------------------- MODULE AccountAdmission --------------------------
(***************************************************************************)
(* Account-wide admission over the journal: AccountPostgresStore of        *)
(* execution/postgres_admission.py, for the jobs of one owner.             *)
(*                                                                         *)
(* Each method is one serialized transaction (an advisory lock in          *)
(* postgres_store.py).  A job is seen from outside: of its stages only     *)
(* what finish() and recovery look at is kept, in "work": nothing started, *)
(* an attempt in flight, all settled well, or some stage not completed.    *)
(* JobJournal has the stages themselves.                                   *)
(***************************************************************************)
EXTENDS Integers, FiniteSets, Functions

CONSTANTS
    Job,            \* jobs the owner submits, one per idempotency key
    Resource,       \* what a job reserves: tokens and cost
    Quota,          \* Quota[j][r]: spec.limits of job j
    Deadline,       \* Deadline[j]: spec.limits.deadline_unix_ms
    Policies,       \* the AccountLimit records the administrator may install
    Receipt,        \* quiescence receipts
    NoReceipt,      \* the NULL receipt
    NoPolicy,       \* the absent account row
    MaxTime,        \* bound: the clock stops here
    MaxEpoch,       \* bound on the runs of one job
    MaxRevision     \* bound on configure_account calls

Policy == [period : Nat \ {0}, starts : Nat, ends : Nat, cap : [Resource -> Nat],
           jobs : Nat, enabled : BOOLEAN]

ASSUME AdmissionAssumption ==
    /\ Quota \in [Job -> [Resource -> Nat]]
    /\ Deadline \in [Job -> Nat]
    /\ Policies \subseteq Policy
    /\ NoPolicy \notin Policy
    /\ NoReceipt \notin Receipt
    /\ MaxTime \in Nat /\ MaxEpoch \in Nat /\ MaxRevision \in Nat

VARIABLES
    now,        \* the journal clock
    policy,     \* the owner's row of execution_accounts
    revision,   \* its revision, 0 before the first configuration
    jstate,     \* jobs.state, "absent" without a row
    runner,     \* jobs.runner, the epoch it was issued with, 0 for NULL
    epoch,      \* jobs.epoch
    cancel,     \* jobs.cancel_requested
    work,       \* the stages of the job, summarised
    attempted,  \* tokens_reserved > 0: some stage was ever claimed
    period,     \* execution_reservations.period, 0 without a reservation
    slot,       \* slot_held
    receipt,    \* quiescence_receipt
    tomb        \* the idempotency tombstone

jobVars == <<jstate, runner, epoch, cancel, work, attempted, tomb>>
reservationVars == <<period, slot, receipt>>
accountVars == <<policy, revision>>
admissionVars == <<now, accountVars, jobVars, reservationVars>>

Terminal == {"succeeded", "failed", "cancelled", "expired", "interrupted", "waiting_tools"}
JobStates == {"absent", "queued", "running", "cancelling", "paused"} \union Terminal
Works == {"none", "busy", "settled", "broken"}

AdmissionTypeOK ==
    /\ now \in Nat
    /\ policy \in Policy \union {NoPolicy}
    /\ revision \in Nat
    /\ jstate \in [Job -> JobStates]
    /\ runner \in [Job -> Nat]
    /\ epoch \in [Job -> Nat]
    /\ cancel \in [Job -> BOOLEAN]
    /\ work \in [Job -> Works]
    /\ attempted \in [Job -> BOOLEAN]
    /\ period \in [Job -> Nat]
    /\ slot \in [Job -> BOOLEAN]
    /\ receipt \in [Job -> Receipt \union {NoReceipt}]
    /\ tomb \in [Job -> BOOLEAN]

AdmissionInit ==
    /\ now = 0
    /\ policy = NoPolicy
    /\ revision = 0
    /\ jstate = [j \in Job |-> "absent"]
    /\ runner = [j \in Job |-> 0]
    /\ epoch = [j \in Job |-> 0]
    /\ cancel = [j \in Job |-> FALSE]
    /\ work = [j \in Job |-> "none"]
    /\ attempted = [j \in Job |-> FALSE]
    /\ period = [j \in Job |-> 0]
    /\ slot = [j \in Job |-> FALSE]
    /\ receipt = [j \in Job |-> NoReceipt]
    /\ tomb = [j \in Job |-> FALSE]

-----------------------------------------------------------------------------
(* Reservations outlive their jobs: totals are taken over every reservation *)
(* ever made in the period, outstanding slots over all periods.             *)

Total(p, r) ==
    SumFunctionOnSet([j \in Job |-> Quota[j][r]], {j \in Job : period[j] = p})
Outstanding == Cardinality({j \in Job : slot[j]})

PolicyOpen ==
    /\ policy # NoPolicy
    /\ policy.enabled
    /\ policy.starts <= now
    /\ now < policy.ends

\* _check_job_admission: repeated by begin, claim, completion and control checks.
CheckJobAdmission(j) ==
    /\ PolicyOpen
    /\ period[j] = policy.period
    /\ slot[j]
    /\ \A r \in Resource : Total(policy.period, r) <= policy.cap[r]

ConfigureAccount(p) ==
    /\ revision < MaxRevision
    /\ policy # NoPolicy =>
           \/ p.period = policy.period /\ p.starts = policy.starts /\ p.ends = policy.ends
           \/ /\ p.period # policy.period
              /\ now >= policy.ends
              /\ p.starts >= policy.ends
              /\ \A j \in Job : period[j] # p.period
    /\ now < p.ends
    /\ \A r \in Resource : p.cap[r] >= Total(p.period, r)
    /\ policy' = p
    /\ revision' = revision + 1
    /\ UNCHANGED <<now, jobVars, reservationVars>>

\* Fault: only jobs that still hold a slot count against the caps.
CreateJobRefunding(j) ==
    /\ PolicyOpen /\ Deadline[j] <= policy.ends /\ ~tomb[j]
    /\ jstate[j] = "absent" /\ now < Deadline[j]
    /\ \A r \in Resource :
          SumFunctionOnSet([k \in Job |-> Quota[k][r]], {k \in Job : slot[k]}) + Quota[j][r]
              <= policy.cap[r]
    /\ Outstanding < policy.jobs
    /\ jstate' = [jstate EXCEPT ![j] = "queued"]
    /\ period' = [period EXCEPT ![j] = policy.period]
    /\ slot' = [slot EXCEPT ![j] = TRUE]
    /\ UNCHANGED <<now, accountVars, runner, epoch, cancel, work, attempted, receipt, tomb>>

CreateJob(j) ==
    /\ PolicyOpen
    /\ Deadline[j] <= policy.ends
    /\ ~tomb[j]
    /\ jstate[j] = "absent"
    /\ now < Deadline[j]
    /\ \A r \in Resource : Total(policy.period, r) + Quota[j][r] <= policy.cap[r]
    /\ Outstanding < policy.jobs
    /\ jstate' = [jstate EXCEPT ![j] = "queued"]
    /\ period' = [period EXCEPT ![j] = policy.period]
    /\ slot' = [slot EXCEPT ![j] = TRUE]
    /\ UNCHANGED <<now, accountVars, runner, epoch, cancel, work, attempted, receipt, tomb>>

-----------------------------------------------------------------------------
(* Inherited journal methods with the checks and releases wrapped around.  *)

\* Fault: any owner will do.
FenceAnyRunner(j, e) == runner[j] # 0

Fence(j, e) == runner[j] # 0 /\ runner[j] = e
Resumable(j) == runner[j] = 0 /\ jstate[j] \in {"queued", "paused"}

\* Fault: any terminal job gives its slot back.
ReleaseAtEnd(j) ==
    slot' = IF runner'[j] = 0 /\ jstate'[j] \in Terminal
            THEN [slot EXCEPT ![j] = FALSE] ELSE slot

\* A slot is given back when the job ended with nothing uncertain outside.
ReleaseIfSafe(j) ==
    slot' = IF /\ runner'[j] = 0
               /\ jstate'[j] \in Terminal
               /\ jstate'[j] = "succeeded" \/ ~attempted'[j]
            THEN [slot EXCEPT ![j] = FALSE] ELSE slot

BeginJob(j) ==
    /\ CheckJobAdmission(j)
    /\ Resumable(j)
    /\ now < Deadline[j]
    /\ epoch[j] < MaxEpoch
    /\ runner' = [runner EXCEPT ![j] = epoch[j] + 1]
    /\ epoch' = [epoch EXCEPT ![j] = epoch[j] + 1]
    /\ jstate' = [jstate EXCEPT ![j] = "running"]
    /\ UNCHANGED <<now, accountVars, cancel, work, attempted, reservationVars, tomb>>

BeginExpiredJob(j) ==
    /\ CheckJobAdmission(j)
    /\ Resumable(j)
    /\ now >= Deadline[j]
    /\ jstate' = [jstate EXCEPT ![j] = "expired"]
    /\ UNCHANGED <<now, accountVars, runner, epoch, cancel, work, attempted, period, receipt, tomb>>
    /\ ReleaseIfSafe(j)

ClaimStage(j, e) ==
    /\ CheckJobAdmission(j)
    /\ Fence(j, e)
    /\ jstate[j] = "running" /\ ~cancel[j]
    /\ now < Deadline[j]
    /\ work[j] \in {"none", "settled"}
    /\ work' = [work EXCEPT ![j] = "busy"]
    /\ attempted' = [attempted EXCEPT ![j] = TRUE]
    /\ UNCHANGED <<now, accountVars, jstate, runner, epoch, cancel, reservationVars, tomb>>

\* complete() with a "completed" outcome; the account is checked once more.
CompleteStage(j, e) ==
    /\ CheckJobAdmission(j)
    /\ Fence(j, e)
    /\ work[j] = "busy"
    /\ jstate[j] = "running" /\ ~cancel[j] /\ now < Deadline[j]
    /\ work' = [work EXCEPT ![j] = "settled"]
    /\ UNCHANGED <<now, accountVars, jstate, runner, epoch, cancel, attempted, reservationVars, tomb>>

\* fail_stage(), or a completion recorded as cancelled, expired or waiting.
BreakStage(j, e) ==
    /\ Fence(j, e)
    /\ work[j] = "busy"
    /\ work' = [work EXCEPT ![j] = "broken"]
    /\ UNCHANGED <<now, accountVars, jstate, runner, epoch, cancel, attempted, reservationVars, tomb>>

\* Success of a job whose account closed meanwhile is recorded as a failure.
FinalAs(j, want) ==
    IF cancel[j] THEN "cancelled"
    ELSE IF now >= Deadline[j] THEN "expired"
    ELSE IF want = "succeeded" /\ ~CheckJobAdmission(j) THEN "failed"
    ELSE want

FinishJob(j, e, want) ==
    /\ Fence(j, e)
    /\ work[j] # "busy"
    /\ FinalAs(j, want) = "succeeded" => work[j] = "settled"
    /\ FinalAs(j, want) = "paused" => work[j] \in {"none", "settled"}
    /\ FinalAs(j, want) = "waiting_tools" => work[j] = "broken"
    /\ jstate' = [jstate EXCEPT ![j] = FinalAs(j, want)]
    /\ runner' = [runner EXCEPT ![j] = 0]
    /\ UNCHANGED <<now, accountVars, epoch, cancel, work, attempted, period, receipt, tomb>>
    /\ ReleaseIfSafe(j)

\* Also a repeated or late call, which changes nothing but may release.
CancelJob(j) ==
    /\ jstate[j] # "absent"
    /\ IF jstate[j] \in Terminal \/ cancel[j]
       THEN UNCHANGED <<cancel, jstate>>
       ELSE /\ cancel' = [cancel EXCEPT ![j] = TRUE]
            /\ jstate' = [jstate EXCEPT ![j] =
                             IF runner[j] # 0 THEN "cancelling" ELSE "cancelled"]
    /\ UNCHANGED <<now, accountVars, runner, epoch, work, attempted, period, receipt, tomb>>
    /\ ReleaseIfSafe(j)

RecoveredStates(j) ==
    IF work[j] = "busy" THEN {"interrupted"}
    ELSE IF cancel[j] THEN {"cancelled"}
    ELSE IF work[j] = "broken" THEN {"expired", "failed", "waiting_tools"}
    ELSE {"paused"}

\* recover_abandoned() is inherited as it is: no slot is looked at.
RecoverJob(j, e) ==
    /\ Fence(j, e)
    /\ \E state \in RecoveredStates(j) : jstate' = [jstate EXCEPT ![j] = state]
    /\ runner' = [runner EXCEPT ![j] = 0]
    /\ epoch' = [epoch EXCEPT ![j] = epoch[j] + 1]
    /\ work' = [work EXCEPT ![j] = IF work[j] = "busy" THEN "broken" ELSE work[j]]
    /\ UNCHANGED <<now, accountVars, cancel, attempted, reservationVars, tomb>>

ConfirmQuiescence(j, id) ==
    /\ jstate[j] \in Terminal
    /\ runner[j] = 0
    /\ period[j] # 0
    /\ receipt[j] \in {NoReceipt, id}
    /\ slot' = [slot EXCEPT ![j] = FALSE]
    /\ receipt' = [receipt EXCEPT ![j] = id]
    /\ UNCHANGED <<now, accountVars, jobVars, period>>

\* Fault: the reservation is erased with the private record.
DeleteAndRefund(j) ==
    /\ period[j] # 0 /\ ~slot[j]
    /\ jstate[j] \in Terminal /\ runner[j] = 0
    /\ jstate' = [jstate EXCEPT ![j] = "absent"]
    /\ tomb' = [tomb EXCEPT ![j] = TRUE]
    /\ period' = [period EXCEPT ![j] = 0]
    /\ UNCHANGED <<now, accountVars, runner, epoch, cancel, work, attempted, slot, receipt>>

\* The journal row goes (its last columns are kept here for the properties);
\* the reservation and the tombstone stay.
DeleteJob(j) ==
    /\ period[j] # 0
    /\ ~slot[j]
    /\ jstate[j] \in Terminal
    /\ runner[j] = 0
    /\ jstate' = [jstate EXCEPT ![j] = "absent"]
    /\ tomb' = [tomb EXCEPT ![j] = TRUE]
    /\ UNCHANGED <<now, accountVars, runner, epoch, cancel, work, attempted, reservationVars>>

Tick ==
    /\ now < MaxTime
    /\ now' = now + 1
    /\ UNCHANGED <<accountVars, jobVars, reservationVars>>

Administration ==
    \/ \E p \in Policies : ConfigureAccount(p)
    \/ \E j \in Job, id \in Receipt : ConfirmQuiescence(j, id)
    \/ Tick

Running(j, e) ==
    \/ ClaimStage(j, e)
    \/ CompleteStage(j, e)
    \/ BreakStage(j, e)
    \/ \E want \in Terminal \union {"paused"} : FinishJob(j, e, want)

AdmissionNext ==
    \/ Administration
    \/ \E j \in Job :
          \/ CreateJob(j)
          \/ BeginJob(j)
          \/ BeginExpiredJob(j)
          \/ \E e \in 1..epoch[j] : Running(j, e) \/ RecoverJob(j, e)
          \/ CancelJob(j)
          \/ DeleteJob(j)

AdmissionSpec == AdmissionInit /\ [][AdmissionNext]_admissionVars
-----------------------------------------------------------------------------
(* Properties.                                                             *)

\* The reservations of the current period never exceed the account's caps,
\* whatever is created, deleted, cancelled or reconfigured in any order.
CapsHold ==
    policy # NoPolicy => \A r \in Resource : Total(policy.period, r) <= policy.cap[r]

\* A slot is free again only for a job that is over and whose outside effects
\* are settled: it succeeded, never called a model, or its quiescence was
\* verified; and a job is erased only after its slot was freed.
SlotMeansUncertain ==
    \A j \in Job :
        /\ period[j] # 0 /\ ~slot[j] =>
               /\ jstate[j] \in Terminal \union {"absent"}
               /\ runner[j] = 0
               /\ \/ jstate[j] = "succeeded" \/ tomb[j]
                  \/ ~attempted[j] \/ receipt[j] # NoReceipt
        /\ slot[j] => jstate[j] # "absent"

\* What a job reserved is never refunded or moved: not by success, failure,
\* cancellation, deletion or a new period.
NeverRefunded ==
    [][\A j \in Job : period[j] # 0 => period'[j] = period[j]]_admissionVars

\* docs/postgres-account-admission.md: success or cancellation before any
\* attempt releases an outstanding slot.
UnattemptedReleasesSlot ==
    \A j \in Job : jstate[j] = "cancelled" /\ ~attempted[j] => ~slot[j]
=============================================================================
