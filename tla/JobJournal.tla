----------------------------- MODULE JobJournal -----------------------------
(***************************************************************************)
(* One job of the execution journal (execution/store.py LocalJobStore and  *)
(* its encrypted subclass execution/private_store.py PrivateJobStore).     *)
(*                                                                         *)
(* Every public method of the store is one BEGIN IMMEDIATE .. COMMIT       *)
(* transaction, so every method is one action here; a method that raises   *)
(* rolls back and is a step that does not happen.  The callers are not     *)
(* modelled: any caller may present any fence e that begin() ever issued,  *)
(* including the fence of a runner that lost ownership long ago.           *)
(*                                                                         *)
(* A runner token is a fresh uuid issued together with a fresh epoch, so   *)
(* the token is represented by the epoch it was issued with; 0 is NULL.    *)
(* A stage attempt is a fresh uuid too; a stage is claimed at most once    *)
(* per epoch, so the epoch of the claim stands for it.                     *)
(***************************************************************************)
EXTENDS Integers, FiniteSets, Functions

CONSTANTS
    Stage,          \* stages of the admitted ExecutionSpec
    Ordinal,        \* their position in the plan
    Deps,           \* Deps[s]: dependencies of s, earlier in the plan
    Final,          \* the last stage: "synthesis", the only public one
    Judge,          \* "judge", or a value outside Stage in a Core plan
    Debate,         \* "debate-round-1", or a value outside Stage
    Resource,       \* what admission reserves: tokens and cost
    Need,           \* Need[s][r]: reservation of stage s
    Limit,          \* Limit[r]: the admitted total of the job
    MaxParallel,    \* limits.max_parallel
    Deadline,       \* limits.deadline_unix_ms
    Retain,         \* retain_until_ms of private_job_policy
    Private,        \* TRUE for PrivateJobStore, FALSE for LocalJobStore
    FragmentSize,   \* sizes of the public fragments callers append
    MaxFragments,   \* MAX_FRAGMENTS_PER_JOB
    MaxChars,       \* MAX_PUBLIC_ANSWER_CHARS
    MaxTime,        \* bound: the clock stops here
    MaxEpoch        \* bound: begin() is not called beyond this epoch

ASSUME PlanAssumption ==
    /\ IsFiniteSet(Stage)
    /\ Deps \in [Stage -> SUBSET Stage]
    /\ Final \in Stage
    /\ Ordinal \in [Stage -> Nat]
    /\ \A s \in Stage : \A d \in Deps[s] : Ordinal[d] < Ordinal[s]
    /\ \A s \in Stage : Ordinal[s] <= Ordinal[Final]
    /\ Debate # Final
    /\ Judge # Debate
    /\ Debate \in Stage => Judge \in Deps[Debate]

\* ExecutionSpec refuses a plan whose stages do not fit the job's limits.
ASSUME BudgetAssumption ==
    /\ Need \in [Stage -> [Resource -> Nat]]
    /\ Limit \in [Resource -> Nat]
    /\ \A r \in Resource :
          SumFunctionOnSet([s \in Stage |-> Need[s][r]], Stage) <= Limit[r]

ASSUME BoundAssumption ==
    /\ MaxParallel \in Nat /\ MaxEpoch \in Nat /\ MaxTime \in Nat
    /\ Deadline \in Nat /\ Retain \in Nat /\ Deadline <= Retain
    /\ Private \in BOOLEAN
    /\ FragmentSize \subseteq Nat \ {0}
    /\ MaxFragments \in Nat /\ MaxChars \in Nat

VARIABLES
    now,        \* the trusted journal clock
    jstate,     \* jobs.state, "absent" while there is no row
    runner,     \* jobs.runner
    epoch,      \* jobs.epoch
    cancel,     \* jobs.cancel_requested
    reserved,   \* jobs.tokens_reserved and jobs.cost_reserved
    seq,        \* jobs.sequence, the number of events appended
    st,         \* stages.state
    claimedBy,  \* stages.attempt and stages.epoch, 0 while NULL
    verdict,    \* debate_required in the judge's stored result
    frags,      \* rows of answer_fragments
    chars,      \* SUM(chars) of answer_fragments
    tomb        \* a row for (owner, idem) in private_job_tombstones

jobVars == <<jstate, runner, epoch, cancel, reserved>>
stageVars == <<st, claimedBy, verdict>>
publicVars == <<frags, chars>>
vars == <<now, jobVars, seq, stageVars, publicVars, tomb>>

Terminal == {"succeeded", "failed", "cancelled", "expired", "interrupted", "waiting_tools"}
JobStates == {"absent", "queued", "running", "cancelling", "paused"} \union Terminal
StageStates == {"pending", "running", "completed", "waiting_tools", "cancelled",
                "expired", "failed", "skipped", "uncertain"}
Verdicts == {"none", "debate", "agree"}
NoUse == [r \in Resource |-> 0]

TypeOK ==
    /\ now \in Nat
    /\ jstate \in JobStates
    /\ runner \in Nat /\ epoch \in Nat
    /\ cancel \in BOOLEAN
    /\ reserved \in [Resource -> Nat]
    /\ seq \in Nat
    /\ st \in [Stage -> StageStates]
    /\ claimedBy \in [Stage -> Nat]
    /\ verdict \in Verdicts
    /\ frags \in Nat /\ chars \in Nat
    /\ tomb \in BOOLEAN

\* A job row and its stage rows as create() inserts them.
EmptyRow ==
    /\ runner = 0
    /\ epoch = 0
    /\ cancel = FALSE
    /\ reserved = NoUse
    /\ seq = 0
    /\ st = [s \in Stage |-> "pending"]
    /\ claimedBy = [s \in Stage |-> 0]
    /\ verdict = "none"
    /\ frags = 0
    /\ chars = 0

Init ==
    /\ now = 0
    /\ jstate = "absent"
    /\ tomb = FALSE
    /\ EmptyRow

-----------------------------------------------------------------------------
(* Guards shared by the methods.                                           *)

Fence(e) == runner # 0 /\ runner = e /\ epoch = e

\* PrivateJobStore._spec refuses to open the plan after retention.
Readable == ~Private \/ now < Retain

InTime == now < Deadline
Working == jstate = "running" /\ ~cancel /\ InTime
InFlight == {s \in Stage : st[s] = "running"}
Settled(s, d) ==
    \/ st[d] = "completed"
    \/ st[d] = "skipped" /\ s = Final /\ d = Debate

\* The caller presents the fence and the attempt it was given for s.
OwnsAttempt(e, s) == Fence(e) /\ st[s] = "running" /\ claimedBy[s] = e

Emit(n) == seq' = seq + n

-----------------------------------------------------------------------------
(* A repeated create() with the same idempotency key returns the same job  *)
(* and a different fingerprint under that key is refused: no state change. *)

Create ==
    /\ jstate = "absent"
    /\ ~tomb
    /\ InTime
    /\ jstate' = "queued"
    /\ Emit(1)
    /\ UNCHANGED <<now, runner, epoch, cancel, reserved, stageVars, publicVars, tomb>>

BeginExpired ==
    /\ Readable
    /\ runner = 0
    /\ jstate \in {"queued", "paused"}
    /\ ~InTime
    /\ jstate' = "expired"
    /\ Emit(1)
    /\ UNCHANGED <<now, runner, epoch, cancel, reserved, stageVars, publicVars, tomb>>

Begin ==
    /\ Readable
    /\ runner = 0
    /\ jstate \in {"queued", "paused"}
    /\ InTime
    /\ epoch < MaxEpoch
    /\ runner' = epoch + 1
    /\ epoch' = epoch + 1
    /\ jstate' = "running"
    /\ Emit(1)
    /\ UNCHANGED <<now, cancel, reserved, stageVars, publicVars, tomb>>

\* Fault: the pending check also admits a failed attempt ("retry").
MayClaimRetry(e, s) ==
    /\ Fence(e) /\ Readable /\ Working
    /\ st[s] \in {"pending", "failed"}
    /\ Cardinality(InFlight) < MaxParallel
    /\ \A d \in Deps[s] : Settled(s, d)

\* claim() up to the judge's decision.
MayClaim(e, s) ==
    /\ Fence(e)
    /\ Readable
    /\ Working
    /\ st[s] = "pending"
    /\ Cardinality(InFlight) < MaxParallel
    /\ \A d \in Deps[s] : Settled(s, d)

\* Fault: the debate is paid for before the judge's decision is looked at.
SkipPaid(e, s) ==
    /\ MayClaim(e, s)
    /\ s = Debate
    /\ verdict = "agree"
    /\ st' = [st EXCEPT ![s] = "skipped"]
    /\ reserved' = [r \in Resource |-> reserved[r] + Need[s][r]]
    /\ Emit(1)
    /\ UNCHANGED <<now, jstate, runner, epoch, cancel, claimedBy, verdict, publicVars, tomb>>

Skip(e, s) ==
    /\ MayClaim(e, s)
    /\ s = Debate
    /\ verdict = "agree"
    /\ st' = [st EXCEPT ![s] = "skipped"]
    /\ Emit(1)
    /\ UNCHANGED <<now, jobVars, claimedBy, verdict, publicVars, tomb>>

Claim(e, s) ==
    /\ MayClaim(e, s)
    /\ s = Debate => verdict = "debate"
    /\ \A r \in Resource : reserved[r] + Need[s][r] <= Limit[r]
    /\ reserved' = [r \in Resource |-> reserved[r] + Need[s][r]]
    /\ st' = [st EXCEPT ![s] = "running"]
    /\ claimedBy' = [claimedBy EXCEPT ![s] = e]
    /\ Emit(1)
    /\ UNCHANGED <<now, jstate, runner, epoch, cancel, verdict, publicVars, tomb>>

\* Cancellation and expiry beat a late success.
CompletedAs(tools) ==
    IF cancel \/ jstate # "running" THEN "cancelled"
    ELSE IF ~InTime THEN "expired"
    ELSE IF tools THEN "waiting_tools"
    ELSE "completed"

\* decision is the judge's debate_required; other stages return None.
Complete(e, s, tools, decision) ==
    /\ OwnsAttempt(e, s)
    /\ Readable
    /\ (s = Judge) <=> (decision # "none")
    /\ st' = [st EXCEPT ![s] = CompletedAs(tools)]
    /\ verdict' = IF s = Judge /\ CompletedAs(tools) = "completed" THEN decision ELSE verdict
    /\ Emit(1)
    /\ UNCHANGED <<now, jobVars, claimedBy, publicVars, tomb>>

FailStage(e, s) ==
    /\ OwnsAttempt(e, s)
    /\ st' = [st EXCEPT ![s] = "failed"]
    /\ Emit(1)
    /\ UNCHANGED <<now, jobVars, claimedBy, verdict, publicVars, tomb>>

\* Fault: cancelling an owned job closes it at once.
RequestCancelNow ==
    /\ jstate \notin Terminal \union {"absent"}
    /\ ~cancel
    /\ cancel' = TRUE
    /\ jstate' = "cancelled"
    /\ Emit(2)
    /\ UNCHANGED <<now, runner, epoch, reserved, stageVars, publicVars, tomb>>

RequestCancel ==
    /\ jstate \notin Terminal \union {"absent"}
    /\ ~cancel
    /\ cancel' = TRUE
    /\ \/ /\ runner # 0
          /\ jstate' = "cancelling"
          /\ Emit(1)
       \/ /\ runner = 0
          /\ jstate' = "cancelled"
          /\ Emit(2)
    /\ UNCHANGED <<now, runner, epoch, reserved, stageVars, publicVars, tomb>>

\* Fault: finish() trusts the caller's outcome.
FinalAsTold(want) == want

FinalAs(want) ==
    IF cancel THEN "cancelled" ELSE IF ~InTime THEN "expired" ELSE want

\* Fault: any outcome is accepted without looking at the plan.
MayFinishBlind(e, want) == Fence(e) /\ InFlight = {}

\* PrivateJobStore.finish after retention closes as cancelled or expired; as
\* Deadline <= Retain, FinalAs gives those same two outcomes there.
MayFinish(e, want) ==
    /\ Fence(e)
    /\ InFlight = {}
    /\ FinalAs(want) = "succeeded" =>
           /\ \A s \in Stage : st[s] \in {"completed", "skipped"}
           /\ st[Final] = "completed"
    /\ FinalAs(want) = "waiting_tools" => \E s \in Stage : st[s] = "waiting_tools"
    /\ FinalAs(want) = "paused" => \A s \in Stage : st[s] \in {"completed", "skipped", "pending"}

\* Fault: the job is closed under its owner.
FinishKeepsRunner(e, want) ==
    /\ MayFinish(e, want)
    /\ jstate' = FinalAs(want)
    /\ Emit(1)
    /\ UNCHANGED <<now, runner, epoch, cancel, reserved, stageVars, publicVars, tomb>>

Finish(e, want) ==
    /\ MayFinish(e, want)
    /\ jstate' = FinalAs(want)
    /\ runner' = 0
    /\ Emit(1)
    /\ UNCHANGED <<now, epoch, cancel, reserved, stageVars, publicVars, tomb>>

Has(state) == \E s \in Stage : st[s] = state

\* Fault: the state given to a crashed attempt is given to the job.
RecoveredAsStage == IF Has("running") THEN "uncertain" ELSE "paused"

RecoveredAs ==
    CASE Has("running") \/ Has("uncertain") -> "interrupted"
      [] ~(Has("running") \/ Has("uncertain")) /\ (cancel \/ Has("cancelled")) -> "cancelled"
      [] OTHER -> IF Has("expired") THEN "expired"
                  ELSE IF Has("failed") THEN "failed"
                  ELSE IF Has("waiting_tools") THEN "waiting_tools"
                  ELSE "paused"

\* Fault: a crashed attempt is put back into the plan.
RecoverRequeue(e) ==
    /\ Fence(e)
    /\ Readable
    /\ jstate' = "paused"
    /\ st' = [s \in Stage |-> IF st[s] = "running" THEN "pending" ELSE st[s]]
    /\ runner' = 0
    /\ epoch' = epoch + 1
    /\ Emit(1)
    /\ UNCHANGED <<now, cancel, reserved, claimedBy, verdict, publicVars, tomb>>

\* The supervisor vouches that the process holding fence e has stopped.
RecoverAbandoned(e) ==
    /\ Fence(e)
    /\ Readable
    /\ jstate' = RecoveredAs
    /\ st' = [s \in Stage |-> IF st[s] = "running" THEN "uncertain" ELSE st[s]]
    /\ runner' = 0
    /\ epoch' = epoch + 1
    /\ Emit(1)
    /\ UNCHANGED <<now, cancel, reserved, claimedBy, verdict, publicVars, tomb>>

AppendPublicDelta(e, s, n) ==
    /\ Fence(e)
    /\ Readable
    /\ Working
    /\ s = Final
    /\ OwnsAttempt(e, s)
    /\ frags < MaxFragments
    /\ chars + n <= MaxChars
    /\ frags' = frags + 1
    /\ chars' = chars + n
    /\ Emit(1)
    /\ UNCHANGED <<now, jobVars, stageVars, tomb>>

EraseRow ==
    /\ runner' = 0
    /\ epoch' = 0
    /\ cancel' = FALSE
    /\ reserved' = NoUse
    /\ seq' = 0
    /\ st' = [s \in Stage |-> "pending"]
    /\ claimedBy' = [s \in Stage |-> 0]
    /\ verdict' = "none"
    /\ frags' = 0
    /\ chars' = 0

\* Fault: deletion leaves no tombstone.
DeleteWithoutTomb ==
    /\ Private
    /\ jstate \in Terminal
    /\ runner = 0
    /\ jstate' = "absent"
    /\ EraseRow
    /\ UNCHANGED <<now, tomb>>

\* The deletion policy and the quiescence receipt it verifies are the
\* server's; with their consent an unowned terminal job may go at any time.
DeleteJob ==
    /\ Private
    /\ jstate \in Terminal
    /\ runner = 0
    /\ tomb' = TRUE
    /\ jstate' = "absent"
    /\ EraseRow
    /\ UNCHANGED now

Tick ==
    /\ now < MaxTime
    /\ now' = now + 1
    /\ UNCHANGED <<jobVars, seq, stageVars, publicVars, tomb>>

-----------------------------------------------------------------------------
Fenced(e) ==
    \/ \E s \in Stage :
          \/ Skip(e, s)
          \/ Claim(e, s)
          \/ \E tools \in BOOLEAN, d \in Verdicts : Complete(e, s, tools, d)
          \/ FailStage(e, s)
          \/ \E n \in FragmentSize : AppendPublicDelta(e, s, n)
    \/ \E want \in Terminal \union {"paused"} : Finish(e, want)
    \/ RecoverAbandoned(e)

Next ==
    \/ Create
    \/ BeginExpired
    \/ Begin
    \/ \E e \in 1..epoch : Fenced(e)
    \/ RequestCancel
    \/ DeleteJob
    \/ Tick

Spec == Init /\ [][Next]_vars

-----------------------------------------------------------------------------
(* Properties.                                                             *)

\* A job is answered only by a plan that ran to its end: every stage is
\* completed or skipped, the public stage is completed, nobody still owns the
\* job, and no cancellation was accepted before (finish, begin, recovery).
SuccessMeansWhole ==
    jstate = "succeeded" =>
        /\ \A s \in Stage : st[s] \in {"completed", "skipped"}
        /\ st[Final] = "completed"
        /\ runner = 0
        /\ ~cancel

\* An accepted cancellation is never overtaken by another outcome: the job is
\* cancelling while it is owned, and closes as cancelled, or as interrupted
\* when the supervisor found an attempt whose effect is unknown.
CancelWins ==
    cancel => \/ jstate = "cancelling" /\ runner # 0
              \/ jstate \in {"cancelled", "interrupted"} /\ runner = 0

\* Ownership and work agree: the job is running or cancelling exactly while a
\* runner owns it, an unowned job has no attempt in flight, every attempt in
\* flight was claimed under the current fence, and a job that may be begun
\* again has nothing in its plan but finished and untouched stages.
OwnershipAgrees ==
    /\ runner # 0 <=> jstate \in {"running", "cancelling"}
    /\ runner # 0 => runner = epoch
    /\ \A s \in InFlight : runner # 0 /\ claimedBy[s] = runner
    /\ jstate \in {"absent", "queued", "paused"} =>
           \A s \in Stage : st[s] \in {"pending", "completed", "skipped"}

\* The counters of a job are the sum of the reservations of the stages ever
\* claimed, however often it was paused, crashed and resumed; so a pending
\* stage of an admitted plan always fits and no resumed job stalls on budget.
BudgetIsClaims ==
    \A r \in Resource :
        /\ reserved[r] = SumFunctionOnSet([s \in Stage |-> Need[s][r]],
                                          {s \in Stage : claimedBy[s] # 0})
        /\ \A s \in Stage : st[s] = "pending" => reserved[r] + Need[s][r] <= Limit[r]

\* Public text exists only under an attempt of the final stage, and only
\* after everything that stage depends on was settled.
PublishedAfterPlan ==
    frags > 0 => /\ claimedBy[Final] # 0
                 /\ \A d \in Deps[Final] : Settled(Final, d)

\* A closed job is closed for good: no caller, whatever fence it still holds,
\* changes its outcome, its stages, its counters or its text; the row can
\* only be erased, and an erased job is never admitted again.
ClosedIsFinal ==
    [][/\ jstate \in Terminal =>
             \/ UNCHANGED <<jobVars, seq, stageVars, publicVars, tomb>>
             \/ jstate' = "absent" /\ tomb'
       /\ tomb => jstate' = "absent" /\ tomb']_vars

\* The refinement mapping onto the promise of OnceDag: every way a started
\* stage can end without an artifact is "dead".
Phase(state) ==
    CASE state = "pending"   -> "idle"
      [] state = "running"   -> "busy"
      [] state = "completed" -> "done"
      [] state = "skipped"   -> "skipped"
      [] OTHER               -> "dead"

Outcome ==
    IF tomb THEN "gone"
    ELSE IF jstate = "succeeded" THEN "answered"
    ELSE IF jstate \in Terminal THEN "closed"
    ELSE "open"

Dag == INSTANCE OnceDag WITH
    phase <- [s \in Stage |-> Phase(st[s])],
    outcome <- Outcome

\* The journal keeps that promise: no stage starts twice, out of order, or
\* after the request closed.
KeepsPromise == Dag!Spec
=============================================================================
