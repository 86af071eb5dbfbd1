---------------------------- MODULE LocalRunner -----------------------------
(***************************************************************************)
(* The synchronous scheduler over the journal (execution/runner.py).       *)
(*                                                                         *)
(* A run is one call of LocalRunner.run for the job: a main thread that    *)
(* schedules batches of ready stages, and one pool thread per stage of the *)
(* batch that claims it, calls the model worker and records the outcome.   *)
(* Around the runs stand the processes the code names but does not         *)
(* contain: the user who cancels or deletes, the account service that      *)
(* revokes the grant, the crash of a runner's process and the supervisor   *)
(* that confirms the crash.                                                *)
(*                                                                         *)
(* Each journal call is one step, the JobJournal action of that name, so   *)
(* cancellation, expiry, revocation, recovery and other runs fall between  *)
(* any two of them: between a check and the call it guards, and between    *)
(* the model's answer and its completion.                                  *)
(***************************************************************************)
EXTENDS JobJournal

CONSTANTS
    Runs,           \* calls of LocalRunner.run, each in a process of its own
    Slices,         \* values of max_stages, 0 for None
    FalseStop       \* the epochs whose runner a supervisor may wrongly take for stopped

ASSUME RunnerAssumption ==
    /\ Slices \subseteq Nat
    /\ FalseStop \subseteq Nat

VARIABLES
    pc,         \* pc[r]: idle, loop, collect, finish, dead
    lease,      \* lease[r]: the fence begin() gave to r, 0 before
    slice,      \* slice[r]: max_stages of this call
    started,    \* started[r]: started_count
    stopped,    \* stopped[r]: the Event that stops sibling stages
    failure,    \* failure[r]: the first failure of the batch, as a job state
    want,       \* want[r]: final_state
    th,         \* th[r][s]: the pool thread working on s
    res,        \* res[r][s]: its outcome, as a stage or job state
    granted,    \* what authorization() answers
    calls       \* calls[s]: model calls made for s since the job was created

mainVars == <<pc, lease, slice, started, stopped, failure, want>>
threadVars == <<th, res>>
runVars == <<mainVars, threadVars, granted, calls>>
allVars == <<vars, runVars>>

Pcs == {"idle", "loop", "collect", "finish", "dead"}
ThreadStates == {"none", "queued", "claimed", "cleared", "calling", "answered", "raised", "done"}
Holding == {"claimed", "cleared", "calling", "answered", "raised"}
Outcomes == {"none", "completed", "skipped"} \union Terminal
Alive(r) == pc[r] \notin {"idle", "dead"}
NoThreads == [s \in Stage |-> "none"]

RunTypeOK ==
    /\ TypeOK
    /\ pc \in [Runs -> Pcs]
    /\ lease \in [Runs -> Nat]
    /\ slice \in [Runs -> Slices \union {0}]
    /\ started \in [Runs -> Nat]
    /\ stopped \in [Runs -> BOOLEAN]
    /\ failure \in [Runs -> {"none"} \union Terminal]
    /\ want \in [Runs -> Terminal \union {"paused"}]
    /\ th \in [Runs -> [Stage -> ThreadStates]]
    /\ res \in [Runs -> [Stage -> Outcomes]]
    /\ granted \in BOOLEAN
    /\ calls \in [Stage -> Nat]

RunInit ==
    /\ Init
    /\ pc = [r \in Runs |-> "idle"]
    /\ lease = [r \in Runs |-> 0]
    /\ slice = [r \in Runs |-> 0]
    /\ started = [r \in Runs |-> 0]
    /\ stopped = [r \in Runs |-> FALSE]
    /\ failure = [r \in Runs |-> "none"]
    /\ want = [r \in Runs |-> "failed"]
    /\ th = [r \in Runs |-> NoThreads]
    /\ res = [r \in Runs |-> NoThreads]
    /\ granted = TRUE
    /\ calls = [s \in Stage |-> 0]

-----------------------------------------------------------------------------
(* global_check(): the exception it raises, as the job state that exception *)
(* leads to, or "ok".  A refused grant and a stale fence both end "failed". *)

Check(r) ==
    IF stopped[r] THEN "cancelled"
    ELSE IF ~granted \/ ~Fence(lease[r]) THEN "failed"
    ELSE IF cancel THEN "cancelled"
    ELSE IF jstate # "running" THEN "failed"
    ELSE IF ~InTime THEN "expired"
    ELSE "ok"

SetThread(r, s, t) == th' = [th EXCEPT ![r][s] = t]
SetResult(r, s, o) == res' = [res EXCEPT ![r][s] = o]

-----------------------------------------------------------------------------
(* The main thread.                                                        *)

\* Runs are alike, so which of the idle ones is called next is immaterial.
NextRun == CHOOSE r \in Runs : pc[r] = "idle"

Start(r, k) ==
    /\ pc[r] = "idle"
    /\ r = NextRun
    /\ granted
    /\ Begin
    /\ pc' = [pc EXCEPT ![r] = "loop"]
    /\ lease' = [lease EXCEPT ![r] = epoch + 1]
    /\ slice' = [slice EXCEPT ![r] = k]
    /\ started' = [started EXCEPT ![r] = 0]
    /\ stopped' = [stopped EXCEPT ![r] = FALSE]
    /\ failure' = [failure EXCEPT ![r] = "none"]
    /\ want' = [want EXCEPT ![r] = "failed"]
    /\ UNCHANGED <<threadVars, granted, calls>>

StartExpired(r) ==
    /\ pc[r] = "idle"
    /\ granted
    /\ BeginExpired
    /\ UNCHANGED runVars

LeaveLoop(r, outcome) ==
    /\ pc' = [pc EXCEPT ![r] = "finish"]
    /\ want' = [want EXCEPT ![r] = outcome]
    /\ UNCHANGED <<vars, lease, slice, started, stopped, failure, threadVars, granted, calls>>

Scheduling(r) == pc[r] = "loop" /\ Check(r) = "ok" /\ Readable

AllDone == \A s \in Stage : st[s] \in {"completed", "skipped"}
SliceUsed(r) == slice[r] # 0 /\ started[r] >= slice[r]
Ready == {s \in Stage : st[s] = "pending"
                        /\ \A d \in Deps[s] : st[d] \in {"completed", "skipped"}}
Width(r) ==
    IF slice[r] # 0 /\ slice[r] - started[r] < MaxParallel
    THEN slice[r] - started[r] ELSE MaxParallel
\* ready[:width], the stages of the plan order coming first.
Batch(r) == {s \in Ready : Cardinality({t \in Ready : Ordinal[t] < Ordinal[s]}) < Width(r)}

CheckFails(r) == pc[r] = "loop" /\ Check(r) # "ok" /\ LeaveLoop(r, Check(r))
PlanDone(r) == Scheduling(r) /\ AllDone /\ LeaveLoop(r, "succeeded")
Pause(r) == Scheduling(r) /\ ~AllDone /\ SliceUsed(r) /\ LeaveLoop(r, "paused")

\* The code also requires that something is ready.  That never fails: a run owns
\* the job, its other stages are pending, completed or skipped, and the plan is
\* acyclic.  (Were it to fail, the run would stop here and break OwnershipEnds.)
Submit(r) ==
    /\ Scheduling(r)
    /\ ~AllDone
    /\ ~SliceUsed(r)
    /\ Ready # {}
    /\ th' = [th EXCEPT ![r] = [s \in Stage |-> IF s \in Batch(r) THEN "queued" ELSE "none"]]
    /\ started' = [started EXCEPT ![r] = started[r] + Cardinality(Batch(r))]
    /\ pc' = [pc EXCEPT ![r] = "collect"]
    /\ UNCHANGED <<vars, lease, slice, stopped, failure, want, res, granted, calls>>

\* The 50 ms poll notices cancellation, expiry, revocation or a lost fence.
Poll(r) ==
    /\ pc[r] = "collect"
    /\ failure[r] = "none"
    /\ Check(r) # "ok"
    /\ failure' = [failure EXCEPT ![r] = Check(r)]
    /\ stopped' = [stopped EXCEPT ![r] = TRUE]
    /\ UNCHANGED <<vars, pc, lease, slice, started, want, threadVars, granted, calls>>

\* future.result(): the first failure wins and stops the siblings.
Collect(r, s) ==
    /\ pc[r] = "collect"
    /\ th[r][s] = "done"
    /\ SetThread(r, s, "none")
    /\ \/ /\ failure[r] = "none"
          /\ res[r][s] \notin {"completed", "skipped"}
          /\ failure' = [failure EXCEPT ![r] = res[r][s]]
          /\ stopped' = [stopped EXCEPT ![r] = TRUE]
       \/ /\ failure[r] # "none" \/ res[r][s] \in {"completed", "skipped"}
          /\ UNCHANGED <<failure, stopped>>
    /\ SetResult(r, s, "none")
    /\ UNCHANGED <<vars, pc, lease, slice, started, want, granted, calls>>

\* Fault: the first failure does not wait for the sibling threads.
BatchOverEarly(r) ==
    /\ pc[r] = "collect"
    /\ \/ /\ failure[r] = "none" /\ th[r] = NoThreads
          /\ pc' = [pc EXCEPT ![r] = "loop"]
          /\ UNCHANGED want
       \/ /\ failure[r] # "none"
          /\ pc' = [pc EXCEPT ![r] = "finish"]
          /\ want' = [want EXCEPT ![r] = failure[r]]
    /\ UNCHANGED <<vars, lease, slice, started, stopped, failure, threadVars, granted, calls>>

BatchOver(r) ==
    /\ pc[r] = "collect"
    /\ th[r] = NoThreads
    /\ \/ /\ failure[r] = "none"
          /\ pc' = [pc EXCEPT ![r] = "loop"]
          /\ UNCHANGED want
       \/ /\ failure[r] # "none"
          /\ pc' = [pc EXCEPT ![r] = "finish"]
          /\ want' = [want EXCEPT ![r] = failure[r]]
    /\ UNCHANGED <<vars, lease, slice, started, stopped, failure, threadVars, granted, calls>>

\* The locals of the call go with it; the fence is kept for the supervisor.
Return(r, next) ==
    /\ pc' = [pc EXCEPT ![r] = next]
    /\ slice' = [slice EXCEPT ![r] = 0]
    /\ started' = [started EXCEPT ![r] = 0]
    /\ stopped' = [stopped EXCEPT ![r] = FALSE]
    /\ failure' = [failure EXCEPT ![r] = "none"]
    /\ want' = [want EXCEPT ![r] = "failed"]
    /\ lease' = [lease EXCEPT ![r] = IF next = "dead" THEN lease[r] ELSE 0]

FinishRun(r) ==
    /\ pc[r] = "finish"
    /\ Finish(lease[r], want[r])
    /\ Return(r, "idle")
    /\ UNCHANGED <<threadVars, granted, calls>>

\* finish() raised: the run returns or raises without touching the journal.
FinishRefused(r) ==
    /\ pc[r] = "finish"
    /\ ~MayFinish(lease[r], want[r])
    /\ Return(r, IF Fence(lease[r]) THEN "dead" ELSE "idle")
    /\ UNCHANGED <<vars, threadVars, granted, calls>>

-----------------------------------------------------------------------------
(* The pool thread perform(stage).                                         *)

ThreadStep(r, s, from, to) ==
    /\ Alive(r)
    /\ th[r][s] = from
    /\ SetThread(r, s, to)
    /\ UNCHANGED <<mainVars, granted>>

ClaimStage(r, s) ==
    /\ ThreadStep(r, s, "queued", "claimed")
    /\ granted
    /\ Claim(lease[r], s)
    /\ UNCHANGED <<res, calls>>

SkipStage(r, s) ==
    /\ ThreadStep(r, s, "queued", "done")
    /\ granted
    /\ Skip(lease[r], s)
    /\ SetResult(r, s, "skipped")
    /\ UNCHANGED calls

\* The check before the claim raises, or the claim itself is refused.
ClaimRefused(r, s) ==
    /\ ThreadStep(r, s, "queued", "done")
    /\ \/ Check(r) # "ok" /\ SetResult(r, s, Check(r))
       \/ /\ ~(granted /\ MayClaim(lease[r], s))
          /\ SetResult(r, s, "failed")
    /\ UNCHANGED <<vars, calls>>

\* control.check() just before the worker is called.
ClearToCall(r, s) ==
    /\ ThreadStep(r, s, "claimed", "cleared")
    /\ Check(r) = "ok"
    /\ UNCHANGED <<vars, res, calls>>

CallWorker(r, s) ==
    /\ ThreadStep(r, s, "cleared", "calling")
    /\ calls' = [calls EXCEPT ![s] = calls[s] + 1]
    /\ UNCHANGED <<vars, res>>

\* persist(fragment): the streamed public answer of the final stage.
PersistDelta(r, s, n) ==
    /\ ThreadStep(r, s, "calling", "calling")
    /\ granted
    /\ AppendPublicDelta(lease[r], s, n)
    /\ UNCHANGED <<res, calls>>

WorkerAnswers(r, s) ==
    /\ ThreadStep(r, s, "calling", "answered")
    /\ UNCHANGED <<vars, res, calls>>

\* The worker gives up: its own error, its deadline or cooperative cancellation.
WorkerRaises(r, s) ==
    /\ ThreadStep(r, s, "calling", "raised")
    /\ \E o \in {"failed", "expired", "cancelled"} : SetResult(r, s, o)
    /\ UNCHANGED <<vars, calls>>

CompleteStage(r, s, tools, d) ==
    /\ ThreadStep(r, s, "answered", "done")
    /\ Complete(lease[r], s, tools, d)
    /\ SetResult(r, s, CompletedAs(tools))
    /\ UNCHANGED calls

\* A check around the worker raises (its stage deadline may pass at any
\* moment of the monotonic clock), or the completion is refused.
AttemptRaises(r, s) ==
    /\ \E from \in {"claimed", "answered"} : ThreadStep(r, s, from, "raised")
    /\ \/ Check(r) # "ok" /\ SetResult(r, s, Check(r))
       \/ Check(r) = "ok" /\ SetResult(r, s, "expired")
       \/ /\ th[r][s] = "answered"
          /\ ~(OwnsAttempt(lease[r], s) /\ Readable)
          /\ SetResult(r, s, "failed")
    /\ UNCHANGED <<vars, calls>>

\* Fault: an error of the worker leaves the attempt as it is.
RecordFailureDropped(r, s) ==
    /\ ThreadStep(r, s, "raised", "done")
    /\ UNCHANGED <<vars, res, calls>>

\* except BaseException: the attempt is failed unless the fence is gone.
RecordFailure(r, s) ==
    /\ ThreadStep(r, s, "raised", "done")
    /\ \/ FailStage(lease[r], s)
       \/ ~OwnsAttempt(lease[r], s) /\ UNCHANGED vars
    /\ UNCHANGED <<res, calls>>

-----------------------------------------------------------------------------
(* The rest of the world.                                                  *)

Crash(r) ==
    /\ Alive(r)
    /\ Return(r, "dead")
    /\ th' = [th EXCEPT ![r] = NoThreads]
    /\ res' = [res EXCEPT ![r] = NoThreads]
    /\ UNCHANGED <<vars, granted, calls>>

Supervise(r) ==
    /\ pc[r] = "dead" \/ lease[r] \in FalseStop
    /\ RecoverAbandoned(lease[r])
    /\ UNCHANGED runVars

ChangeGrant == granted' = ~granted /\ UNCHANGED <<vars, mainVars, threadVars, calls>>

Outside ==
    /\ Create \/ RequestCancel \/ DeleteJob \/ Tick
    /\ UNCHANGED runVars

Main(r) ==
    \/ CheckFails(r) \/ PlanDone(r) \/ Pause(r) \/ Submit(r)
    \/ Poll(r) \/ BatchOver(r) \/ FinishRun(r) \/ FinishRefused(r)
    \/ \E s \in Stage : Collect(r, s)

Thread(r, s) ==
    \/ ClaimStage(r, s) \/ SkipStage(r, s) \/ ClaimRefused(r, s)
    \/ ClearToCall(r, s) \/ CallWorker(r, s)
    \/ \E n \in FragmentSize : PersistDelta(r, s, n)
    \/ WorkerAnswers(r, s) \/ WorkerRaises(r, s)
    \/ \E tools \in BOOLEAN, d \in Verdicts : CompleteStage(r, s, tools, d)
    \/ AttemptRaises(r, s) \/ RecordFailure(r, s)

RunNext ==
    \/ \E r \in Runs :
          \/ \E k \in Slices : Start(r, k)
          \/ StartExpired(r)
          \/ Main(r)
          \/ \E s \in Stage : Thread(r, s)
          \/ Crash(r)
          \/ Supervise(r)
    \/ ChangeGrant
    \/ Outside

RunSpec == RunInit /\ [][RunNext]_allVars

-----------------------------------------------------------------------------
(* Properties.                                                             *)

\* However runs crash, are recovered, resumed or wrongly declared dead, the
\* model is called at most once for a stage, and a stage is completed only
\* by a call that was made.
CalledOnce ==
    \A s \in Stage :
        /\ calls[s] <= 1
        /\ st[s] \in {"completed", "waiting_tools"} => calls[s] = 1

\* A run that still owns the job and its journal rows agree: a thread holds an
\* attempt exactly for the stages the journal shows running, so nothing is in
\* flight that no thread will settle.
AttemptsAreHeld ==
    \A r \in Runs : Alive(r) /\ Fence(lease[r]) =>
        \A s \in Stage : st[s] = "running" <=> th[r][s] \in Holding

\* When the main thread reaches finish() and no supervisor fenced it off, the
\* journal accepts the outcome it reports: a live run never strands its job.
FinishAccepted ==
    \A r \in Runs : pc[r] = "finish" /\ Fence(lease[r]) => MayFinish(lease[r], want[r])

-----------------------------------------------------------------------------
(* Fairness: a run that is not crashed takes its next step (the worker     *)
(* honours its deadline and cancellation, so it returns or raises), and    *)
(* the supervisor recovers a crashed run.  Users, grants, crashes and the  *)
(* clock owe nothing.                                                      *)

RunStep(r) == Alive(r) /\ (Main(r) \/ \E s \in Stage : Thread(r, s))

FairSpec ==
    /\ RunSpec
    /\ \A r \in Runs : WF_allVars(RunStep(r))
    /\ \A r \in Runs : WF_allVars(pc[r] = "dead" /\ Supervise(r))

\* Ownership is always given back: by finish() or by recovery.
OwnershipEnds == runner # 0 ~> runner = 0

\* private_store.py: "Expiration must not strand runner ownership or admit late
\* success."  An owner of an expired record is eventually released.
ExpirationDoesNotStrand == runner # 0 /\ ~Readable ~> runner = 0

\* A cancellation the user was told is accepted closes the job.
CancelCloses == cancel ~> jstate \in Terminal \union {"absent"}
=============================================================================
