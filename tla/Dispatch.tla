------------------------------ MODULE Dispatch ------------------------------
(***************************************************************************)
(* The durable queue of admitted jobs and the workers that run them:       *)
(* PostgresSupervisor of execution/postgres_supervisor.py over             *)
(* AccountAdmission.                                                       *)
(*                                                                         *)
(* A worker claims a row (claim_one), runs one bounded slice of the job    *)
(* through LocalRunner under its own runner fence (dispatch), and          *)
(* acknowledges.  Each of these is a separate transaction, so a worker may *)
(* die, lose its authority, or have its grant revoked between any two; a   *)
(* supervisor that has proof the worker stopped recovers the row.          *)
(*                                                                         *)
(* The acknowledgement of a commit may be lost (postgres_store.py): the     *)
(* transaction took effect and its caller gets an error.  heard is FALSE   *)
(* for such a transaction; a worker that did not hear raises and keeps the *)
(* locals it had.                                                          *)
(*                                                                         *)
(* A claim token is a fresh uuid issued with a fresh generation, so the    *)
(* generation stands for it; 0 is NULL.  Rows are claimed in order of      *)
(* enqueue time, which is left open: any order of the pending rows.        *)
(***************************************************************************)
EXTENDS AccountAdmission

CONSTANTS
    Worker,             \* worker instances; a dead instance never returns
    NoWorker,           \* the NULL worker_instance
    FalseStop,          \* TRUE: the stop observation may be wrong
    LostReplies,        \* TRUE: the acknowledgement of a commit may be lost
    Revocable,          \* the workers whose own authority may be withdrawn
    MaxGeneration       \* bound: no row is claimed beyond this generation

ASSUME DispatchAssumption ==
    /\ NoWorker \notin Worker /\ Job # {}
    /\ {FalseStop, LostReplies} \subseteq BOOLEAN /\ Revocable \subseteq Worker
    /\ MaxGeneration \in Nat /\ MaxGeneration <= MaxEpoch

VARIABLES
    row,        \* row[j]: state of the model_dispatch row, "none" without one
    generation, \* row generation
    token,      \* claim_token
    instance,   \* worker_instance
    bound,      \* runner_token and runner_epoch
    wpc,        \* worker: idle, claimed, entered, running, ack, raised, dead
    wjob,       \* the job of its current claim
    wgen,       \* the generation of its current claim
    wrun,       \* the runner fence begin() gave it
    trusted,    \* trusted[w]: worker_authorized answers True
    granted     \* grant_for_owner answers an authorized grant

rowVars == <<row, generation, token, instance, bound>>
workerVars == <<wpc, wjob, wgen, wrun>>
trustVars == <<trusted, granted>>
dispatchVars == <<admissionVars, rowVars, workerVars, trustVars>>

RowStates == {"none", "pending", "claimed", "held", "finished", "interrupted"}
WorkerStates == {"idle", "claimed", "entered", "running", "ack", "raised", "dead"}

DispatchTypeOK ==
    /\ AdmissionTypeOK
    /\ row \in [Job -> RowStates]
    /\ generation \in [Job -> Nat]
    /\ token \in [Job -> Nat]
    /\ instance \in [Job -> Worker \union {NoWorker}]
    /\ bound \in [Job -> Nat]
    /\ wpc \in [Worker -> WorkerStates]
    /\ wjob \in [Worker -> Job]
    /\ wgen \in [Worker -> Nat]
    /\ wrun \in [Worker -> Nat]
    /\ trusted \in [Worker -> BOOLEAN]
    /\ granted \in BOOLEAN

DispatchInit ==
    /\ AdmissionInit
    /\ row = [j \in Job |-> "none"]
    /\ generation = [j \in Job |-> 0]
    /\ token = [j \in Job |-> 0]
    /\ instance = [j \in Job |-> NoWorker]
    /\ bound = [j \in Job |-> 0]
    /\ wpc = [w \in Worker |-> "idle"]
    /\ wjob = [w \in Worker |-> CHOOSE j \in Job : TRUE]
    /\ wgen = [w \in Worker |-> 0]
    /\ wrun = [w \in Worker |-> 0]
    /\ trusted = [w \in Worker |-> TRUE]
    /\ granted = TRUE

-----------------------------------------------------------------------------
(* Putting admitted jobs into the queue.                                   *)

\* Fault: any row can be put back, whatever became of its last claim.
EnqueueAnyRow(j) ==
    /\ granted
    /\ jstate[j] # "absent"
    /\ row[j] \in {"none", "pending", "held", "interrupted"}
    /\ row' = [row EXCEPT ![j] = "pending"]
    /\ UNCHANGED <<admissionVars, generation, token, instance, bound, workerVars, trustVars>>

Enqueue(j) ==
    /\ granted
    /\ Resumable(j)
    /\ CheckJobAdmission(j)
    /\ row[j] \in {"none", "pending", "held"}
    /\ row' = [row EXCEPT ![j] = "pending"]
    /\ UNCHANGED <<admissionVars, generation, token, instance, bound, workerVars, trustVars>>

AdmitAndEnqueue(j) ==
    /\ granted
    /\ CreateJob(j)
    /\ row' = [row EXCEPT ![j] = "pending"]
    /\ UNCHANGED <<generation, token, instance, bound, workerVars, trustVars>>

-----------------------------------------------------------------------------
(* claim_one: one transaction walks the pending rows.                      *)

Pending == {j \in Job : row[j] = "pending"}
Claimable == {j \in Pending : Resumable(j) /\ granted /\ CheckJobAdmission(j)}
Sifted(j) == IF jstate[j] \in Terminal THEN "finished" ELSE "held"
\* The worker gets an error: the claim it looks at is the one it had.
Lost(w) ==
    /\ wpc' = [wpc EXCEPT ![w] = "raised"]
    /\ UNCHANGED <<wjob, wgen, wrun>>

MayClaimRow(w) == wpc[w] \in {"idle", "raised"} /\ trusted[w]

\* passed: the rows walked over before a claimable one was found.
ClaimRow(w, j, passed, heard) ==
    /\ MayClaimRow(w)
    /\ j \in Claimable
    /\ generation[j] < MaxGeneration
    /\ row' = [k \in Job |-> IF k = j THEN "claimed"
                             ELSE IF k \in passed THEN Sifted(k) ELSE row[k]]
    /\ generation' = [generation EXCEPT ![j] = generation[j] + 1]
    /\ token' = [token EXCEPT ![j] = generation[j] + 1]
    /\ instance' = [instance EXCEPT ![j] = w]
    /\ bound' = [bound EXCEPT ![j] = 0]
    /\ IF heard
       THEN /\ wpc' = [wpc EXCEPT ![w] = "claimed"]
            /\ wjob' = [wjob EXCEPT ![w] = j]
            /\ wgen' = [wgen EXCEPT ![w] = generation[j] + 1]
            /\ wrun' = [wrun EXCEPT ![w] = 0]
       ELSE Lost(w)
    /\ UNCHANGED <<admissionVars, trustVars>>

SiftAll(w) ==
    /\ MayClaimRow(w)
    /\ Claimable = {}
    /\ Pending # {}
    /\ row' = [k \in Job |-> IF k \in Pending THEN Sifted(k) ELSE row[k]]
    /\ UNCHANGED <<admissionVars, generation, token, instance, bound, workerVars, trustVars>>

-----------------------------------------------------------------------------
(* dispatch(claim): the worker's slice of the job.                         *)

HoldsRow(w) ==
    LET j == wjob[w] IN
    /\ row[j] = "claimed"
    /\ token[j] = wgen[w]
    /\ instance[j] = w
    /\ generation[j] = wgen[w]
CheckClaim(w) == trusted[w] /\ HoldsRow(w)
Move(w, from, to) == wpc[w] = from /\ wpc' = [wpc EXCEPT ![w] = to]
Reply(w, from, to, heard) == Move(w, from, IF heard THEN to ELSE "raised")

\* dispatch() looks at its claim in a transaction of its own, then the runner
\* looks at the job, then begin() looks at the claim again.
EnterDispatch(w) ==
    /\ CheckClaim(w)
    /\ Move(w, "claimed", "entered")
    /\ UNCHANGED <<admissionVars, rowVars, wjob, wgen, wrun, trustVars>>

\* Fault: the runner fence is not recorded in the queue row.
StartSliceUnbound(w, heard) ==
    /\ granted /\ CheckClaim(w)
    /\ Reply(w, "entered", "running", heard)
    /\ BeginJob(wjob[w])
    /\ wrun' = [wrun EXCEPT ![w] = IF heard THEN epoch[wjob[w]] + 1 ELSE 0]
    /\ UNCHANGED <<rowVars, wjob, wgen, trustVars>>

StartSlice(w, heard) ==
    /\ granted
    /\ CheckClaim(w)
    /\ Reply(w, "entered", "running", heard)
    /\ BeginJob(wjob[w])
    /\ bound' = [bound EXCEPT ![wjob[w]] = epoch[wjob[w]] + 1]
    /\ wrun' = [wrun EXCEPT ![w] = IF heard THEN epoch[wjob[w]] + 1 ELSE 0]
    /\ UNCHANGED <<row, generation, token, instance, wjob, wgen, trustVars>>

ExpireSlice(w, heard) ==
    /\ granted
    /\ CheckClaim(w)
    /\ Reply(w, "entered", "ack", heard)
    /\ BeginExpiredJob(wjob[w])
    /\ UNCHANGED <<rowVars, wjob, wgen, wrun, trustVars>>

\* The runner finds the job already closed and returns its status.
SliceOver(w) ==
    /\ granted
    /\ jstate[wjob[w]] \in Terminal
    /\ Move(w, "entered", "ack")
    /\ UNCHANGED <<admissionVars, rowVars, wjob, wgen, wrun, trustVars>>

MayBegin(w) == granted /\ CheckClaim(w) /\ CheckJobAdmission(wjob[w]) /\ Resumable(wjob[w])

\* dispatch() raises before a runner owns the job: nothing tells the queue.
SliceRefused(w) ==
    /\ \/ ~CheckClaim(w) /\ Move(w, "claimed", "raised")
       \/ /\ ~MayBegin(w)
          /\ ~(granted /\ jstate[wjob[w]] \in Terminal)
          /\ Move(w, "entered", "raised")
    /\ UNCHANGED <<admissionVars, rowVars, wjob, wgen, wrun, trustVars>>

WorkOnSlice(w) ==
    /\ wpc[w] = "running"
    /\ \/ ClaimStage(wjob[w], wrun[w])
       \/ CompleteStage(wjob[w], wrun[w])
       \/ BreakStage(wjob[w], wrun[w])
    /\ UNCHANGED <<rowVars, workerVars, trustVars>>

\* Without an answer to finish() the runner finds its fence gone: FinishFenced.
FinishSlice(w, heard) ==
    /\ Move(w, "running", IF heard THEN "ack" ELSE "running")
    /\ \E want \in Terminal \union {"paused"} : FinishJob(wjob[w], wrun[w], want)
    /\ UNCHANGED <<rowVars, wjob, wgen, wrun, trustVars>>

\* finish() meets a newer fence: a status the runner knows, or an error.
FinishFenced(w) ==
    /\ ~Fence(wjob[w], wrun[w])
    /\ \/ jstate[wjob[w]] \in {"interrupted", "paused", "cancelled"} /\ Move(w, "running", "ack")
       \/ jstate[wjob[w]] \notin {"interrupted", "paused", "cancelled"} /\ Move(w, "running", "raised")
    /\ UNCHANGED <<admissionVars, rowVars, wjob, wgen, wrun, trustVars>>

\* The answer to the claim of a stage was lost: no thread knows the attempt, and
\* finish() is refused while it is running.
FinishRefused(w) ==
    /\ LostReplies
    /\ Fence(wjob[w], wrun[w]) /\ work[wjob[w]] = "busy"
    /\ Move(w, "running", "raised")
    /\ UNCHANGED <<admissionVars, rowVars, wjob, wgen, wrun, trustVars>>

RowAfter(state) ==
    IF state = "paused" THEN "pending"
    ELSE IF state = "waiting_tools" THEN "held" ELSE "finished"

Acknowledge(w, heard) ==
    LET j == wjob[w] IN
    /\ Reply(w, "ack", "idle", heard)
    /\ CheckClaim(w)
    /\ runner[j] = 0
    /\ jstate[j] \in Terminal \union {"paused"}
    /\ row' = [row EXCEPT ![j] = RowAfter(jstate[j])]
    /\ token' = [token EXCEPT ![j] = 0]
    /\ instance' = [instance EXCEPT ![j] = NoWorker]
    /\ bound' = [bound EXCEPT ![j] = 0]
    /\ UNCHANGED <<admissionVars, generation, wjob, wgen, wrun, trustVars>>

AckRefused(w) ==
    /\ Move(w, "ack", "raised")
    /\ ~(CheckClaim(w) /\ runner[wjob[w]] = 0 /\ jstate[wjob[w]] \in Terminal \union {"paused"})
    /\ UNCHANGED <<admissionVars, rowVars, wjob, wgen, wrun, trustVars>>

-----------------------------------------------------------------------------
(* Crash, confirmed recovery and everything around the workers.            *)

Die(w) ==
    /\ wpc[w] # "dead"
    /\ wpc' = [wpc EXCEPT ![w] = "dead"]
    /\ UNCHANGED <<admissionVars, rowVars, wjob, wgen, wrun, trustVars>>

RowRecovered(state) ==
    IF state \in {"queued", "paused"} THEN "pending"
    ELSE IF state = "interrupted" THEN "interrupted"
    ELSE IF state = "waiting_tools" THEN "held" ELSE "finished"

\* Fault: only a job that still has a runner is looked for.
RecoverRunning(j) ==
    /\ row[j] = "claimed"
    /\ wpc[instance[j]] = "dead" \/ FalseStop
    /\ runner[j] # 0 /\ bound[j] = runner[j] /\ RecoverJob(j, runner[j])
    /\ row' = [row EXCEPT ![j] = RowRecovered(jstate'[j])]
    /\ generation' = [generation EXCEPT ![j] = generation[j] + 1]
    /\ token' = [token EXCEPT ![j] = 0]
    /\ instance' = [instance EXCEPT ![j] = NoWorker]
    /\ bound' = [bound EXCEPT ![j] = 0]
    /\ UNCHANGED <<workerVars, trustVars>>

RecoverStoppedWorker(j) ==
    /\ row[j] = "claimed"
    /\ wpc[instance[j]] = "dead" \/ FalseStop
    /\ \/ runner[j] = 0 /\ UNCHANGED admissionVars
       \/ runner[j] # 0 /\ bound[j] = runner[j] /\ RecoverJob(j, runner[j])
    /\ row' = [row EXCEPT ![j] = RowRecovered(jstate'[j])]
    /\ generation' = [generation EXCEPT ![j] = generation[j] + 1]
    /\ token' = [token EXCEPT ![j] = 0]
    /\ instance' = [instance EXCEPT ![j] = NoWorker]
    /\ bound' = [bound EXCEPT ![j] = 0]
    /\ UNCHANGED <<workerVars, trustVars>>

UserCancels(j) == CancelJob(j) /\ UNCHANGED <<rowVars, workerVars, trustVars>>

\* The queue row is deleted with the job (ON DELETE CASCADE).
UserDeletes(j) ==
    /\ DeleteJob(j)
    /\ row' = [row EXCEPT ![j] = "none"]
    /\ token' = [token EXCEPT ![j] = 0]
    /\ instance' = [instance EXCEPT ![j] = NoWorker]
    /\ bound' = [bound EXCEPT ![j] = 0]
    /\ UNCHANGED <<generation, workerVars, trustVars>>

ChangeTrust ==
    /\ \/ granted' = ~granted /\ UNCHANGED trusted
       \/ /\ \E w \in Revocable : trusted' = [trusted EXCEPT ![w] = ~trusted[w]]
          /\ UNCHANGED granted
    /\ UNCHANGED <<admissionVars, rowVars, workerVars>>

Administer == Administration /\ UNCHANGED <<rowVars, workerVars, trustVars>>

Heard == IF LostReplies THEN BOOLEAN ELSE {TRUE}

WorkerStep(w) ==
    \/ EnterDispatch(w) \/ SliceOver(w) \/ SliceRefused(w)
    \/ WorkOnSlice(w) \/ FinishFenced(w) \/ FinishRefused(w) \/ AckRefused(w)
    \/ \E heard \in Heard :
          StartSlice(w, heard) \/ ExpireSlice(w, heard) \/ FinishSlice(w, heard) \/ Acknowledge(w, heard)

DispatchNext ==
    \/ \E j \in Job :
          \/ Enqueue(j) \/ AdmitAndEnqueue(j)
          \/ RecoverStoppedWorker(j)
          \/ UserCancels(j) \/ UserDeletes(j)
    \/ \E w \in Worker :
          \/ \E j \in Claimable, passed \in SUBSET (Pending \ Claimable), heard \in Heard :
                ClaimRow(w, j, passed, heard)
          \/ SiftAll(w)
          \/ WorkerStep(w)
          \/ Die(w)
    \/ ChangeTrust
    \/ Administer

DispatchSpec == DispatchInit /\ [][DispatchNext]_dispatchVars

\* The supervisor acts on a death; workers, users, administrators and the
\* clock owe nothing.
FairRecovery ==
    /\ DispatchSpec
    /\ \A j \in Job : WF_dispatchVars(RecoverStoppedWorker(j))

\* Moreover a live worker carries its slice on, and a slice is bounded and so
\* reaches its finish().
FairDispatch ==
    /\ FairRecovery
    /\ \A w \in Worker : /\ WF_dispatchVars(WorkerStep(w))
                         /\ SF_dispatchVars(FinishSlice(w, TRUE))
-----------------------------------------------------------------------------
(* Properties.                                                             *)

\* Queue and journal agree, so a confirmed recovery never meets a fence it
\* cannot name: an owned job has a claimed row bound to that very runner, and
\* a row that says the job ended is right.
QueueAgrees ==
    \A j \in Job :
        /\ runner[j] # 0 => row[j] = "claimed" /\ bound[j] = runner[j]
        /\ row[j] = "finished" => jstate[j] \in Terminal
        /\ row[j] = "interrupted" => jstate[j] = "interrupted"

\* At most one worker can act on a job: holding its row, or running it under
\* a fence the journal still accepts.
OneWorkerPerJob ==
    \A v, w \in Worker :
        v # w /\ wjob[v] = wjob[w] =>
            /\ ~(HoldsRow(v) /\ HoldsRow(w))
            /\ ~(/\ wpc[v] = "running" /\ Fence(wjob[v], wrun[v])
                 /\ wpc[w] = "running" /\ Fence(wjob[w], wrun[w]))

\* A slice whose outcome is unknown is never queued again.
InterruptedIsNotReplayed ==
    [][\A j \in Job : row[j] = "interrupted" =>
          /\ row'[j] \in {"interrupted", "none"}
          /\ work'[j] = work[j]]_dispatchVars

\* A row claimed by a worker that died does not stay claimed.
CrashedClaimsEnd ==
    \A j \in Job, w \in Worker :
        row[j] = "claimed" /\ instance[j] = w /\ wpc[w] = "dead"
            ~> row[j] # "claimed" \/ instance[j] # w

\* docs/postgres-worker-supervision.md: revoked user permissions hold dispatch.
RevokedDispatchIsHeld ==
    \A j \in Job : row[j] = "claimed" /\ ~granted ~> row[j] # "claimed"
=============================================================================
