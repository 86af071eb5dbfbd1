# Verification of the KovaGPT model runtime

TLA+ models of the parts of this repository that keep state, share it between
actors or must survive failures, the TLC configurations that check them on
small instances, and theorems about them that TLAPS checks for every value of
their constants. The reference is the Python under `src/`; each definition is
tied to its lines by the `map` of `PROJECT.json`.

## 1. Inventory of the system

The repository is a library of cooperating Python modules around a PostgreSQL
(or SQLite) database, model endpoints, a GPU host and a storage account.

| Component | State | Operations | Who calls it |
|---|---|---|---|
| Execution journal `execution/store.py`, `private_store.py` | rows `jobs`, `stages`, `events`, `public_answer_fragments` | create, begin, claim, skip, complete, fail_stage, append_public_delta, finish, request_cancel, recover_abandoned, delete | runner, admission, supervisor, HTTP callers |
| Local runner `execution/runner.py` | locals of `run`, a shared stop event, one pool thread per stage in flight | run (loop, collect, finish), stage thread, global check | dispatch, tests |
| Account admission `execution/postgres_admission.py` | `account`, `reservations` | configure, create, begin, confirm quiescence, and the journal's methods it overrides | dispatch, callers |
| Dispatch and supervisor `execution/postgres_supervisor.py`, `postgres_store.py` | `dispatch` rows | enqueue, admit_and_enqueue, claim_one, dispatch, acknowledge, recover_stopped_worker | workers, operators |
| Work-week ledger `usage/work_week.py` | week windows, `work_usage` rows | configure_week, reserve_for_job, settle, snapshot | request admission |
| Router and grant `router/`, `execution/contracts.py` | none | select a route, classify for Auto, authorize, admit a plan | application, runner |
| Core and Ultra plans `core/adapter.py`, `ultra/orchestrator.py`, `ultra/binding.py` | none | plan stages and token budget, bind outputs, check structured answers | stage worker |
| Stage worker and transport `execution/workers.py`, `worker/` | one attempt: connection, token, parser, text, telemetry | probe, fetch a token, exchange, stream, record | the runner's threads |
| Receiver `worker/receiver_auth.py` | pinned policy and keys | accept or refuse a bearer token | the model API |
| Serving runtime `worker/serving_runtime.py` | state, instance, engine, readiness | start, identity, engine_for_server, stop | tasks of an event loop |
| Artifact startup `worker/model_startup.py`, `model_artifact.py` | one scan of a directory | verify, report, load | `start()`, the offline gate |
| Release rehearsal journal `release/rollout.py` | step, pending intent, history, rollback flag | create, promote, rollback, confirm | operators, from observations |
| Controller ledger `training/cosmo_controller_ledger.py`, `cosmo_controller_grants.py` | an append blob and its lease | initialize, append, current_state, issue | controller, guests |
| Training run `training/cosmo_qlora_training.py`, `cosmo_adapter_preservation.py` | the guest's progress, a protected blob | apply, train, hand over; submit | the training host, the controller |

Not modelled: the record cipher and source contexts, personalization, the
other training candidates, evaluation, policy validators and infrastructure
descriptions (section 8). `PROJECT.json` lists every component with its status
and reason.

How they interact. A caller's selection becomes a route, and the route a plan
whose token budget the grant admits. Account admission reserves the whole plan
and creates the journal row in one transaction; dispatch queues the job, a
worker claims the row, `begin()` hands it a fence (token and epoch), and the
runner starts one thread per ready stage. Every thread talks to the journal in
transactions of its own and calls the stage worker, which exchanges with a
model endpoint over HTTP. `finish()` gives the job back. If the process dies,
a supervisor that believes it stopped calls `recover_abandoned()` with the
last fence. The work-week ledger stands beside admission. Behind the endpoint
a serving runtime verifies a directory and loads an engine from it. The
rehearsal journal moves traffic between engines. A training run gets its only
grant from the controller and leaves an adapter in a protected blob. These
last three share no state with the first part.

What makes them hard: threads of one run that race its own main loop; several
runs of one job, one of them wrongly believed dead; cancellation, expiry,
revocation, retention and deletion arriving between any two transactions;
transactions that are separate where the operation is one (claim, fence,
acknowledgement); commits whose acknowledgement is lost; observations that are
old when they are used; an `await` between a check and its use; files replaced
while others are read; a stream cut anywhere; a server that stays silent; an
external write that lands late, half, or never; an append whose answer is lost.

What must hold, component by component:

* journal: a stage runs at most once in the life of a job, success means a
  whole plan, an accepted cancellation is never overtaken, an attempt in
  flight always has an owner, text is public only once the plan is decided, a
  closed job stays closed;
* runner: no model call is made twice, attempts and threads agree, every path
  gives the job back, a cancellation closes the job;
* admission: caps hold at every moment, a slot is freed only for settled
  work, nothing reserved is silently moved or refunded;
* dispatch: row and journal agree, one worker at a time, nothing whose outcome
  is unknown is queued again, a dead worker's row is released;
* work week: the outstanding work of one week counts in the next, a debit
  happens once, a reservation is decided on a grant and a week that held while it
  ran;
* routes and plans: Auto never leaves the tier, a plan that is built is
  admitted and rebuilt the same, a stage is refused for the texts of earlier ones
  but never for want of room, a debate has a ground;
* attempt: the user sees the answer and no hidden reasoning, each attempt is
  recorded once and ends, a token outlives its connection, a record that is not
  quarantined is one runtime's;
* serving: one engine, owned by the runtime, handed out only while it is the
  current one, and loaded only from approved bytes that can no longer change;
* rehearsal: what is confirmed is what both engines serve, and nothing that
  was under way raises exposure after a rollback;
* training: at most one grant, only to the request it was signed for; one
  execution trains; what is reported is what the blob and the ledger hold.

The hazards behind these are in `PROJECT.json` (`hazards`), each at its line,
with the properties that would catch it or the reason none does.

## 2. Plan

Done, in this order: `OnceDag`, `JobJournal` and its proofs; `LocalRunner`
over it; `AccountAdmission`; `Dispatch` over that; `WorkUsage`; `Rollout`,
`ServingRuntime`, `ControllerLedger` and the proofs of these three; then
`CoreRoute`, `RouteSelection`, `UltraPlan`, `ReceiverAuth` and `WorkerAttempt`
over them; `ArtifactStartup` over `ServingRuntime`; `CosmoTraining` over
`ControllerLedger`; lost acknowledgements in `Dispatch`; the proofs of
`WorkUsage`, of the budget of `UltraPlan`, of `AccountAdmission`, of `Dispatch`,
of `CosmoTraining` and of `LocalRunner`, of `ArtifactStartup`, and of what
`WorkerAttempt` records, of its tokens and its runtimes; then sums over finite
sets and with them the caps, the allowance and the budget; what a user is shown,
the room of every stage and the ground of a debate; that planning, admission and
verification of a plan agree; and what Auto picks. Every safety property that
a run checks and the code keeps is now a theorem as well.

Next, in this order:

1. specialists that run at the same time in `WorkerAttempt`;
2. the source context of a prompt, which asks for access again around each use
   of a source (section 8).

## 3. Modules

| Module | Models | Builds on |
|---|---|---|
| `OnceDag` | the promise of the journal: an acyclic plan whose stages start once, and an outcome | |
| `JobJournal` | one job of the journal, any caller with any fence ever issued | implements `OnceDag` |
| `LocalRunner` | several runs of one job with their threads, crash, supervisor, revocation | extends `JobJournal` |
| `AccountAdmission` | one account, several jobs, periods and policies | abstracts the journal of each job to what the account sees |
| `Dispatch` | the queue, workers, the supervisor, lost acknowledgements | extends `AccountAdmission` |
| `WorkUsage` | the work-week ledger of one owner | |
| `CoreRoute` | routes, their engines and bounds, the Core plan, its budget and binding | |
| `RouteSelection` | plan limits, grant, Auto, the application's selection | extends `CoreRoute` |
| `UltraPlan` | domains, specialists, budget, admission, snapshot, binding, the debate gate | extends `RouteSelection` |
| `ReceiverAuth` | which bearer tokens the receiving API accepts | |
| `WorkerAttempt` | one worker answering one request, stage after stage | extends `UltraPlan`, `ReceiverAuth` |
| `ServingRuntime` | the runtime and the tasks of its event loop | |
| `ArtifactStartup` | how `start()` and the gate get from files to an engine | extends `ServingRuntime` |
| `Rollout` | the rehearsal journal, operators, traffic writes | |
| `ControllerLedger` | the leased blob, the controller's calls, the grant issuer | |
| `CosmoTraining` | guests that ask, train and hand over; the preserver | extends `ControllerLedger` |
| `JobJournalProofs` | theorems about the journal and its scheduler | `LocalRunner`, `SumTheorems` |
| `DispatchProofs` | theorems about the account and its queue | `Dispatch`, `SumTheorems` |
| `WorkUsageProofs` | theorems about the work-week ledger | `WorkUsage`, `SumTheorems` |
| `UltraProofs` | theorems about routes, plans, teams and attempts | `WorkerAttempt`, `SumTheorems` |
| `RolloutProofs`, `ServingProofs`, `LedgerProofs` | theorems about the rehearsal, serving and training | `Rollout`, `ArtifactStartup`, `CosmoTraining` |
| `SumTheorems` | lemmas about sums of naturals over finite sets | |
| `MC*` | instances for TLC | |

A definition named in a comment as `Fault:` is a broken variant of the
definition that follows it. No specification uses them: they show which
mistake in the code each property would catch, by putting the variant in the
place of the definition.

### JobJournal

Each public method is one `BEGIN IMMEDIATE .. COMMIT` transaction and hence one
action; a method that raises rolls back and is no step. `jstate`, `runner`,
`epoch`, `cancel` and `reserved` are the columns of `jobs`; `st`, `claimedBy`
the rows of `stages`; `frags`/`chars` the public answer. A runner token is a
fresh uuid issued with a fresh epoch, and an attempt is claimed at most once
per epoch, so epochs stand for both. `now` advances by itself; `Deadline` and
`Retain` are the job's two limits. Ciphertext, checksums and key rotation
(which rewrites ciphertext only) are left out, as are event rows beyond their
number: each method writes its events in its own transaction.

### LocalRunner

`pc` is the main thread (loop, collect, finish), `th` the pool threads: a
thread checks, claims, checks again, calls the model, and completes or fails in
separate transactions. `stopped` is the `Event` shared by a batch. A crash
kills main thread and pool together. Runs of a job are alike, so the next one
to start is a fixed idle one (`NextRun`). `FalseStop` names the epochs whose
runner the supervisor may recover although it is alive. What a model call does
inside is `WorkerAttempt`; here it answers or raises. `calls` is a history
variable.

### AccountAdmission and Dispatch

`AccountAdmission` keeps, per job, the journal columns admission reads or
writes; store methods are transactions as above. `Dispatch` adds the queue row
(status, worker, claim generation), which is why a claim, the runner fence and
the acknowledgement are three actions. A claim token is a fresh uuid per
claim: the generation stands for it. `claim_one` takes the oldest row; the
order of rows is left open, as is the limit of a scan, so the model admits
every order. `heard` is false for a transaction that took effect although its
caller got an error (`postgres_store.py` raises for both): a claim, a
`begin()`, a `finish()` or an acknowledgement the worker did not hear of leaves
it with the locals it had. `Revocable` are the workers whose own authority may
be withdrawn. Retention is not in these two modules.

### WorkUsage

Rows of one owner, two week windows that touch, `Units` as in the code (Fast
costs `ceil(3n/2)`). A reservation holds the write lock and looks at the world
five times, one step for each look: the grant it came with (`StartReserve`),
the week (`DateReserve`), the deadline and the room (`CountRoom`), the clock
again (`LookAgain`), the grant again (`ConfirmGrant`). Then it inserts and
commits (`InsertReservation`), without a further look. Grant and clock may move
between any two steps, so a reservation may well be committed after the week
ended, past its deadline or under a grant that is gone by then: the code cannot
exclude that, and `AdmittedAsCounted` does not say so. It says that each thing
was so at some moment after the look before it: within the week and before the
deadline since the room was counted, the tier held since the clock was last
read; and the room, which only the lock protects, is still there at the commit.
`counted` and `granted` are history variables for this. The other methods are
one step at their last look: what they write does not depend on grant or clock
after it. The Free tier and refusal messages are left out.

### CoreRoute, RouteSelection and UltraPlan

Operators, not machines: these modules have no variables. `CoreRoute` holds
the table of routes with their engine, effort, passes and bounds, the stages
and the reservation of a Core plan, its binding, and the checks `handler.py`
makes of a stage. `RouteSelection` is what a tier may use, the grant's check,
Auto's classification (which reads of a prompt its length and how many terms
of four vocabularies occur) and the application's selection. `UltraPlan` is
the order in which domains appoint specialists, the arithmetic of the budget
(every output is paid once, and again by each stage that reads it), the
admission, the snapshot's limits, the plan that a restarted job rebuilds, and
the checks of the structured answers of the disagreement check and the judge.
A text is its size in tokens and in characters and whether it contains
`{{server_stage_output:`, the prefix reserved for placeholders; a message has a
role besides and may be blank, an output may be skipped. The binding of a stage
(`Bound`, `UltraBound`) refuses an output that is empty, too long or carries the
prefix, and outputs that are too long together (`Small`, `Unmarked`), as well as
more tokens than were reserved. Token counts add up: the code re-counts the
bound messages, and the templates make the counts of their parts independent.
That one exception to exactness is why `UltraBound` and `Bound` compare sums.

### ReceiverAuth and WorkerAttempt

An attempt is: plan and input checks (`Refuse` if one fails) and the first
probe (`Begin`, or `Unprobed` if it raises or names another runtime);
the execution guard (`Call`); the request to the local identity endpoint and
its answer; the inference connection, the request, the response; the reply;
the second probe, which answers or raises, and the record (`Record`); and what
`ModelStageWorker` makes of it (`Accept`, or `Withdraw`, which turns a success it refuses into a
quarantine) before it sends the one record to the sink. Around every read the
code checks the deadline and the cancellation, so `InTime` guards each step
and `Expire` is the check that fails; between two checks the process may stall
(`MaxStall`). The last stage streams: `Hold` is the longest end of the text
that may turn out to begin a marker, the rest is shown. Private stages read
one JSON object. The server answers, stays silent, breaks off, or is replaced
(`Replace`). A second probe that raises quarantines the record, of a success and
of a call that had failed, without any replacement; the error of the call is the
one that is raised. So `SuccessIsOneRuntime` claims something only of records
that are not quarantined. The probe and the sink are callbacks of the
application without a deadline of their own: that they return or raise is
assumed (section 4, fairness). A Core stage goes through `handle_job`, an Ultra stage through
`_ultra`, which takes the same steps; they differ in what is asked (`Asked`)
and in the structured answers. Specialists run here one after the other: they
meet only in the outputs that later stages read, and their threads are
`LocalRunner`'s. An accepted stage writes all it may, since less would only
leave more room to the stages that read it. What the public text and the
objects are made of is a few symbols, of which `Marker` and `Prefix` pick those
that the code looks for. The
receiver is modelled as the API's acceptance test on the claims of a token;
decoding and signature arithmetic are left out.

### ServingRuntime and ArtifactStartup

Code between two `await`s is atomic. `own[t]` is the instance a task captured
before it awaited; `live` the engines that hold the GPU, including one whose
shutdown failed. `stop()` may come between any two steps. `ArtifactStartup`
takes `start()` apart before its first `await`: reading the policy, looking at
the mount, reading the policy again in `run_startup`, listing, opening and
reading each file piece by piece, the second listing, the second look at each
identity, and building the engine. No other task of the event loop runs
meanwhile, but other processes write (`Write`, `Protect`, `NewPolicy`), and
the offline gate runs the same scan without loading. Assumed, and not enforced
by the code: a policy file is only replaced by a newer version, a directory
that was mounted read-only stays so, and every write changes a file's identity
(the code compares inode, size and times). One verification runs at a time.
Not modelled: `generate()` and `abort()` on the engine that was handed out, and
a callback that calls `stop()` from inside `start()`.

### Rollout

The journal sees the platform only through observations. `Observe` takes one
of both engines, honest when taken and old when used. `Land` and `Lose` are the
platform: a traffic write takes effect on an engine later, on one before the
other, or never. Traffic is changed by the journal's writes only. The contents
of plan, identity and gate evidence are abstracted to whether they pass. A
rollback write that is lost on an engine leaves its intent pending for ever, as
the code does (only an observation at target confirms it).

### ControllerLedger and CosmoTraining

One blob, one lease. A call acquires, reads, appends on condition of lease
and offset, reads back, releases; the appended block is a message (`lease.wire`)
that lands while the lease lives, before or after its sender gave up. `Fail`
is every exception under the lease, with the release that its `finally` clause
attempts or, for a dead process, does not. `issue()` reads the clock first,
then the ledger; without a grant it verifies, signs under a second reading of
the clock and appends under a second lease. A body that was read is the length
of the prefix, because the container's locked policy lets nobody rewrite or
recreate the blob. The storage is external and modelled from the conditions the
code sends: a write needs an active lease with its id and the right offset.
All processes read one clock, so the chronology checks of `replay()` hold and
are left out; signatures, the hash chain, quotes and the money checks come
down to passing or failing.

`CosmoTraining` puts the guest and the preserver around it. A request is one
`execute()`: it asks with fresh evidence, accepts an envelope that answers its
own nonce, trains if the whole time fits before the watchdog, saves, and hands
its bundle over as often as it likes; the files may change under it. At this
commit `execute()` stops at its release switches before it asks for anything;
what is modelled is the path behind them. `submit()` runs in the same processes as `issue()`: it reads the
ledger under a lease and then the clock, uploads the bundle under
`If-None-Match`, reads it back, appends `family_preserved` and answers, or,
when the record is there, answers from it. Any call may fail on the way and a
raised call answers 403. Azure's own state comes in as the moment from which
each control differs from what was approved (`DriftsFrom`). The ledger starts
with genesis and the first two admissions, which precede serving by
`build_application` (`cosmo_controller_http.py:146`); `Initialize` itself is
covered by the proofs of `ControllerLedger` only.

## 4. Runs

| Run | Instance and bounds | What it shows |
|---|---|---|
| Journal | Ultra plan of five stages (two parallel specialists, judge, debate, synthesis), three epochs, clock 0..3 with deadline 2 and retention 3, two fragments | the journal's invariants, `ClosedIsFinal`, and that it implements `OnceDag` |
| Runner | the same plan, two runs, three epochs, slices of three stages and unlimited ones, deadline 1, retention beyond the clock, the runner of the second epoch may wrongly be taken for stopped | attempts are held by the threads that claimed them, no call twice, a live run can always close its job, ownership ends, cancellation closes |
| RunnerRetention | Core plan of two stages, retention inside the clock | violated: finding 1 |
| Admission | two jobs, two periods, four policies (tighter, disabled, next period), three reconfigurations | caps, slots, no refund |
| SlotRelease | the same, two reconfigurations | violated: finding 2 |
| Dispatch | two workers, one job, three claims, three epochs, deaths, wrong stop receipts, lost acknowledgements, one worker whose authority may be withdrawn | queue and journal agree, one worker, no replay, dead claims end |
| DispatchRevoked | two workers that never stop, two claims, no lost acknowledgement | violated: finding 3 |
| Usage | three jobs, two weeks, clock 0..3, upgrades and downgrades | the allowance across the reset, one debit, what a reservation counted on was so while it ran |
| Rollout | two engines, two operators, two canary weights, history of six | confirmation is real, rollback has room and lowers |
| Startup | two tasks, two lifecycles, an offline gate, two writes to two of six files and one stray name, a second policy | evidence was true, an engine is built over approved and protected bytes, one owned engine, current handoff, harmless old tasks |
| Training | two executions, two processes, two adapters, two envelopes, five records, clock 0..2, leases of one tick, grants at two moments, controls that drift | one grant for its own request, one execution trains, the record is the copy, what is reported is preserved |
| Worker | a direct answer chosen by Auto, three stages of Cosmo medium, an Ultra plan with two specialists, each under limits that admit every plan and under limits that admit none of the large ones; timeout 2, one replacement, probes that raise, text of three symbols, two markers with a common start, outputs of up to two symbols and five together, one symbol for the reserved prefix | `ShownIsTheAnswer`, `RecordedOnce`, `TokenOutlivesCall`, `SuccessIsOneRuntime`, `RoomWasReserved`, `DebateIsGrounded`, and that an attempt ends |

Why these bounds are enough to be interesting. Two runs and three epochs are
the least with a stale fence, a wrong recovery and a resumption. In `Runner`
the run wrongly taken for stopped is the second, after a pause of the first,
and its recovery takes the third epoch: two live runs at once would not fit
with five stages. TLC has covered them, with any runner wrongly taken for
stopped, on the Core plan of two stages (392 thousand states, every property
of `Runner`); in the set, any caller with any fence ever issued is `Journal`'s,
two live workers `Dispatch`'s. Five
stages are the smallest plan with parallelism, a conditional stage and a stage
that is allowed to skip it. Two periods that touch show the reset. Two tasks
are an old one and a new one, with `stop()` called by anybody. Two writes undo
each other, which is how a file can be right when it is read and wrong in
between. In `Training` five records are the genesis and the two admissions,
the grant and the record that follows it. A grant may be appended and answered
at time 0 or 1 (`Window = 1`), under leases of one tick, so a lease runs out
under an issuer that is waiting for its append and another issuer takes the next
one; the guest may train from time 1 on. The watchdog's trigger lies at time 3,
beyond the clock: it bites through the lead of a grant and the time of training,
not by itself. In `Worker` a timeout of two is long
enough for a token to expire inside a call, and three symbols for a marker to
be cut at each place; the inputs of the plans are the code's own numbers
(context 32768, limits 4096 to 131072). The limits on the characters of an
output stand at two and five (`MaxArtifact`, `MaxArtifacts`), so that replies of
up to three symbols (`MaxText`) reach every refusal: the one output that is too
long, three that are so only together, and one with the prefix.

`MCWorkerAttempt` also checks the algorithms on bounded inputs, as
assumptions that TLC evaluates: Auto stays in the tier and takes Ultra only
within the budget (`AutoStaysInPlan`); every detected domain has a specialist,
none is appointed twice, and a rebuilt plan has the same team
(`EveryDomainIsCovered`); a plan that is built is admitted by `ExecutionSpec`
under the same cap (`BuiltIsAdmitted`). These were the trials of statements that
`UltraProofs` proves for every input.

The runs take from a second to about three minutes with two workers; `Startup`
and `Training` have 1.2 and 1.8 million states, `Worker` 0.66, `Usage` 0.42 and
`Runner` 0.16 million. Bounds on counters (`MaxEpoch`, `MaxGeneration`, `MaxInstance`,
`MaxRevision`, `MaxEnvelopes`, `MaxTime`, `MaxStall`, `MaxReplaced`,
`MaxWrites`, `Writable`) stand in guards under these names; `MaxHistory`,
`MaxRecords`, `MaxText`, `MaxArtifact`, `MaxArtifacts` and the journal's limits
are the code's.

`CHECK_DEADLOCK FALSE` is set where the system really stops: a job that is
closed or deleted when the bounded clock has reached its end, a training run
past its deadline, a worker whose request is answered and whose lifecycle is
closed. `Usage`, `Rollout` and `Startup` check for deadlock. Symmetry is used
only in runs without liveness, over operators, tasks, processes, requests and
adapters, which the modules treat alike.

The type invariants of the larger modules are kept as documentation where no
run lists them; those of `JobJournal`, `Rollout`, `ServingRuntime`,
`ControllerLedger` and `WorkUsage` are part of proved inductive invariants.

### Fairness

* `FairSpec` (`Runner`, `RunnerRetention`): weak fairness of each live run and
  its threads. The main loop polls every 50 ms, a model call ends within its
  deadline or raises (`AttemptEnds` shows it), and every store call returns; a
  run that crashed owes nothing. Weak fairness of the supervisor for a dead
  run, which is the operator's duty that `recover_abandoned` documents. None
  for callers, cancellation, revocation or crashes.
* `FairRecovery` (`Dispatch`): weak fairness of recovering the row of a worker
  that stopped, nothing of workers.
* `FairDispatch` (`DispatchRevoked` only): adds weak fairness of workers and
  strong fairness of the end of a slice, the strongest a defender of the code
  could ask for; the property fails even so.
* `AttemptSpec` (`Worker`): the process takes its next step, its clock runs, and
  the second probe and the sink return or raise; nothing is asked of the identity
  endpoint or the server.
* The other runs state safety only.

## 5. Findings

1. *An expired record strands the owner of a dead runner* (`RunnerRetention`).
   `recover_abandoned` (`store.py:499`) reads the plan, and once retention has
   passed `PrivateJobStore._spec` raises; unlike `finish()` there is no
   fallback. `private_store.py:151` says "Expiration must not strand runner
   ownership". `Runner` shows that this is the only obstacle: with retention
   beyond the clock ownership always ends.
2. *A slot of work that was never attempted is kept* (`SlotRelease`). A job
   that was begun, cancelled and then recovered becomes `cancelled` with
   nothing reserved, but admission does not override `recover_abandoned`; its
   slot stays until somebody cancels again or confirms quiescence.
   `docs/postgres-account-admission.md:39` says cancellation before any
   attempt releases it.
3. *A dispatch whose grant is revoked after the claim is not held*
   (`DispatchRevoked`). `dispatch()` raises and the row stays claimed by a live
   worker. `docs/postgres-worker-supervision.md:43` says revoked permissions
   hold dispatch.

## 6. Theorems

All proofs are checked to their leaves with SMT, Zenon and, for the temporal
steps, PTL.

**SumTheorems.** Caps, budgets and allowances add up over sets of any size, and
the induction theorems of the library are out of the prover's reach. Instead a
sum is shown to be a number of elements (`SumIsWeight`: `f[x]` pairs for every
`x`), and induction is replaced by the least set for which a claim fails
(`LeastSet`, from the well-foundedness of strict inclusion on finite sets). From
it: a sum of naturals is a natural, an element adds its value, a part sums to no
more than the whole, and equal values have equal sums.

**JobJournalProofs.** Assumptions: those of `JobJournal` (the plan is a
well-founded order with one final stage, budgets and limits are naturals,
deadline before retention), which its constructor or policy enforces. `TypeOK`
is proved first. `SuccessMeansWhole`, `CancelWins` and `OwnershipAgrees` are
not inductive alone: a completed stage says nothing of its dependencies until
one adds that a stage is claimed only after them (`ClaimedAfterDeps`), text
says nothing of the plan until one adds that it needs a claim of the final
stage (`TextNeedsClaim`), and a deleted job must keep nothing
(`ErasedIsAbsent`). Their conjunction `IInv` is preserved by every method, one
step per method. From it follow the state properties, among them
`PublishedAfterPlan`, which no run lists; `ClosedIsFinal` from each method's
guard; and `KeepsPromise`: each method maps to a step of `OnceDag` or a
stutter, where `PhaseUpdate` says how a change of one stage moves the mapped
phase.

`BudgetIsSound` (`BudgetIsClaims`) rests on `SumTheorems`. That the counters are
the sum over the claimed stages stays true only if a pending stage is unclaimed
(`PendingIsUnclaimed`): a recovery ends the attempts in flight and puts no stage
back into the plan. That a pending stage fits then follows from `Limit` covering the whole
plan, of which the claimed stages and the pending one are a part
(`SumMonotone`).

The second half is about `LocalRunner`, for any number of runs and any set of
wrong recoveries. Every step of a run is a method of the store under a fence
that the store issued, or leaves it alone (`RunnerImplementsJournal`); so all of
the above holds under the scheduler. `AttemptsAreHeld` says nothing of which
stages ended badly, nor of two runs with the same fence; `RunInv` adds that
fences differ (`FencesDiffer`, until the row is erased and its epochs are
forgotten), that threads exist only while a batch is collected and have an
outcome once they are done (`ThreadsFit`), that the call of an attempt is either
still to come or was made (`CallsFit`), and what an owner knows: a stage that
ended badly is a failure it has seen or is about to collect (`Knows`). From it
`CalledAtMostOnce`, `AttemptsHaveThreads` and `FinishIsAccepted`. The plan is
finite (`RunnerAssumption`), as every list of stages is.

**DispatchProofs.** First the account, for every set of jobs, policies, periods
and receipts.
`SlotMeansUncertain` is not inductive: nothing in it says what a job without a
reservation may be. `JobInv` adds, job by job, that such a job is absent and
unowned and that an absent job with one is marked erased (`AdmittedOnce`), so
that `create()` cannot meet an old reservation, and what a free slot says of
the job (`SlotOf`). `ReleaseIsSafe` is the hinge: a method frees a slot only of
its own job, and only if that is over and settled. `SlotsAreSafe` and
`ReservationsStay` follow. `CapsAreKept` (`CapsHold`) sums over jobs that may be
named without end; it needs to know that only finitely many ever reserved
(`FewReservations`), and that a policy is replaced only by one whose caps cover
what its period already holds.

Then the queue, for every set of jobs and workers, with any deaths, wrong
stop receipts and lost acknowledgements. Every step of the queue is a
step of the account or leaves it alone (`StepAdmits`): a fence that the journal
accepts was issued by it (`FenceIsIssued`). So the types and the theorems above
carry over (`DispatchImplementsAdmission`). `QueueAgrees` needs to say more of
the rows: an unowned job is not running, a queued row has a job, a runner is
not above its epoch (`QueueOf`). That no two workers run a job rests on
`FencesDiffer`: begin() gives an epoch above every fence given before, and
epochs never fall (`EpochsGrow`). `QueueIsTrue`, `WorkersExclude` and
`NoReplay` follow.

**WorkUsageProofs.** For every set of jobs, weeks, receipts and quotes. The
arithmetic comes first: the inverse that `_validate_record` computes undoes
`ceil(3n/2)` on every value it can take (`UnitsInverse`), and units grow with
the quote. `UsageInv` adds to the type that no receipt settles two jobs, that a
job without a row has no settlement, and what a reservation under way was
decided on (`DecisionHolds`): while the ledger is locked week and rows do not
move, so the room that was counted stays. `LooksHold` says what the looks found,
with the history of the grant since the last look at the clock. From it:
`StoredRecordsAreReadable`, `AdmissionIsAsCounted`, `DebitsAreFinal`.

`AllowanceIsKept` (`OutstandingFits`) adds that there are finitely many rows and
none before the first week (`RowsFit`). A reservation adds what the second look
has just compared with the allowance; a settlement debits no more than it frees;
a week that begins has nothing debited yet, so what is held in it was within the
allowance of an earlier one.

**UltraProofs.** For every size of prompt and wrapper, up to five
specialists, and every cap. `ReservationFits`: the budget that `build_ultra_plan`
computes by division never exceeds the cap, so its final check cannot fail
after the one before it. `StagesFitContext`: every operation that may write
fits the native context with all it may read, so `ExecutionSpec` cannot refuse
it for its size. Both rest on the bound of a quotient and on `Least`. With
`TotalIsReserved`, which adds up the operations of a plan, follows
`UltraPlansAreAdmitted`: a plan that is built passes the snapshot under the same
cap, if its cost limit covers its stages. `CorePlansAreShaped` says so of the
shape of a Core plan.

The team, for every scoring of a task. A ranking lists each element of a finite
set once, at its place (`RankedIs`, by the least set for which it fails), so the
first posts are the first roles of the domains in order (`RoundsAre`). Hence
`EveryDomainHasASpecialist`, `NoSpecialistTwice`, and `UltraPlansAreRebuilt`: the
saved plan keeps how many specialists it has, not how many agents were admitted,
and from that number the verifier selects the same team. A score is assumed to
be a natural number per domain, a count of terms. `AutoStaysInTheTier`: what
Auto picks is in the plan of the tier, for every prompt and budget.

The second half is about `WorkerAttempt`, for every server that stalls, breaks
off or is replaced, every deadline, skew and token. `WInv` adds to the type and
to `RecordedOnce` how long the token in use lives at least (`TokenFits`: what is
left of it when it is taken covers the deadline, so it outlives every step that
is still in time), and whose work the reply in hand is (`ReplyFits`: the second
probe, if it answers, names the runtime of the first only if no other has served).
From it
`AttemptsAreRecorded`, `TokensOutliveCalls` and `SuccessesAreOneRuntimes`.
Besides the limits of the code `AttemptAssumption` says that lifetimes are
integers, that a marker has two symbols or more, and that a replacement never
brings the first runtime back: an instance is a fresh uuid.

Three more invariants are about a whole request. `RoomWasReserved` is about a
refusal only; `JobInv` adds what every finished stage wrote (what was reserved
for it, no text, or the skipped debate) and that a request under way was
granted. Then the next stage can be refused for what its texts are, as
`ultra/test_binding.py:85` has it, but not for their tokens, because each stage
reserved for all it reads (`CoreRoom`, `UltraRoom`): `LaterStagesFit`. `DebateInv` carries what a
debate rests on from the check over the judge to the debate: the conflicts the
check recorded are valid, the judge cites among them, and nothing changes what
was found in between: `DebatesAreGrounded`. `TextInv` is the one that needs
thought. That no marker has been shown is not preserved by the next fragment,
since a marker may have begun before it. What is preserved is stronger: at every
place of what was shown, every marker already differs from the text that
follows, within what was read (`Diverges`), so no continuation makes it one;
`NothingStartsBeforeHold` says that `Hold` keeps back just enough for
that. `TextsAreShown` follows, for every set of markers and chunks.

**RolloutProofs.** For every plan, set of operators and validity.
`ConfirmedIsReal` speaks of what the engines serve; an induction must also say
what every operator may still believe and what may still land. `RInv` adds
that every write in flight belongs to the pending intent (`WritesArePending`),
identifiers are fresh (`IdsAreFresh`), a view taken as settled is still true
(`SettledViewsAreCurrent`), what is pending follows the step (`PendingFollows`)
and how long the history is (`HistoryCounts`). `SettledMeansQuiet` is the
hinge: an operator whose view is settled knows that nothing is in flight.
`RollbackHasRoom` needs `2N + 2 <= MaxHistory`, which the limits of
`validate_plan` give.

**ServingProofs.** For any number of tasks and lifecycles, every refusal of
`start()` included (`StartFailsEarly`, of which `ArtifactStartup` is the
detail). `SInv` ties the instance, the engine and the engines that are live to
what each suspended task captured; from it the type, `EngineIsOwned`,
`HandoffIsCurrent` and `OldTaskIsHarmless`. The run that checks these
properties is `Startup`, where `start()` is the longer sequence. Each of its
steps is a step of the runtime, leaves it alone or is a refusal
(`StartupIsServing`), so `StartupKeepsOwner`, `StartupHandsOutCurrent` and
`StartupSparesNewer` prove the three again in that form.

The second half is about `ArtifactStartup`, for every manifest, any number of
writes and any policies. `EvidenceWasTrue` says nothing until the last look;
`ScanFits` says what each earlier step has established: a hashed file is good
for as long as its stamp is the one it was hashed under, and after the second
listing either the directory was the approved one at that moment or a file that
was written since is still to be looked at, which the second look cannot pass.
Hence `EvidenceIsTrue`. `GuardFits` adds that from the check of the mount on the
directory of a `start()` is read only, so what the scan saw is what is there,
and that `BuildEngine` finds the policy it began with: `EnginesLoadApproved`.
Assumed is only that the manifest is a list and the gate no task
(`StartupAssumption`).

**LedgerProofs.** For any number of processes, requests, records and envelopes
and any length of leases and windows, from an empty container on. That at most
one grant is in the log (`OneGrant`) is not inductive: an append may land long
after its sender gave up. `LInv` adds that an append under way fits the end of
the log and is a grant only if none is there (`WireFits`), that a sender which
still holds the lease finds its own record under way or last (`RepliesMatch`,
by which `Confirm` knows what it read back), that a call which came back has
its envelope in the log (`SuccessIsCommitted`), and that every answer is in the
log (`AnswersAreCommitted`). `LandKeeps` is the hinge: the block that lands
changes no earlier record. `AnswersAreGrants` follows. Besides
`LedgerAssumption` it assumes that `None` is not a record (`NoneIsNoRecord`).

The second half is about `CosmoTraining`. Its steps are steps of the ledger or
leave it alone, so `LInv` stays; `TInv` adds that a guest past its grant holds
the committed one (`GuestOf`), that a frame of `submit()` agrees with the call
its process has under way (`DeskOf`), and that the copy, the record and the
append under way are of one bundle (`StoreFits`). From it: `OneRunIsPaid`,
`RecordIsOfTheCopy`, `ReportsArePreserved`, and `TrainingAnswersAreGrants`, the
property of the ledger with guests and preserver around it, which is the one the
run `Training` checks. Assumed are `NoneIsNoBundle`, as above, and room for the
genesis and the two admissions that precede (`MaxRecords >= 3`).

## 7. What is only model-checked

* Liveness under fairness: `OwnershipEnds`, `CancelCloses`, `CrashedClaimsEnd`,
  `AttemptEnds`.
* The list of stages that `CoreRoute` folds over the passes of a route
  (`Stages`): the prover has no induction over data, and the runs enumerate the
  routes. The plans' sums are proved with `SumTheorems` instead.

## 8. What the models leave out

* Record cipher and activity lines (`execution/`), personalization, identity
  texts and conversation text: functions of their input that add or transform
  text and decide nothing.
* Source contexts (`execution/source_context.py`): access is asked for again
  before and after each use of a source, by one thread and in sequence, through
  callbacks of the application.
* Replay of events to a reader with a cursor (`store.py:287`): a page is read
  in one transaction and changes nothing.
* `runpod_vllm.py` takes the same steps as the Azure client over another
  provider.
* `cosmo_lifecycle_authority.py`, `cosmo_runtime_guard.py`,
  `cosmo_adapter_receipt.py`, the evaluation runner, `kova_cosmo_sft.py`, most
  of `three_family_contract.py` and the validators under `release/`: they
  compare signed or pinned evidence with expected values, field by field, and
  keep no state between two calls. Where a modelled component calls one, it is
  a step that may be refused.
* The numeric work of training and the evaluation reports: sequential
  computations over files.
* Faults of the database itself beyond a lost acknowledgement: a method is one
  serialised transaction, as the advisory lock and `BEGIN IMMEDIATE` make it.
* Scripts, infrastructure and migrations.
