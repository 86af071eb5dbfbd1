---------------------------- MODULE CosmoTraining ----------------------------
(* One paid training run of Cosmo, end to end: the guest that asks for the    *)
(* grant, trains and hands over its adapter (training/cosmo_qlora_training,   *)
(* cosmo_qlora_launch, cosmo_qlora_grant, preserve_adapter), the controller's *)
(* ledger and issuer (ControllerLedger) and the controller's preserver        *)
(* (cosmo_adapter_preservation.AdapterPreserver), composed.                   *)
(*                                                                            *)
(* A request stands for one execute(): a nonce is never used by two.  The     *)
(* preserver works in the same processes as the issuer: it reads the ledger   *)
(* under a lease, stores the bundle in a blob that cannot be overwritten,     *)
(* reads it back and appends the record.  Any of its calls may fail, a reply  *)
(* may be lost and the same bundle handed over again, by two at a time.       *)
EXTENDS ControllerLedger, FiniteSets

CONSTANTS
    Adapter,       \* contents that an adapter directory may have
    QuoteLife,     \* until when the signed quote holds
    PreflightLife, \* and the signed runtime preflight
    DriftsFrom,    \* DriftsFrom[c]: from when control c differs from what was approved
    TrainTime,     \* maximum_elapsed_seconds
    SaveLead       \* PRESERVATION_LEAD

(* What the controller reads of Azure itself before it signs. *)
Network == {"interface", "subnet", "gateway", "rules"}
Control == Network \cup
    {"identity", "machine", "disk", "driver", "guest roles", "watchdog", "watchdog roles",
     "pilot inventory", "watchdog inventory", "locks", "denials"}

ASSUME TrainingAssumption ==
    /\ None \notin Adapter /\ MaxRecords >= 3
    /\ {QuoteLife, PreflightLife, TrainTime, SaveLead} \subseteq Nat
    /\ DriftsFrom \in [Control -> Nat]

VARIABLES
    run,       \* each execute(): its stage, its grant, when it began to train, its adapter
    posted,    \* the bundles handed over
    desk,      \* what each process of the controller does for submit()
    copy,      \* the protected blob of the adapter
    cargo,     \* the artifact digest in the append under way
    recorded,  \* the one in the ledger's record of the preservation
    replies    \* the signed records that left the controller

guest == <<run, posted>>
store == <<copy, cargo, recorded>>
trainingVars == <<vars, run, posted, desk, copy, cargo, recorded, replies>>

Grant(r) == run[r].grant
Bundle(r) == [grant |-> Grant(r).id, adapter |-> run[r].adapter]
Stages == {"planned", "asking", "granted", "training", "saved", "done"}
BundleType == [grant : 1 .. MaxEnvelopes, adapter : Adapter]
Frame ==
    [bundle : BundleType, step : {"state", "store", "verify", "append"},
     clock : Time, seen : 0 .. MaxRecords]

ASSUME NoneIsNoBundle == None \notin BundleType \cup Frame

TrainingTypeOK ==
    /\ LedgerTypeOK
    /\ run \in [Request -> [stage : Stages, grant : Envelope \cup {None}, since : Time,
                            adapter : Adapter \cup {None}]]
    /\ posted \subseteq BundleType
    /\ desk \in [Process -> Frame \cup {None}]
    /\ copy \in BundleType \cup {None}
    /\ {cargo, recorded} \subseteq Adapter \cup {None}
    /\ replies \subseteq [bundle : BundleType, record : Adapter]

(* The ledger is there and its first admissions are made. *)
Admitted ==
    << [EventRecord("genesis", 0) EXCEPT !.expires = 0], EventRecord("watchdog_health", 0), EventRecord("cost_admission", 0) >>

TrainingInit ==
    /\ now = 0 /\ created = TRUE
    /\ log = Admitted
    /\ lease = NoLease
    /\ asked = [r \in Request |-> None]
    /\ pc = [p \in Process |-> "idle"] /\ call = [p \in Process |-> None]
    /\ signed = 0 /\ answers = {}
    /\ run = [r \in Request |-> [stage |-> "planned", grant |-> None, since |-> 0, adapter |-> None]]
    /\ posted = {}
    /\ desk = [p \in Process |-> None]
    /\ copy = None /\ cargo = None /\ recorded = None
    /\ replies = {}

-----------------------------------------------------------------------------
(* The guest. *)

(* assess_signed_quote(): the quote is fresh and leaves the watchdog time.    *)
QuoteHolds == now < QuoteLife /\ now < Deadline

(* read_runtime_preflight(): so is the read of Azure behind the run, which    *)
(* found the approved network and a healthy watchdog.                         *)
PreflightHolds == now < PreflightLife /\ now < Deadline

(* AzureRequestVerifier.verify(): every control is as approved, and the       *)
(* watchdog is armed for the trigger.                                         *)
LiveControls == now < Deadline /\ \A c \in Control : now < DriftsFrom[c]

(* require_before_cleanup(). *)
BeforeCleanup(remaining) == now + remaining < Deadline

At(r, stage) == run[r].stage = stage
To(r, stage) == run' = [run EXCEPT ![r].stage = stage]

(* execute() up to the first POST of the request. *)
Apply(r) ==
    /\ At(r, "planned")
    /\ QuoteHolds /\ PreflightHolds /\ BeforeCleanup(0)
    /\ Ask(r)
    /\ To(r, "asking")
    /\ UNCHANGED <<posted, desk, store, replies>>

(* acquire_training_grant(): an envelope that arrives while the guest still   *)
(* asks, binds its request and leaves time to train.                          *)
AcceptGrant(r) ==
    /\ At(r, "asking")
    /\ \E a \in answers :
         /\ a.request = r /\ a.envelope.request = r
         /\ now <= asked[r].at + Recovery
         /\ now + Lead <= Deadline
         /\ run' = [run EXCEPT ![r].stage = "granted", ![r].grant = a.envelope]
    /\ UNCHANGED <<vars, posted, desk, store, replies>>

(* The model is loaded; training starts if its whole time and the             *)
(* preservation fit before the watchdog.                                      *)
StartTraining(r) ==
    /\ At(r, "granted")
    /\ BeforeCleanup(TrainTime + SaveLead)
    /\ run' = [run EXCEPT ![r].stage = "training", ![r].since = now]
    /\ UNCHANGED <<vars, posted, desk, store, replies>>

(* All seven steps inside the limit, or the callback stops it and it fails. *)
SaveAdapter(r) ==
    /\ At(r, "training")
    /\ now - run[r].since < TrainTime
    /\ BeforeCleanup(SaveLead)
    /\ \E a \in Adapter :
         run' = [run EXCEPT ![r].stage = "saved", ![r].adapter = a, ![r].since = 0]
    /\ UNCHANGED <<vars, posted, desk, store, replies>>

(* The files of the adapter are replaced under the guest. *)
ReplaceAdapter(r) ==
    /\ At(r, "saved")
    /\ \E a \in Adapter \ {run[r].adapter} : run' = [run EXCEPT ![r].adapter = a]
    /\ UNCHANGED <<vars, posted, desk, store, replies>>

(* preserve_adapter(): the bundle is the same whenever the files are. *)
HandOver(r) ==
    /\ At(r, "saved")
    /\ BeforeCleanup(SaveLead)
    /\ posted' = posted \cup {Bundle(r)}
    /\ UNCHANGED <<vars, run, desk, store, replies>>

(* preserve_adapter() believes a record about what it sent and its own grant. *)
Report(r) ==
    /\ At(r, "saved")
    /\ \E m \in replies :
         /\ m.bundle.grant = Grant(r).id /\ m.record = m.bundle.adapter
         /\ run' = [run EXCEPT ![r].stage = "done", ![r].adapter = m.bundle.adapter]
    /\ UNCHANGED <<vars, posted, desk, store, replies>>

-----------------------------------------------------------------------------
(* The preserver. *)

Idle(p) == pc[p] = "idle" /\ desk[p] = None
Serves(p, step) == desk[p] # None /\ desk[p].step = step
Leaves(p) == desk' = [desk EXCEPT ![p] = None]

(* submit(): the bundle is intact and the ledger is read first. *)
Submit(p) ==
    /\ Idle(p)
    /\ \E b \in posted :
         desk' = [desk EXCEPT ![p] = [bundle |-> b, step |-> "state", clock |-> 0, seen |-> 0]]
    /\ Begin(p, "family_preserved", "state", None, 0)
    /\ UNCHANGED <<now, created, log, lease, asked, signed, answers, guest, store, replies>>

(* current_state_with_last_record(), then the clock is read. *)
ReadForSubmit(p) ==
    /\ Serves(p, "state")
    /\ ReadState(p)
    /\ desk' = [desk EXCEPT ![p].seen = Len(log)]
    /\ UNCHANGED <<guest, store, replies>>

StateRead(p) ==
    /\ Serves(p, "state")
    /\ Release(p)
    /\ desk' = [desk EXCEPT ![p].step = "store", ![p].clock = now]
    /\ UNCHANGED <<guest, store, replies>>

\* Fault: the upload replaces a bundle that is there.
PutOver(b) == copy' = b

(* PUT with If-None-Match: a bundle that is there stays. *)
Put(b) == copy' = IF copy = None THEN b ELSE copy

(* The bundle belongs to the one grant; unless it is preserved already it is  *)
(* uploaded, before the watchdog's trigger by the clock read above.           *)
Store(p) ==
    LET d == desk[p] IN
    /\ Serves(p, "store") /\ pc[p] = "idle"
    /\ \E i \in Grants(d.seen) : Grants(d.seen) = {i} /\ log[i].envelope.id = d.bundle.grant
    /\ IF Preserved(d.seen)
       THEN log[d.seen].kind = "family_preserved" /\ UNCHANGED copy
       ELSE d.clock < Deadline /\ Put(d.bundle)
    /\ \/ desk' = [desk EXCEPT ![p].step = "verify"]
       \/ Leaves(p)
    /\ UNCHANGED <<vars, guest, cargo, recorded, replies>>

(* The blob is read back and compared with the bundle.  If it was preserved   *)
(* already the ledger's record is the answer, else a record is appended.      *)
Verify(p) ==
    LET d == desk[p] IN
    /\ Serves(p, "verify")
    /\ copy = d.bundle
    /\ IF Preserved(d.seen)
       THEN /\ recorded = d.bundle.adapter
            /\ replies' = replies \cup {[bundle |-> d.bundle, record |-> recorded]}
            /\ Leaves(p)
            /\ UNCHANGED <<pc, call>>
       ELSE /\ Goto(p, "acquire",
                    [kind |-> "family_preserved", phase |-> "append", request |-> None,
                     clock |-> d.clock, expected |-> d.seen - 1, seen |-> 0, envelope |-> None])
            /\ desk' = [desk EXCEPT ![p].step = "append", ![p].clock = 0, ![p].seen = 0]
            /\ UNCHANGED replies
    /\ UNCHANGED <<now, created, log, lease, asked, signed, answers, guest, store>>

SendRecord(p) ==
    /\ Serves(p, "append")
    /\ Send(p)
    /\ cargo' = desk[p].bundle.adapter
    /\ UNCHANGED <<desk, copy, recorded, guest, replies>>

(* append() returned: its record is the answer. *)
RecordAppended(p) ==
    /\ Serves(p, "append")
    /\ Release(p)
    /\ Leaves(p)
    /\ replies' = replies \cup {[bundle |-> desk[p].bundle, record |-> desk[p].bundle.adapter]}
    /\ UNCHANGED <<guest, store>>

\* Fault: an append without an answer is taken for one that was made.
UncertainIsDone(p) ==
    /\ desk[p] # None
    /\ Abandon(p) \/ Fail(p)
    /\ Leaves(p)
    /\ replies' = IF pc[p] = "reply"
                  THEN replies \cup {[bundle |-> desk[p].bundle, record |-> desk[p].bundle.adapter]}
                  ELSE replies
    /\ UNCHANGED <<guest, store>>

(* A call of the ledger raises, and submit() with it: 403. *)
SubmitRaises(p) ==
    /\ desk[p] # None
    /\ Abandon(p) \/ Fail(p)
    /\ Leaves(p)
    /\ UNCHANGED <<guest, store, replies>>

(* So does any check or call of submit() itself. *)
SubmitRefuses(p) ==
    /\ desk[p] # None /\ pc[p] = "idle"
    /\ Leaves(p)
    /\ UNCHANGED <<vars, guest, store, replies>>

PreserverStep(p) ==
    \/ Submit(p) \/ ReadForSubmit(p) \/ StateRead(p) \/ Store(p) \/ Verify(p)
    \/ SendRecord(p) \/ RecordAppended(p) \/ SubmitRaises(p) \/ SubmitRefuses(p)
    \/ desk[p] # None /\ (Acquire(p) \/ Confirm(p)) /\ UNCHANGED <<guest, desk, store, replies>>

-----------------------------------------------------------------------------
(* The rest of the controller, and the storage. *)

(* The guest sends its request again only while it waits for an answer. *)
StillAsks(r) == At(r, "asking") /\ now <= asked[r].at + Recovery

IssuerStep(p) ==
    /\ desk[p] = None
    /\ \/ \E kind \in Admission : AppendEvent(p, kind)
       \/ \E r \in Request : StillAsks(r) /\ Issue(p, r)
       \/ Acquire(p) \/ Abandon(p) \/ ReadState(p) \/ Send(p) \/ Confirm(p) \/ Fail(p)
       \/ Release(p) \/ Recover(p) \/ Deliver(p)
       \/ QuoteHolds /\ PreflightHolds /\ LiveControls /\ Sign(p)
    /\ UNCHANGED <<guest, desk, store, replies>>

RecordLands ==
    /\ Land
    /\ recorded' = IF lease.wire.kind = "family_preserved" THEN cargo ELSE recorded
    /\ UNCHANGED <<guest, desk, copy, cargo, replies>>

Wait == Tick /\ UNCHANGED <<guest, desk, store, replies>>

GuestStep(r) ==
    \/ Apply(r) \/ AcceptGrant(r) \/ StartTraining(r) \/ SaveAdapter(r) \/ ReplaceAdapter(r)
    \/ HandOver(r) \/ Report(r)

TrainingNext ==
    \/ Wait \/ RecordLands
    \/ \E r \in Request : GuestStep(r)
    \/ \E p \in Process : PreserverStep(p) \/ IssuerStep(p)

TrainingSpec == TrainingInit /\ [][TrainingNext]_trainingVars

-----------------------------------------------------------------------------
Trains(r) == run[r].stage \in {"training", "saved", "done"}

(* However many executions ask, retry or overlap, only one ever gets to       *)
(* train, and under the grant that the ledger holds.                          *)
OneRunTrains ==
    \A r \in Request : Trains(r) =>
        /\ \A q \in Request : Trains(q) => q = r
        /\ \E i \in Grants(Len(log)) : log[i].envelope = Grant(r)

(* The ledger never vouches for an adapter other than the one in the          *)
(* protected blob, whoever else hands over another bundle meanwhile.          *)
RecordIsTheCopy ==
    recorded # None =>
        /\ copy # None /\ copy.adapter = recorded
        /\ \E i \in Grants(Len(log)) : log[i].envelope.id = copy.grant

(* execute() reports a candidate only when the ledger holds the record of     *)
(* exactly that adapter: an uncertain upload or append reports nothing.       *)
ReportedIsPreserved ==
    \A r \in Request : At(r, "done") =>
        recorded = run[r].adapter /\ Preserved(Len(log))
=============================================================================
