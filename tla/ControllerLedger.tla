--------------------------- MODULE ControllerLedger ---------------------------
(* The append ledger of the training controller (training/                    *)
(* cosmo_controller_ledger.py) and the issuer of its one grant (training/     *)
(* cosmo_controller_grants.py).                                               *)
(*                                                                            *)
(* Several processes work on one blob.  Each operation takes a lease, reads   *)
(* and replays the whole blob, appends one record on condition that the blob  *)
(* has not moved, reads it back and releases the lease.  Any call to the      *)
(* storage may fail; an append whose answer is lost may land later; the       *)
(* lease may run out under a slow process.                                    *)
(*                                                                            *)
(* A body that was read is the length of the prefix read: the blob is         *)
(* append-only and cannot be recreated (locked retention).  A lease id lives  *)
(* as long as the lease, so the append sent under it is kept with it.         *)
EXTENDS Integers, Sequences

CONSTANTS
    Process,       \* operations of the controller that may run at once
    Request,       \* distinct training requests of guests
    None,
    LeaseTime,     \* x-ms-lease-duration
    Validity,      \* lifetime of an admission's evidence, five minutes
    Deadline,      \* grant_deadline_utc, the watchdog's cleanup trigger
    Lead,          \* MIN_GRANT_LEAD
    Window,        \* MAX_GRANT_RESPONSE_DELAY
    Recovery,      \* MAX_GRANT_RECOVERY_DELAY
    MaxTime,       \* bound on the clock
    MaxRecords,    \* MAX_EVENTS + 1
    MaxEnvelopes   \* bound on the envelopes that are signed

ASSUME LedgerAssumption ==
    /\ None \notin Process \cup Request
    /\ {LeaseTime, Validity} \subseteq Nat \ {0}
    /\ {Deadline, Lead, Window, Recovery, MaxTime, MaxEnvelopes} \subseteq Nat
    /\ MaxRecords \in Nat \ {0}

VARIABLES
    now,        \* the clock
    created,    \* the blob exists
    log,        \* its records
    lease,      \* who holds it, until when, and the append under way at its offset
    asked,      \* when each guest signed its request, and for which sequence
    pc,         \* where each process is
    call,       \* and the locals of its operation
    signed,     \* how many envelopes were signed
    answers     \* the envelopes that left the controller, with whom they answer

vars == <<now, created, log, lease, asked, pc, call, signed, answers>>

Admission == {"watchdog_health", "cost_admission"}
Kind == Admission \cup {"genesis", "training_grant", "family_preserved"}
Time == 0 .. MaxTime

(* grant_id and ledger_commit_id are fresh uuids: an envelope has a number. *)
Envelope == [request : Request, id : 1 .. MaxEnvelopes, issued : Time]
Record ==
    [kind : Kind, expires : 0 .. MaxTime + Validity, envelope : Envelope \cup {None}]

ASSUME NoneIsNoRecord == None \notin Record

(* phase "state" is current_state(), phase "append" is append().  A local that *)
(* is not read again is set back to zero.                                     *)
Call ==
    [kind : Kind, phase : {"state", "append"}, request : Request \cup {None},
     clock : Time, expected : 0 .. MaxRecords, seen : 0 .. MaxRecords,
     envelope : Envelope \cup {None}]

LedgerTypeOK ==
    /\ now \in Time
    /\ created \in BOOLEAN
    /\ log \in Seq(Record) /\ Len(log) <= MaxRecords
    /\ lease \in [holder : Process \cup {None}, until : 0 .. MaxTime + LeaseTime,
                  wire : Record \cup {None}, offset : 0 .. MaxRecords]
    /\ asked \in [Request -> [at : Time, sequence : 0 .. MaxRecords] \cup {None}]
    /\ pc \in [Process -> {"idle", "acquire", "read", "reply", "release", "examine", "return"}]
    /\ call \in [Process -> Call \cup {None}]
    /\ signed \in 0 .. MaxEnvelopes
    /\ answers \subseteq [request : Request, envelope : Envelope]

NoLease == [holder |-> None, until |-> 0, wire |-> None, offset |-> 0]

Init ==
    /\ now = 0
    /\ created = FALSE
    /\ log = << >>
    /\ lease = NoLease
    /\ asked = [r \in Request |-> None]
    /\ pc = [p \in Process |-> "idle"]
    /\ call = [p \in Process |-> None]
    /\ signed = 0
    /\ answers = {}

-----------------------------------------------------------------------------
(* The log. *)

IsGrant(i) == log[i].kind = "training_grant"
Grants(n) == {i \in 1 .. n : IsGrant(i)}
Preserved(n) == \E i \in 1 .. n : log[i].kind = "family_preserved"
Fresh(r, t) == t < r.expires

(* The two admissions that must stand directly before a grant. *)
AdmittedBefore(n, t) ==
    /\ n >= 3
    /\ log[n - 1].kind = "watchdog_health" /\ Fresh(log[n - 1], t)
    /\ log[n].kind = "cost_admission" /\ Fresh(log[n], t)

(* _transition() and append_ledger_event(): may r follow the first n records  *)
(* at time t?                                                                 *)
Legal(n, r, t) ==
    \/ r.kind = "watchdog_health" /\ Grants(n) = {} /\ Fresh(r, t)
    \/ /\ r.kind = "cost_admission" /\ Grants(n) = {} /\ Fresh(r, t)
       /\ log[n].kind = "watchdog_health"
    \/ /\ r.kind = "training_grant" /\ Grants(n) = {}
       /\ AdmittedBefore(n, t)
       /\ t - Window <= r.envelope.issued /\ r.envelope.issued <= t
       /\ t + Lead <= Deadline
    \/ /\ r.kind = "family_preserved" /\ Grants(n) # {} /\ ~ Preserved(n)
       /\ t <= r.expires

Open(kind) == kind # "family_preserved" => now < Deadline

-----------------------------------------------------------------------------
(* The storage. *)

Active(p) == lease.holder = p /\ now < lease.until

(* The appended block reaches the storage, before or after its sender gave up. *)
Land ==
    /\ lease.wire # None /\ now < lease.until
    /\ Len(log) = lease.offset
    /\ log' = Append(log, lease.wire)
    /\ lease' = [lease EXCEPT !.wire = None]
    /\ UNCHANGED <<now, created, asked, pc, call, signed, answers>>

Tick ==
    /\ now < MaxTime
    /\ now' = now + 1
    /\ UNCHANGED <<created, log, lease, asked, pc, call, signed, answers>>

Return(p) ==
    /\ pc' = [pc EXCEPT ![p] = "idle"]
    /\ call' = [call EXCEPT ![p] = None]

Goto(p, label, frame) ==
    /\ pc' = [pc EXCEPT ![p] = label]
    /\ call' = [call EXCEPT ![p] = frame]

-----------------------------------------------------------------------------
(* The calls. *)

(* Evidence is as old as the call that brings it. *)
EventRecord(kind, clock) ==
    [kind |-> kind, expires |-> clock + Validity, envelope |-> None]

NewRecord(p) ==
    LET c == call[p] IN
    IF c.kind \in {"genesis", "training_grant"}
    THEN [kind |-> c.kind, expires |-> 0, envelope |-> c.envelope]
    ELSE EventRecord(c.kind, c.clock)

Begin(p, kind, phase, request, expected) ==
    /\ pc[p] = "idle"
    /\ Goto(p, "acquire",
            [kind |-> kind, phase |-> phase, request |-> request, clock |-> now,
             expected |-> expected, seen |-> 0, envelope |-> None])

(* initialize(): a caller that loses the answer of the creation leaves an     *)
(* empty blob for good.                                                       *)
Initialize(p) ==
    /\ now < Deadline
    /\ ~ created /\ created' = TRUE
    /\ \/ Begin(p, "genesis", "append", None, 0)
       \/ pc[p] = "idle" /\ UNCHANGED <<pc, call>>
    /\ UNCHANGED <<now, log, lease, asked, signed, answers>>

(* append() of evidence observed now, by a caller that knows the sequence and *)
(* submits what may follow it; the ledger decides once it holds the lease.    *)
AppendEvent(p, kind) ==
    /\ Len(log) > 0 /\ Legal(Len(log), EventRecord(kind, now), now)
    /\ Begin(p, kind, "append", None, Len(log) - 1)
    /\ UNCHANGED <<now, created, log, lease, asked, signed, answers>>

(* The guest signs its request once; retries repeat it. *)
Ask(r) ==
    /\ asked[r] = None
    /\ Len(log) > 1
    /\ now + Lead + Recovery <= Deadline
    /\ asked' = [asked EXCEPT ![r] = [at |-> now, sequence |-> Len(log) - 1]]
    /\ UNCHANGED <<now, created, log, lease, pc, call, signed, answers>>

(* issue(): the clock is read before current_state(). *)
Issue(p, r) ==
    /\ asked[r] # None
    /\ Begin(p, "training_grant", "state", r, asked[r].sequence)
    /\ UNCHANGED <<now, created, log, lease, asked, signed, answers>>

(* _lease(): a fresh lease id, unless somebody else's is still running. *)
Acquire(p) ==
    /\ pc[p] = "acquire"
    /\ created /\ (lease.holder = None \/ now >= lease.until)
    /\ lease' = [NoLease EXCEPT !.holder = p, !.until = now + LeaseTime]
    /\ pc' = [pc EXCEPT ![p] = "read"]
    /\ UNCHANGED <<now, created, log, asked, call, signed, answers>>

(* The call ends without a result: a refused lease, a failed policy or        *)
(* verification call, a dead process.                                         *)
Abandon(p) ==
    /\ pc[p] \in {"acquire", "examine", "return"}
    /\ Return(p)
    /\ UNCHANGED <<now, created, log, lease, asked, signed, answers>>

(* current_state(): read and replay. *)
ReadState(p) ==
    /\ pc[p] = "read" /\ call[p].phase = "state"
    /\ Active(p) /\ Len(log) > 0
    /\ Goto(p, "release", [call[p] EXCEPT !.seen = Len(log)])
    /\ UNCHANGED <<now, created, log, lease, asked, signed, answers>>

\* Fault: what issue() examined before is not checked again under the lease.
MayAppendAsExamined(p) == Open(call[p].kind) /\ Len(log) < MaxRecords

(* append() and replay(): expected sequence, legal transition, open window,   *)
(* room.                                                                      *)
MayAppend(p) ==
    LET c == call[p] IN
    /\ IF c.kind = "genesis"
       THEN Len(log) = 0
       ELSE Len(log) = c.expected + 1 /\ Legal(Len(log), NewRecord(p), now)
    /\ Open(c.kind)
    /\ Len(log) < MaxRecords

(* append() up to the storage call.  Nobody else can append while the lease   *)
(* is active, and the storage refuses it once it is not, so reading,          *)
(* validating and sending are one step; the block lands in a later one.       *)
Send(p) ==
    /\ pc[p] = "read" /\ call[p].phase = "append"
    /\ Active(p) /\ MayAppend(p)
    /\ lease' = [lease EXCEPT !.wire = NewRecord(p), !.offset = Len(log)]
    /\ Goto(p, "reply", [call[p] EXCEPT !.seen = Len(log), !.clock = 0, !.expected = 0])
    /\ UNCHANGED <<now, created, log, asked, signed, answers>>

(* The answer arrives, the read-back agrees and nothing expired meanwhile. *)
Confirm(p) ==
    LET n == call[p].seen + 1 IN
    /\ pc[p] = "reply"
    /\ Active(p) /\ Len(log) = n
    /\ Open(call[p].kind)
    /\ call[p].kind # "family_preserved" =>
         \A i \in 1 .. n : i > n - 3 /\ log[i].kind \in Admission => Fresh(log[i], now)
    /\ pc' = [pc EXCEPT ![p] = "release"]
    /\ UNCHANGED <<now, created, log, lease, asked, call, signed, answers>>

(* _release(): the lease is free again, or the call fails and it runs out. *)
ReleaseLease(p) == lease.holder = p /\ lease' = NoLease

(* Any step under the lease raises: bad history, refused event, lost answer,  *)
(* late commit, a release that fails.  The finally clause still tries to      *)
(* release; a process that dies does not.                                     *)
Fail(p) ==
    /\ pc[p] \in {"read", "reply", "release"}
    /\ ReleaseLease(p) \/ UNCHANGED lease
    /\ Return(p)
    /\ UNCHANGED <<now, created, log, asked, signed, answers>>

(* The call succeeded and so does the release: back to issue(), or done. *)
Release(p) ==
    /\ pc[p] = "release"
    /\ ReleaseLease(p)
    /\ IF call[p].kind = "training_grant"
       THEN Goto(p, IF call[p].phase = "state" THEN "examine" ELSE "return", call[p])
       ELSE Return(p)
    /\ UNCHANGED <<now, created, log, asked, signed, answers>>

Answer(p, e) ==
    /\ answers' = answers \cup {[request |-> call[p].request, envelope |-> e]}
    /\ Return(p)

\* Fault: the request of a committed grant is not compared.
RecoverForAnyone(p) ==
    LET r == call[p].request IN
    /\ pc[p] = "examine"
    /\ \E i \in Grants(call[p].seen) :
         /\ ~ Preserved(call[p].seen)
         /\ asked[r].at <= call[p].clock /\ call[p].clock <= asked[r].at + Recovery
         /\ call[p].clock + Lead <= Deadline
         /\ Answer(p, log[i].envelope)
    /\ UNCHANGED <<now, created, log, lease, asked, signed>>

(* issue() finds the grant committed: only its own request may have it back. *)
Recover(p) ==
    LET r == call[p].request IN
    /\ pc[p] = "examine"
    /\ \E i \in Grants(call[p].seen) :
         /\ log[i].envelope.request = r
         /\ ~ Preserved(call[p].seen)
         /\ asked[r].at <= call[p].clock /\ call[p].clock <= asked[r].at + Recovery
         /\ call[p].clock + Lead <= Deadline
         /\ Answer(p, log[i].envelope)
    /\ UNCHANGED <<now, created, log, lease, asked, signed>>

(* issue() finds no grant: live verification, then a new envelope is signed   *)
(* under the clock read afterwards.                                           *)
Sign(p) ==
    LET r == call[p].request IN
    /\ pc[p] = "examine"
    /\ Grants(call[p].seen) = {}
    /\ call[p].clock <= asked[r].at + Window
    /\ now <= asked[r].at + Window
    /\ now + Lead <= Deadline
    /\ signed < MaxEnvelopes
    /\ signed' = signed + 1
    /\ Goto(p, "acquire",
            [call[p] EXCEPT !.phase = "append", !.seen = 0, !.clock = 0,
                !.envelope = [request |-> r, id |-> signed + 1, issued |-> now]])
    /\ UNCHANGED <<now, created, log, lease, asked, answers>>

(* issue() after append(): the clock is read once more. *)
Deliver(p) ==
    /\ pc[p] = "return"
    /\ now <= asked[call[p].request].at + Window
    /\ now + Lead <= Deadline
    /\ Answer(p, call[p].envelope)
    /\ UNCHANGED <<now, created, log, lease, asked, signed>>

ProcessStep(p) ==
    \/ Initialize(p)
    \/ \E kind \in Admission \cup {"family_preserved"} : AppendEvent(p, kind)
    \/ \E r \in Request : Issue(p, r)
    \/ Acquire(p) \/ Abandon(p) \/ ReadState(p) \/ Send(p) \/ Confirm(p) \/ Fail(p)
    \/ Release(p) \/ Recover(p) \/ Sign(p) \/ Deliver(p)

Next ==
    \/ Tick \/ Land
    \/ \E r \in Request : Ask(r)
    \/ \E p \in Process : ProcessStep(p)

Spec == Init /\ [][Next]_vars

-----------------------------------------------------------------------------
(* Whatever answers were lost, appends landed late or leases ran out, every   *)
(* envelope that leaves the controller is the only grant of the ledger and    *)
(* goes to the request it was signed for.                                     *)
AnswersAreTheGrant ==
    \A a \in answers :
        /\ a.request = a.envelope.request
        /\ \E i \in 1 .. Len(log) :
             Grants(Len(log)) = {i} /\ log[i].envelope = a.envelope
=============================================================================
