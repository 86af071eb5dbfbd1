---------------------------- MODULE LedgerProofs ----------------------------
(* Theorems about ControllerLedger for any number of processes, requests,     *)
(* envelopes and records, and about the training run composed with it.        *)
EXTENDS CosmoTraining, TLAPS

Busy(p) == pc[p] # "idle"
GrantCall(p) == call[p].kind = "training_grant"
Committed(e) == \E i \in Grants(Len(log)) : log[i].envelope = e

\* A call has its locals, and issue() appends the envelope it signed for its request.
FrameFits(label, c, n) ==
    /\ c \in Call
    /\ c.kind = "training_grant" => c.request \in Request
    /\ c.phase = "append" /\ c.kind = "training_grant" =>
         c.envelope \in Envelope /\ c.envelope.request = c.request
    /\ label = "examine" => c.phase = "state" /\ c.kind = "training_grant"
    /\ label = "reply" => c.phase = "append"
    /\ label = "return" => c.phase = "append" /\ c.kind = "training_grant"
    /\ c.seen <= n

FramesFit == \A p \in Process : Busy(p) => FrameFits(pc[p], call[p], Len(log))

OneGrant == \A i, k \in Grants(Len(log)) : i = k
GrantsAreSigned == \A i \in Grants(Len(log)) : log[i].envelope \in Envelope

\* The append under way fits the end of the blob, and is the first grant if it is one.
WireFits ==
    lease.wire # None =>
        /\ lease.offset = Len(log) /\ Len(log) < MaxRecords
        /\ lease.wire.kind = "training_grant" =>
             Grants(Len(log)) = {} /\ lease.wire.envelope \in Envelope

\* The record that a call appends.
RecordOf(r, c) ==
    r.kind = c.kind /\ (c.kind = "training_grant" => r.envelope = c.envelope)

\* A sender that still holds the lease: its append is under way or is the last record.
RepliesMatch ==
    \A p \in Process : pc[p] = "reply" /\ lease.holder = p =>
        \/ /\ lease.wire # None /\ lease.offset = call[p].seen
           /\ RecordOf(lease.wire, call[p])
        \/ /\ lease.wire = None /\ Len(log) = call[p].seen + 1
           /\ RecordOf(log[Len(log)], call[p])

\* issue() comes back from a successful append only with its envelope committed.
SuccessIsCommitted ==
    \A p \in Process :
        pc[p] \in {"release", "return"} /\ GrantCall(p) /\ call[p].phase = "append" =>
            Committed(call[p].envelope)

AnswersAreCommitted ==
    \A a \in answers : a.request = a.envelope.request /\ Committed(a.envelope)

\* The inductive invariant.
LInv ==
    /\ LedgerTypeOK
    /\ FramesFit
    /\ OneGrant
    /\ GrantsAreSigned
    /\ WireFits
    /\ RepliesMatch
    /\ SuccessIsCommitted
    /\ AnswersAreCommitted

Label == {"idle", "acquire", "read", "reply", "release", "examine", "return"}

-----------------------------------------------------------------------------
(* Steps that leave the blob and the lease alone. *)

(* A process that moves on with fitting locals keeps every frame fitting. *)
LEMMA GotoFits ==
    ASSUME LInv, NEW p \in Process, NEW label \in Label, NEW c,
           Goto(p, label, c), FrameFits(label, c, Len(log)), UNCHANGED log
    PROVE  /\ FramesFit'
           /\ pc' \in [Process -> Label]
           /\ call' \in [Process -> Call \cup {None}]
  BY DEF LInv, LedgerTypeOK, Label, FramesFit, FrameFits, Busy, Goto

(* So does one that ends its call. *)
LEMMA ReturnFits ==
    ASSUME LInv, NEW p \in Process, Return(p), UNCHANGED log
    PROVE  /\ FramesFit'
           /\ pc' \in [Process -> Label]
           /\ call' \in [Process -> Call \cup {None}]
  BY DEF LInv, LedgerTypeOK, Label, FramesFit, FrameFits, Busy, Return

(* A step that leaves the log alone keeps what is said of the log. *)
LEMMA LogStays ==
    ASSUME LInv, UNCHANGED log
    PROVE  /\ OneGrant' /\ GrantsAreSigned'
           /\ \A e : Committed(e)' <=> Committed(e)
  BY DEF LInv, OneGrant, GrantsAreSigned, Committed, Grants, IsGrant

(* A step of one process that touches neither log nor lease nor answers, does *)
(* not enter "reply", and has its envelope committed if it counts on it.      *)
LEMMA QuietStep ==
    ASSUME LInv, NEW p \in Process,
           UNCHANGED <<log, lease, answers>>,
           \A q \in Process \ {p} : pc'[q] = pc[q] /\ call'[q] = call[q],
           pc'[p] # "reply",
           pc'[p] \in {"release", "return"} /\ call'[p].kind = "training_grant"
             /\ call'[p].phase = "append" => Committed(call'[p].envelope)
    PROVE  /\ OneGrant' /\ GrantsAreSigned' /\ WireFits'
           /\ RepliesMatch' /\ SuccessIsCommitted' /\ AnswersAreCommitted'
  <1>1. OneGrant' /\ GrantsAreSigned' /\ \A e : Committed(e)' <=> Committed(e)
    BY LogStays
  <1>2. WireFits'
    BY DEF LInv, WireFits, Grants, IsGrant
  <1>3. RepliesMatch'
    BY DEF LInv, RepliesMatch
  <1>4. SuccessIsCommitted'
    BY <1>1 DEF LInv, SuccessIsCommitted, GrantCall
  <1>5. AnswersAreCommitted'
    BY <1>1 DEF LInv, AnswersAreCommitted
  <1> QED BY <1>1, <1>2, <1>3, <1>4, <1>5

(* What Goto and Return leave of the other processes. *)
LEMMA OthersStay ==
    ASSUME LInv, NEW p \in Process, NEW label, NEW c, Goto(p, label, c)
    PROVE  /\ pc'[p] = label /\ call'[p] = c
           /\ \A q \in Process \ {p} : pc'[q] = pc[q] /\ call'[q] = call[q]
  BY DEF LInv, LedgerTypeOK, Goto

\* A call that returns leaves the other calls as they were.
LEMMA OthersStayOnReturn ==
    ASSUME LInv, NEW p \in Process, Return(p)
    PROVE  /\ pc'[p] = "idle" /\ call'[p] = None
           /\ \A q \in Process \ {p} : pc'[q] = pc[q] /\ call'[q] = call[q]
  BY DEF LInv, LedgerTypeOK, Return

-----------------------------------------------------------------------------
\* The invariant of the ledger holds of the empty container.
LEMMA LedgerInitially == Init => LInv
  <1> SUFFICES ASSUME Init PROVE LInv
    OBVIOUS
  <1>1. LedgerTypeOK
    <2>1. log \in Seq(Record) /\ Len(log) <= MaxRecords
      BY LedgerAssumption DEF Init
    <2>2. lease \in [holder : Process \cup {None}, until : 0 .. MaxTime + LeaseTime,
                     wire : Record \cup {None}, offset : 0 .. MaxRecords]
      BY LedgerAssumption DEF Init, NoLease
    <2>3. now \in Time /\ signed \in 0 .. MaxEnvelopes
      BY LedgerAssumption DEF Init, Time
    <2>4. /\ asked \in [Request -> [at : Time, sequence : 0 .. MaxRecords] \cup {None}]
          /\ pc \in [Process -> Label]
          /\ call \in [Process -> Call \cup {None}]
          /\ answers \subseteq [request : Request, envelope : Envelope]
          /\ created \in BOOLEAN
      BY DEF Init, Label
    <2> QED BY <2>1, <2>2, <2>3, <2>4 DEF LedgerTypeOK, Label
  <1>2. Len(log) = 0 /\ Grants(Len(log)) = {}
    BY DEF Init, Grants
  <1> QED
    BY <1>1, <1>2, LedgerAssumption
    DEF Init, LInv, FramesFit, Busy, OneGrant, GrantsAreSigned, WireFits, NoLease,
        RepliesMatch, SuccessIsCommitted, AnswersAreCommitted

(* The steps of the clock and of a guest that signs its request. *)
LEMMA TickKeeps == LInv /\ Tick => LInv'
  <1> SUFFICES ASSUME LInv, Tick PROVE LInv'
    OBVIOUS
  <1>1. LedgerTypeOK'
    BY LedgerAssumption DEF LInv, LedgerTypeOK, Tick, Time
  <1>2. FramesFit'
    BY DEF LInv, Tick, FramesFit, Busy
  <1>3. OneGrant' /\ GrantsAreSigned' /\ \A e : Committed(e)' <=> Committed(e)
    BY LogStays DEF Tick
  <1>4. WireFits' /\ RepliesMatch'
    BY DEF LInv, Tick, WireFits, RepliesMatch, Grants, IsGrant
  <1>5. SuccessIsCommitted' /\ AnswersAreCommitted'
    BY <1>3 DEF LInv, Tick, SuccessIsCommitted, AnswersAreCommitted, GrantCall
  <1> QED BY <1>1, <1>2, <1>3, <1>4, <1>5 DEF LInv

\* A request that asks keeps the invariant.
LEMMA AskKeeps == ASSUME LInv, NEW r \in Request, Ask(r) PROVE LInv'
  <1>1. LedgerTypeOK'
    <2>1. now \in Time /\ Len(log) - 1 \in 0 .. MaxRecords
      BY LedgerAssumption DEF LInv, LedgerTypeOK, Ask
    <2> QED BY <2>1 DEF LInv, LedgerTypeOK, Ask
  <1>2. FramesFit'
    BY DEF LInv, Ask, FramesFit, Busy
  <1>3. OneGrant' /\ GrantsAreSigned' /\ \A e : Committed(e)' <=> Committed(e)
    BY LogStays DEF Ask
  <1>4. WireFits' /\ RepliesMatch'
    BY DEF LInv, Ask, WireFits, RepliesMatch, Grants, IsGrant
  <1>5. SuccessIsCommitted' /\ AnswersAreCommitted'
    BY <1>3 DEF LInv, Ask, SuccessIsCommitted, AnswersAreCommitted, GrantCall
  <1> QED BY <1>1, <1>2, <1>3, <1>4, <1>5 DEF LInv

(* A call begins, on evidence of time t. *)
LEMMA EnterKeeps ==
    ASSUME LInv, NEW p \in Process, NEW kind \in Kind, NEW phase \in {"state", "append"},
           NEW request \in Request \cup {None}, NEW t \in Time, NEW expected \in 0 .. MaxRecords,
           Goto(p, "acquire",
                [kind |-> kind, phase |-> phase, request |-> request, clock |-> t,
                 expected |-> expected, seen |-> 0, envelope |-> None]),
           kind = "training_grant" => phase = "state" /\ request \in Request,
           created' \in BOOLEAN,
           UNCHANGED <<now, log, lease, asked, signed, answers>>
    PROVE  LInv'
  <1> DEFINE c == [kind |-> kind, phase |-> phase, request |-> request, clock |-> t,
                   expected |-> expected, seen |-> 0, envelope |-> None]
  <1>1. Goto(p, "acquire", c)
    OBVIOUS
  <1>2. FrameFits("acquire", c, Len(log))
    <2>1. c \in Call
      BY LedgerAssumption DEF Call
    <2>2. Len(log) \in Nat
      BY DEF LInv, LedgerTypeOK
    <2> QED BY <2>1, <2>2 DEF FrameFits
  <1> HIDE DEF c
  <1>3. FramesFit' /\ pc' \in [Process -> Label] /\ call' \in [Process -> Call \cup {None}]
    BY <1>1, <1>2, GotoFits DEF Label
  <1>4. LedgerTypeOK'
    BY <1>3 DEF LInv, LedgerTypeOK, Label
  <1>5. /\ pc'[p] = "acquire"
        /\ \A q \in Process \ {p} : pc'[q] = pc[q] /\ call'[q] = call[q]
    BY <1>1, OthersStay
  <1> QED BY <1>3, <1>4, <1>5, QuietStep DEF LInv

\* So does a call that begins.
LEMMA BeginKeeps ==
    ASSUME LInv, NEW p \in Process, NEW kind \in Kind, NEW phase \in {"state", "append"},
           NEW request \in Request \cup {None}, NEW expected \in 0 .. MaxRecords,
           Begin(p, kind, phase, request, expected),
           kind = "training_grant" => phase = "state" /\ request \in Request,
           created' \in BOOLEAN,
           UNCHANGED <<now, log, lease, asked, signed, answers>>
    PROVE  LInv'
  BY EnterKeeps DEF Begin, LInv, LedgerTypeOK

\* So does the initialisation.
LEMMA InitializeKeeps == ASSUME LInv, NEW p \in Process, Initialize(p) PROVE LInv'
  <1>1. CASE Begin(p, "genesis", "append", None, 0)
    <2>1. 0 \in 0 .. MaxRecords
      BY LedgerAssumption
    <2> QED BY <1>1, <2>1, BeginKeeps DEF Initialize, Kind
  <1>2. CASE UNCHANGED <<pc, call>>
    <2>1. LedgerTypeOK' /\ FramesFit'
      BY <1>2 DEF Initialize, LInv, LedgerTypeOK, FramesFit, Busy
    <2>2. OneGrant' /\ GrantsAreSigned' /\ \A e : Committed(e)' <=> Committed(e)
      BY LogStays DEF Initialize
    <2>3. WireFits' /\ RepliesMatch'
      BY <1>2 DEF LInv, Initialize, WireFits, RepliesMatch, Grants, IsGrant
    <2>4. SuccessIsCommitted' /\ AnswersAreCommitted'
      BY <1>2, <2>2 DEF LInv, Initialize, SuccessIsCommitted, AnswersAreCommitted, GrantCall
    <2> QED BY <2>1, <2>2, <2>3, <2>4 DEF LInv
  <1> QED BY <1>1, <1>2 DEF Initialize

\* So does a call that appends an event.
LEMMA AppendEventKeeps ==
    ASSUME LInv, NEW p \in Process, NEW kind \in Admission \cup {"family_preserved"},
           AppendEvent(p, kind)
    PROVE  LInv'
  <1>1. Len(log) - 1 \in 0 .. MaxRecords
    BY LedgerAssumption DEF LInv, LedgerTypeOK, AppendEvent
  <1> QED BY <1>1, BeginKeeps DEF AppendEvent, Kind, Admission, LInv, LedgerTypeOK

\* So does a call that issues.
LEMMA IssueKeeps ==
    ASSUME LInv, NEW p \in Process, NEW r \in Request, Issue(p, r)
    PROVE  LInv'
  <1>1. asked[r].sequence \in 0 .. MaxRecords
    BY DEF LInv, LedgerTypeOK, Issue
  <1> QED BY <1>1, BeginKeeps DEF Issue, Kind, LInv, LedgerTypeOK

\* So does a call that is given up.
LEMMA AbandonKeeps == ASSUME LInv, NEW p \in Process, Abandon(p) PROVE LInv'
  <1>1. FramesFit' /\ pc' \in [Process -> Label] /\ call' \in [Process -> Call \cup {None}]
    BY ReturnFits DEF Abandon
  <1>2. LedgerTypeOK'
    BY <1>1 DEF Abandon, LInv, LedgerTypeOK, Label
  <1>3. pc'[p] = "idle" /\ \A q \in Process \ {p} : pc'[q] = pc[q] /\ call'[q] = call[q]
    BY OthersStayOnReturn DEF Abandon
  <1>4. UNCHANGED <<log, lease, answers>>
    BY DEF Abandon
  <1> QED BY <1>1, <1>2, <1>3, <1>4, QuietStep DEF LInv

\* So does reading the ledger.
LEMMA ReadStateKeeps == ASSUME LInv, NEW p \in Process, ReadState(p) PROVE LInv'
  <1> DEFINE c == [call[p] EXCEPT !.seen = Len(log)]
  <1>1. Goto(p, "release", c) /\ c.phase = "state" /\ FrameFits("release", c, Len(log))
    <2>1. FrameFits("read", call[p], Len(log)) /\ call[p].phase = "state"
      BY DEF LInv, FramesFit, Busy, ReadState
    <2>2. Len(log) \in 0 .. MaxRecords
      BY DEF LInv, LedgerTypeOK
    <2> QED BY <2>1, <2>2 DEF ReadState, FrameFits, Call
  <1> HIDE DEF c
  <1>2. FramesFit' /\ pc' \in [Process -> Label] /\ call' \in [Process -> Call \cup {None}]
    BY <1>1, GotoFits DEF ReadState, Label
  <1>3. LedgerTypeOK'
    BY <1>2 DEF ReadState, LInv, LedgerTypeOK, Label
  <1>4. /\ pc'[p] = "release" /\ call'[p].phase = "state"
        /\ \A q \in Process \ {p} : pc'[q] = pc[q] /\ call'[q] = call[q]
    BY <1>1, OthersStay
  <1>5. UNCHANGED <<log, lease, answers>>
    BY DEF ReadState
  <1> QED BY <1>2, <1>3, <1>4, <1>5, QuietStep DEF LInv

\* So does signing.
LEMMA SignKeeps == ASSUME LInv, NEW p \in Process, Sign(p) PROVE LInv'
  <1> DEFINE e == [request |-> call[p].request, id |-> signed + 1, issued |-> now]
             c == [call[p] EXCEPT !.phase = "append", !.seen = 0, !.clock = 0, !.envelope = e]
  <1>1. Goto(p, "acquire", c) /\ signed' \in 0 .. MaxEnvelopes
    BY LedgerAssumption DEF Sign, LInv, LedgerTypeOK
  <1>2. FrameFits("acquire", c, Len(log))
    <2>1. FrameFits("examine", call[p], Len(log)) /\ pc[p] = "examine"
      BY DEF LInv, FramesFit, Busy, Sign
    <2>2. call[p] \in Call /\ call[p].request \in Request /\ call[p].kind = "training_grant"
      BY <2>1 DEF FrameFits
    <2>3. e \in Envelope
      BY <2>2, LedgerAssumption DEF Sign, LInv, LedgerTypeOK, Envelope
    <2>4. 0 \in Time /\ 0 \in 0 .. MaxRecords /\ 0 <= Len(log)
      BY LedgerAssumption DEF Time, LInv, LedgerTypeOK
    <2> HIDE DEF e
    <2>5. c \in Call
      BY <2>2, <2>3, <2>4 DEF Call
    <2>6. /\ c.kind = "training_grant" /\ c.phase = "append" /\ c.seen = 0
          /\ c.request = call[p].request /\ c.envelope = e
      BY <2>2 DEF Call
    <2>7. e.request = call[p].request
      BY DEF e
    <2> QED BY <2>2, <2>3, <2>4, <2>5, <2>6, <2>7 DEF FrameFits
  <1> HIDE DEF e, c
  <1>3. FramesFit' /\ pc' \in [Process -> Label] /\ call' \in [Process -> Call \cup {None}]
    BY <1>1, <1>2, GotoFits DEF Sign, Label
  <1>4. LedgerTypeOK'
    BY <1>1, <1>3 DEF Sign, LInv, LedgerTypeOK, Label
  <1>5. /\ pc'[p] = "acquire"
        /\ \A q \in Process \ {p} : pc'[q] = pc[q] /\ call'[q] = call[q]
    BY <1>1, OthersStay
  <1>6. UNCHANGED <<log, lease, answers>>
    BY DEF Sign
  <1> QED BY <1>3, <1>4, <1>5, <1>6, QuietStep DEF LInv

(* A confirmed append is the last record of the log. *)
LEMMA ConfirmKeeps == ASSUME LInv, NEW p \in Process, Confirm(p) PROVE LInv'
  <1>1. /\ pc[p] = "reply" /\ FrameFits("reply", call[p], Len(log))
        /\ lease.holder = p /\ Len(log) = call[p].seen + 1
    BY DEF LInv, FramesFit, Busy, Confirm, Active
  <1>2. call[p] \in Call /\ call[p].phase = "append" /\ Len(log) \in Nat
    BY <1>1 DEF FrameFits, LInv, LedgerTypeOK
  <1>3. RecordOf(log[Len(log)], call[p])
    <2>1. ~ (lease.wire # None /\ lease.offset = call[p].seen)
      BY <1>1, <1>2 DEF LInv, WireFits, Call
    <2> QED BY <1>1, <2>1 DEF LInv, RepliesMatch
  <1>4. call[p].kind = "training_grant" => Committed(call[p].envelope)
    <2>1. Len(log) \in 1 .. Len(log)
      BY <1>1, <1>2 DEF Call
    <2> QED BY <1>3, <2>1 DEF RecordOf, Committed, Grants, IsGrant
  <1>5. Goto(p, "release", call[p]) /\ UNCHANGED <<log, lease, answers>>
    BY DEF Confirm, Goto, LInv, LedgerTypeOK
  <1>6. FrameFits("release", call[p], Len(log))
    BY <1>1 DEF FrameFits
  <1>7. FramesFit' /\ pc' \in [Process -> Label] /\ call' \in [Process -> Call \cup {None}]
    BY <1>5, <1>6, GotoFits DEF Label
  <1>8. LedgerTypeOK'
    BY <1>7 DEF Confirm, LInv, LedgerTypeOK, Label
  <1>9. /\ pc'[p] = "release" /\ call'[p] = call[p]
        /\ \A q \in Process \ {p} : pc'[q] = pc[q] /\ call'[q] = call[q]
    BY <1>5, OthersStay
  <1> QED BY <1>4, <1>5, <1>7, <1>8, <1>9, QuietStep DEF LInv

-----------------------------------------------------------------------------
(* Steps that change the lease. *)

(* A lease that was just taken, or given up, has nothing under way. *)
LEMMA FreshLease ==
    ASSUME LInv, NEW p \in Process,
           UNCHANGED <<log, answers>>,
           lease'.wire = None,
           lease'.holder \in {p, None} \/ lease' = lease,
           \A q \in Process \ {p} : pc'[q] = pc[q] /\ call'[q] = call[q],
           pc'[p] # "reply",
           pc'[p] \in {"release", "return"} /\ call'[p].kind = "training_grant"
             /\ call'[p].phase = "append" => Committed(call'[p].envelope)
    PROVE  /\ OneGrant' /\ GrantsAreSigned' /\ WireFits'
           /\ RepliesMatch' /\ SuccessIsCommitted' /\ AnswersAreCommitted'
  <1>1. OneGrant' /\ GrantsAreSigned' /\ \A e : Committed(e)' <=> Committed(e)
    BY LogStays
  <1>2. WireFits'
    BY DEF WireFits
  <1>3. RepliesMatch'
    BY LedgerAssumption DEF LInv, RepliesMatch
  <1>4. SuccessIsCommitted'
    BY <1>1 DEF LInv, SuccessIsCommitted, GrantCall
  <1>5. AnswersAreCommitted'
    BY <1>1 DEF LInv, AnswersAreCommitted
  <1> QED BY <1>1, <1>2, <1>3, <1>4, <1>5

\* So does taking the lease.
LEMMA AcquireKeeps == ASSUME LInv, NEW p \in Process, Acquire(p) PROVE LInv'
  <1>1. FrameFits("acquire", call[p], Len(log))
    BY DEF LInv, FramesFit, Busy, Acquire
  <1>2. Goto(p, "read", call[p]) /\ UNCHANGED <<log, answers>>
    BY DEF Acquire, Goto, LInv, LedgerTypeOK
  <1>3. FrameFits("read", call[p], Len(log))
    BY <1>1 DEF FrameFits
  <1>4. FramesFit' /\ pc' \in [Process -> Label] /\ call' \in [Process -> Call \cup {None}]
    BY <1>2, <1>3, GotoFits DEF Label
  <1>5. /\ lease' \in [holder : Process \cup {None}, until : 0 .. MaxTime + LeaseTime,
                       wire : Record \cup {None}, offset : 0 .. MaxRecords]
        /\ lease'.holder = p /\ lease'.wire = None
    <2>1. now + LeaseTime \in 0 .. MaxTime + LeaseTime
      BY LedgerAssumption DEF LInv, LedgerTypeOK, Time
    <2>2. 0 \in 0 .. MaxRecords
      BY LedgerAssumption
    <2>3. lease' = [holder |-> p, until |-> now + LeaseTime, wire |-> None, offset |-> 0]
      BY DEF Acquire, NoLease
    <2> QED BY <2>1, <2>2, <2>3
  <1>6. LedgerTypeOK'
    BY <1>4, <1>5 DEF Acquire, LInv, LedgerTypeOK, Label
  <1>7. /\ pc'[p] = "read"
        /\ \A q \in Process \ {p} : pc'[q] = pc[q] /\ call'[q] = call[q]
    BY <1>2, OthersStay
  <1> QED BY <1>2, <1>4, <1>5, <1>6, <1>7, FreshLease DEF LInv

(* An append that is sent: the only step that puts a record under way. *)
LEMMA SendKeeps == ASSUME LInv, NEW p \in Process, Send(p) PROVE LInv'
  <1> DEFINE r == NewRecord(p)
             c == [call[p] EXCEPT !.seen = Len(log), !.clock = 0, !.expected = 0]
  <1>1. FrameFits("read", call[p], Len(log)) /\ call[p].phase = "append"
    BY DEF LInv, FramesFit, Busy, Send
  <1>2. call[p] \in Call /\ Len(log) \in 0 .. MaxRecords /\ Len(log) \in Nat
    BY <1>1 DEF FrameFits, LInv, LedgerTypeOK
  <1>3. r \in Record /\ r.kind = call[p].kind
    <2>1. /\ call[p].kind \in Kind /\ call[p].envelope \in Envelope \cup {None}
          /\ call[p].clock \in Time
      BY <1>2 DEF Call
    <2>2. /\ 0 \in 0 .. MaxTime + Validity
          /\ call[p].clock + Validity \in 0 .. MaxTime + Validity
      BY <2>1, LedgerAssumption DEF Time
    <2> QED BY <2>1, <2>2 DEF NewRecord, EventRecord, Record
  <1>4. r # None
    BY <1>3, NoneIsNoRecord
  <1>5. call[p].kind = "training_grant" => r.envelope = call[p].envelope
    BY DEF NewRecord
  <1>6. Len(log) < MaxRecords /\ (call[p].kind = "training_grant" => Grants(Len(log)) = {})
    BY <1>3, <1>5 DEF Send, MayAppend, Legal
  <1>7. /\ c \in Call /\ FrameFits("reply", c, Len(log))
        /\ c.seen = Len(log) /\ c.kind = call[p].kind /\ c.envelope = call[p].envelope
    <2>1. 0 \in Time /\ 0 \in 0 .. MaxRecords
      BY LedgerAssumption DEF Time
    <2>2. c \in Call
      BY <1>2, <2>1 DEF Call
    <2>3. /\ c.kind = call[p].kind /\ c.phase = call[p].phase /\ c.seen = Len(log)
          /\ c.request = call[p].request /\ c.envelope = call[p].envelope
      BY <1>2 DEF Call
    <2> HIDE DEF c
    <2> QED BY <1>1, <1>2, <2>2, <2>3 DEF FrameFits
  <1>8. Goto(p, "reply", c) /\ UNCHANGED <<log, answers>>
    BY DEF Send
  <1>9. /\ lease' \in [holder : Process \cup {None}, until : 0 .. MaxTime + LeaseTime,
                       wire : Record \cup {None}, offset : 0 .. MaxRecords]
        /\ lease'.holder = p /\ lease'.wire = r /\ lease'.offset = Len(log)
    <2> HIDE DEF r
    <2>1. lease' = [lease EXCEPT !.wire = r, !.offset = Len(log)] /\ lease.holder = p
      BY DEF Send, Active, r
    <2> QED BY <1>2, <1>3, <2>1 DEF LInv, LedgerTypeOK
  <1> HIDE DEF r, c
  <1>10. FramesFit' /\ pc' \in [Process -> Label] /\ call' \in [Process -> Call \cup {None}]
    BY <1>7, <1>8, GotoFits DEF Label
  <1>11. LedgerTypeOK'
    BY <1>9, <1>10 DEF Send, LInv, LedgerTypeOK, Label
  <1>12. /\ pc'[p] = "reply" /\ call'[p] = c
         /\ \A q \in Process \ {p} : pc'[q] = pc[q] /\ call'[q] = call[q]
    BY <1>8, OthersStay
  <1>13. OneGrant' /\ GrantsAreSigned' /\ \A e : Committed(e)' <=> Committed(e)
    BY <1>8, LogStays
  <1>14. WireFits'
    <2>1. r.kind = "training_grant" => r.envelope \in Envelope
      BY <1>1, <1>3, <1>5 DEF FrameFits
    <2>2. Grants(Len(log))' = Grants(Len(log))
      BY <1>8 DEF Grants, IsGrant
    <2> QED BY <1>3, <1>6, <1>8, <1>9, <2>1, <2>2 DEF WireFits
  <1>15. RepliesMatch'
    BY <1>3, <1>4, <1>5, <1>7, <1>9, <1>12 DEF LInv, RepliesMatch, RecordOf
  <1>16. SuccessIsCommitted' /\ AnswersAreCommitted'
    BY <1>8, <1>12, <1>13 DEF LInv, SuccessIsCommitted, AnswersAreCommitted, GrantCall
  <1> QED BY <1>10, <1>11, <1>13, <1>14, <1>15, <1>16 DEF LInv

\* So does an exception under the lease.
LEMMA FailKeeps == ASSUME LInv, NEW p \in Process, Fail(p) PROVE LInv'
  <1>1. FramesFit' /\ pc' \in [Process -> Label] /\ call' \in [Process -> Call \cup {None}]
    BY ReturnFits DEF Fail
  <1>2. pc'[p] = "idle" /\ \A q \in Process \ {p} : pc'[q] = pc[q] /\ call'[q] = call[q]
    BY OthersStayOnReturn DEF Fail
  <1>3. UNCHANGED <<log, answers>>
    BY DEF Fail
  <1>4. CASE ReleaseLease(p)
    <2>1. lease'.wire = None /\ lease'.holder = None
      BY <1>4 DEF ReleaseLease, NoLease
    <2>2. LedgerTypeOK'
      BY <1>1, <1>4, LedgerAssumption
      DEF Fail, ReleaseLease, NoLease, LInv, LedgerTypeOK, Label
    <2> QED BY <1>1, <1>2, <1>3, <2>1, <2>2, FreshLease DEF LInv
  <1>5. CASE UNCHANGED lease
    <2>1. LedgerTypeOK'
      BY <1>1, <1>5 DEF Fail, LInv, LedgerTypeOK, Label
    <2> QED BY <1>1, <1>2, <1>3, <1>5, <2>1, QuietStep DEF LInv
  <1> QED BY <1>4, <1>5 DEF Fail

\* So does releasing the lease.
LEMMA ReleaseKeeps == ASSUME LInv, NEW p \in Process, Release(p) PROVE LInv'
  <1>1. lease' = NoLease /\ UNCHANGED <<log, answers>> /\ lease'.wire = None /\ lease'.holder = None
    BY DEF Release, ReleaseLease, NoLease
  <1>2. FrameFits("release", call[p], Len(log)) /\ pc[p] = "release"
    BY DEF LInv, FramesFit, Busy, Release
  <1>3. /\ FramesFit' /\ pc' \in [Process -> Label] /\ call' \in [Process -> Call \cup {None}]
        /\ \A q \in Process \ {p} : pc'[q] = pc[q] /\ call'[q] = call[q]
        /\ pc'[p] \in {"idle", "examine", "return"}
        /\ pc'[p] = "return" => call'[p] = call[p]
    <2>1. CASE call[p].kind = "training_grant" /\ call[p].phase = "state"
      <3>1. Goto(p, "examine", call[p])
        BY <2>1 DEF Release
      <3>2. FrameFits("examine", call[p], Len(log))
        BY <1>2, <2>1 DEF FrameFits
      <3> QED BY <1>1, <3>1, <3>2, GotoFits, OthersStay DEF Label
    <2>2. CASE call[p].kind = "training_grant" /\ call[p].phase # "state"
      <3>1. Goto(p, "return", call[p])
        BY <2>2 DEF Release
      <3>2. FrameFits("return", call[p], Len(log))
        BY <1>2, <2>2 DEF FrameFits, Call
      <3> QED BY <1>1, <3>1, <3>2, GotoFits, OthersStay DEF Label
    <2>3. CASE call[p].kind # "training_grant"
      <3>1. Return(p)
        BY <2>3 DEF Release
      <3> QED BY <1>1, <3>1, ReturnFits, OthersStayOnReturn
    <2> QED BY <2>1, <2>2, <2>3
  <1>4. LedgerTypeOK'
    BY <1>1, <1>3, LedgerAssumption DEF Release, NoLease, LInv, LedgerTypeOK, Label
  <1>5. call[p].kind = "training_grant" /\ call[p].phase = "append" => Committed(call[p].envelope)
    BY <1>2 DEF LInv, SuccessIsCommitted, GrantCall
  <1> QED BY <1>1, <1>3, <1>4, <1>5, FreshLease DEF LInv

-----------------------------------------------------------------------------
(* Answers, and the block that lands. *)

(* An answer with a committed envelope of the request it answers. *)
LEMMA AnswerKeeps ==
    ASSUME LInv, NEW p \in Process, NEW e \in Envelope, Answer(p, e),
           e.request = call[p].request, Committed(e),
           UNCHANGED <<now, created, log, lease, asked, signed>>
    PROVE  LInv'
  <1>1. Return(p)
    BY DEF Answer
  <1>2. FramesFit' /\ pc' \in [Process -> Label] /\ call' \in [Process -> Call \cup {None}]
    BY <1>1, ReturnFits
  <1>3. pc'[p] = "idle" /\ \A q \in Process \ {p} : pc'[q] = pc[q] /\ call'[q] = call[q]
    BY <1>1, OthersStayOnReturn
  <1>4. e.request \in Request
    BY DEF Envelope
  <1>5. answers' = answers \cup {[request |-> e.request, envelope |-> e]}
    BY DEF Answer
  <1>6. LedgerTypeOK'
    BY <1>2, <1>4, <1>5 DEF LInv, LedgerTypeOK, Label
  <1>7. OneGrant' /\ GrantsAreSigned' /\ \A f : Committed(f)' <=> Committed(f)
    BY LogStays
  <1>8. WireFits' /\ RepliesMatch'
    BY <1>3 DEF LInv, WireFits, RepliesMatch, Grants, IsGrant
  <1>9. SuccessIsCommitted'
    BY <1>3, <1>7 DEF LInv, SuccessIsCommitted, GrantCall
  <1>10. AnswersAreCommitted'
    BY <1>5, <1>7 DEF LInv, AnswersAreCommitted
  <1> QED BY <1>2, <1>6, <1>7, <1>8, <1>9, <1>10 DEF LInv

\* So does the recovery of a grant.
LEMMA RecoverKeeps == ASSUME LInv, NEW p \in Process, Recover(p) PROVE LInv'
  <1>1. PICK i \in Grants(call[p].seen) :
          log[i].envelope.request = call[p].request /\ Answer(p, log[i].envelope)
    BY DEF Recover
  <1>2. FrameFits("examine", call[p], Len(log))
    BY DEF LInv, FramesFit, Busy, Recover
  <1>3. call[p].seen \in Nat /\ call[p].seen <= Len(log) /\ Len(log) \in Nat
    BY <1>2 DEF FrameFits, Call, LInv, LedgerTypeOK
  <1>4. i \in Grants(Len(log))
    BY <1>3 DEF Grants
  <1>5. log[i].envelope \in Envelope /\ Committed(log[i].envelope)
    BY <1>4 DEF LInv, GrantsAreSigned, Committed
  <1> QED BY <1>1, <1>5, AnswerKeeps DEF Recover

\* So does the delivery of an answer.
LEMMA DeliverKeeps == ASSUME LInv, NEW p \in Process, Deliver(p) PROVE LInv'
  <1>1. FrameFits("return", call[p], Len(log)) /\ pc[p] = "return"
    BY DEF LInv, FramesFit, Busy, Deliver
  <1>2. call[p].envelope \in Envelope /\ call[p].envelope.request = call[p].request
    BY <1>1 DEF FrameFits
  <1>3. Committed(call[p].envelope)
    BY <1>1 DEF LInv, SuccessIsCommitted, GrantCall, FrameFits
  <1> QED BY <1>2, <1>3, AnswerKeeps DEF Deliver

(* The record that lands is the last one; the others stay as they are. *)
LEMMA LandKeeps == ASSUME LInv, Land PROVE LInv'
  <1> DEFINE n == Len(log)
             r == lease.wire
  <1>1. log \in Seq(Record) /\ n \in Nat /\ r \in Record /\ n < MaxRecords
    BY DEF LInv, LedgerTypeOK, Land, WireFits
  <1>2. /\ log' = Append(log, r) /\ lease'.wire = None /\ lease'.holder = lease.holder
        /\ UNCHANGED <<pc, call, answers>>
    BY DEF Land, LInv, LedgerTypeOK
  <1>3. /\ log' \in Seq(Record) /\ Len(log') = n + 1
        /\ \A i \in 1 .. n : log'[i] = log[i]
        /\ log'[n + 1] = r
    BY <1>1, <1>2
  <1>4. Grants(Len(log))' = Grants(n) \cup (IF r.kind = "training_grant" THEN {n + 1} ELSE {})
    BY <1>1, <1>3 DEF Grants, IsGrant
  <1>5. Grants(n) \subseteq 1 .. n
    BY DEF Grants
  <1>6. r.kind = "training_grant" => Grants(n) = {} /\ r.envelope \in Envelope
    BY DEF Land, LInv, WireFits
  <1>7. n = lease.offset
    BY DEF Land
  <1>8. LedgerTypeOK'
    <2>1. lease' \in [holder : Process \cup {None}, until : 0 .. MaxTime + LeaseTime,
                      wire : Record \cup {None}, offset : 0 .. MaxRecords]
      BY DEF Land, LInv, LedgerTypeOK
    <2>2. Len(log') <= MaxRecords
      BY <1>1, <1>3, LedgerAssumption
    <2> QED BY <1>3, <2>1, <2>2 DEF Land, LInv, LedgerTypeOK
  <1> HIDE DEF n, r
  <1>9. FramesFit'
    <2>1. Len(log) = n /\ Len(log') = n + 1 /\ n \in Nat
      BY <1>1, <1>3 DEF n
    <2>2. ASSUME NEW p \in Process, Busy(p)' PROVE FrameFits(pc[p], call[p], n + 1)
      <3>1. FrameFits(pc[p], call[p], n)
        BY <1>2, <2>1, <2>2 DEF LInv, FramesFit, Busy
      <3>2. call[p].seen \in Nat
        BY <3>1 DEF FrameFits, Call
      <3> QED BY <2>1, <3>1, <3>2 DEF FrameFits
    <2> QED BY <1>2, <2>1, <2>2 DEF FramesFit
  <1>10. OneGrant'
    BY <1>4, <1>6 DEF LInv, OneGrant, n
  <1>11. GrantsAreSigned'
    BY <1>3, <1>4, <1>5, <1>6 DEF LInv, GrantsAreSigned, n
  <1>12. \A e : Committed(e) => Committed(e)'
    BY <1>3, <1>4, <1>5 DEF Committed, n
  <1>13. WireFits'
    BY <1>2 DEF WireFits
  <1>14. RepliesMatch'
    <2> SUFFICES ASSUME NEW p \in Process, pc[p] = "reply", lease.holder = p
                 PROVE  Len(log') = call[p].seen + 1 /\ RecordOf(log'[Len(log')], call[p])
      BY <1>2 DEF RepliesMatch
    <2>1. lease.offset = call[p].seen /\ RecordOf(lease.wire, call[p])
      BY DEF LInv, RepliesMatch, Land
    <2> QED BY <1>3, <1>7, <2>1 DEF r
  <1>15. SuccessIsCommitted' /\ AnswersAreCommitted'
    BY <1>2, <1>12 DEF LInv, SuccessIsCommitted, AnswersAreCommitted, GrantCall
  <1> QED BY <1>8, <1>9, <1>10, <1>11, <1>13, <1>14, <1>15 DEF LInv

-----------------------------------------------------------------------------
\* Every step of the ledger keeps the invariant.
LEMMA LedgerStep == LInv /\ [Next]_vars => LInv'
  <1> SUFFICES ASSUME LInv, [Next]_vars PROVE LInv'
    OBVIOUS
  <1>1. CASE Tick
    BY <1>1, TickKeeps
  <1>2. CASE Land
    BY <1>2, LandKeeps
  <1>3. CASE \E r \in Request : Ask(r)
    BY <1>3, AskKeeps
  <1>4. ASSUME NEW p \in Process, ProcessStep(p) PROVE LInv'
    <2>1. CASE Initialize(p)
      BY <2>1, InitializeKeeps
    <2>2. CASE \E kind \in Admission \cup {"family_preserved"} : AppendEvent(p, kind)
      BY <2>2, AppendEventKeeps
    <2>3. CASE \E r \in Request : Issue(p, r)
      BY <2>3, IssueKeeps
    <2>4. CASE Acquire(p) \/ Abandon(p) \/ ReadState(p)
      BY <2>4, AcquireKeeps, AbandonKeeps, ReadStateKeeps
    <2>5. CASE Send(p) \/ Confirm(p) \/ Fail(p) \/ Release(p)
      BY <2>5, SendKeeps, ConfirmKeeps, FailKeeps, ReleaseKeeps
    <2>6. CASE Recover(p) \/ Sign(p) \/ Deliver(p)
      BY <2>6, RecoverKeeps, SignKeeps, DeliverKeeps
    <2> QED BY <1>4, <2>1, <2>2, <2>3, <2>4, <2>5, <2>6 DEF ProcessStep
  <1>5. CASE UNCHANGED vars
    <2>1. LedgerTypeOK' /\ FramesFit'
      BY <1>5 DEF vars, LInv, LedgerTypeOK, FramesFit, Busy
    <2>2. OneGrant' /\ GrantsAreSigned' /\ \A e : Committed(e)' <=> Committed(e)
      BY <1>5, LogStays DEF vars
    <2>3. WireFits' /\ RepliesMatch'
      BY <1>5 DEF vars, LInv, WireFits, RepliesMatch, Grants, IsGrant
    <2>4. SuccessIsCommitted' /\ AnswersAreCommitted'
      BY <1>5, <2>2 DEF vars, LInv, SuccessIsCommitted, AnswersAreCommitted, GrantCall
    <2> QED BY <2>1, <2>2, <2>3, <2>4 DEF LInv
  <1> QED BY <1>1, <1>2, <1>3, <1>4, <1>5 DEF Next

(* Whatever answers were lost and whatever leases ran out, in every reachable *)
(* state the ledger, the lease, the locals of the calls and the answers fit   *)
(* together.                                                                  *)
THEOREM LedgerInvariance == Spec => []LInv
  BY LedgerInitially, LedgerStep, PTL DEF Spec

(* Every variable of the ledger and its callers keeps its type, and the blob  *)
(* never has more records than replay() accepts.                              *)
THEOREM LedgerTypeCorrect == Spec => []LedgerTypeOK
  <1>1. LInv => LedgerTypeOK
    BY DEF LInv
  <1> QED BY <1>1, LedgerInvariance, PTL

\* The invariant says that every answer is the grant.
LEMMA LedgerAnswers == LInv => AnswersAreTheGrant
  <1> SUFFICES ASSUME LInv, NEW a \in answers
               PROVE  /\ a.request = a.envelope.request
                      /\ \E i \in 1 .. Len(log) :
                           Grants(Len(log)) = {i} /\ log[i].envelope = a.envelope
    BY DEF AnswersAreTheGrant
  <1>1. a.request = a.envelope.request /\ Committed(a.envelope)
    BY DEF LInv, AnswersAreCommitted
  <1>2. PICK i \in Grants(Len(log)) : log[i].envelope = a.envelope
    BY <1>1 DEF Committed
  <1>3. Grants(Len(log)) = {i} /\ i \in 1 .. Len(log)
    BY <1>2 DEF LInv, OneGrant, Grants
  <1> QED BY <1>1, <1>2, <1>3

(* append() and issue(): every envelope that leaves the controller is the     *)
(* only grant of the ledger, and goes to the request it was signed for.       *)
THEOREM AnswersAreGrants == Spec => []AnswersAreTheGrant
  BY LedgerAnswers, LedgerInvariance, PTL

-----------------------------------------------------------------------------
(* The training run around the ledger. *)

(* A guest past the grant has the committed one that was signed for it, and   *)
(* one that reported has its adapter in the ledger's record.                  *)
GuestOf(r) ==
    /\ run[r].stage \in {"granted", "training", "saved", "done"} =>
         Grant(r) \in Envelope /\ Committed(Grant(r)) /\ Grant(r).request = r
    /\ run[r].stage \in {"saved", "done"} => run[r].adapter \in Adapter
    /\ run[r].stage = "done" => recorded = run[r].adapter /\ Preserved(Len(log))

(* A process has a frame of submit() just when its call is about the record   *)
(* of the preservation; what the frame says was read is still there.          *)
DeskOf(p) ==
    /\ desk[p] = None /\ Busy(p) => call[p].kind # "family_preserved"
    /\ desk[p] # None =>
         /\ desk[p].seen <= Len(log)
         /\ desk[p].step = "verify" => desk[p].seen >= 1
         /\ desk[p].step \in {"store", "verify"} => ~ Busy(p)
         /\ desk[p].step = "append" => copy = desk[p].bundle
         /\ desk[p].step = "append" /\ pc[p] = "release" => Preserved(Len(log))
         /\ Busy(p) => /\ call[p].kind = "family_preserved"
                       /\ desk[p].step = "append" => call[p].phase = "append"

(* The blob, the record and the append under way are about one bundle, of the *)
(* grant.                                                                     *)
StoreFits ==
    /\ copy # None => \E i \in Grants(Len(log)) : log[i].envelope.id = copy.grant
    /\ Preserved(Len(log)) <=> recorded # None
    /\ recorded # None => copy # None /\ recorded = copy.adapter
    /\ lease.wire # None /\ lease.wire.kind = "family_preserved" =>
         copy # None /\ cargo = copy.adapter
    /\ \A m \in replies : recorded # None /\ m.record = recorded

TInv ==
    /\ LInv
    /\ TrainingTypeOK
    /\ \A r \in Request : GuestOf(r)
    /\ \A p \in Process : DeskOf(p)
    /\ StoreFits

Ongoing(p) ==
    \/ Acquire(p) \/ Abandon(p) \/ ReadState(p) \/ Send(p) \/ Confirm(p) \/ Fail(p)
    \/ Release(p) \/ Recover(p) \/ Sign(p) \/ Deliver(p)

\* A step of a call under way keeps the invariant.
LEMMA OngoingKeeps == ASSUME LInv, NEW p \in Process, Ongoing(p) PROVE LInv'
  <1>1. [Next]_vars
    BY DEF Ongoing, Next, ProcessStep
  <1> QED BY <1>1, LedgerStep

(* A process goes on with its call, or ends it; nothing lands meanwhile.      *)
LEMMA OngoingEffect ==
    ASSUME LInv, NEW p \in Process, Ongoing(p)
    PROVE  /\ \A q \in Process \ {p} : pc'[q] = pc[q] /\ call'[q] = call[q]
           /\ Busy(p) /\ UNCHANGED log
           /\ pc'[p] = "idle" \/ (call'[p].kind = call[p].kind)
  <1>1. Busy(p) /\ UNCHANGED log
    BY DEF Ongoing, Acquire, Abandon, ReadState, Send, Confirm, Fail, Release, Recover, Sign,
           Deliver, Answer, Busy
  <1>2. call[p] \in Call /\ pc \in [Process -> Label] /\ call \in [Process -> Call \cup {None}]
    BY <1>1 DEF LInv, LedgerTypeOK, FramesFit, FrameFits, Label
  <1>3. CASE Acquire(p) \/ Confirm(p)
    BY <1>1, <1>2, <1>3 DEF Acquire, Confirm
  <1>4. CASE Abandon(p) \/ Fail(p) \/ Recover(p) \/ Deliver(p)
    BY <1>1, <1>2, <1>4 DEF Abandon, Fail, Recover, Deliver, Answer, Return
  <1>5. CASE ReadState(p)
    <2> DEFINE c == [call[p] EXCEPT !.seen = Len(log)]
    <2>1. c.kind = call[p].kind
      BY <1>2 DEF Call
    <2>2. Goto(p, "release", c)
      BY <1>5 DEF ReadState
    <2> HIDE DEF c
    <2> QED BY <1>1, <2>1, <2>2, OthersStay
  <1>6. CASE Send(p)
    <2> DEFINE c == [call[p] EXCEPT !.seen = Len(log), !.clock = 0, !.expected = 0]
    <2>1. c.kind = call[p].kind
      BY <1>2 DEF Call
    <2>2. Goto(p, "reply", c)
      BY <1>6 DEF Send
    <2> HIDE DEF c
    <2> QED BY <1>1, <2>1, <2>2, OthersStay
  <1>7. CASE Sign(p)
    <2> DEFINE e == [request |-> call[p].request, id |-> signed + 1, issued |-> now]
               c == [call[p] EXCEPT !.phase = "append", !.seen = 0, !.clock = 0, !.envelope = e]
    <2>1. c.kind = call[p].kind
      BY <1>2 DEF Call
    <2>2. Goto(p, "acquire", c)
      BY <1>7 DEF Sign
    <2> HIDE DEF c
    <2> QED BY <1>1, <2>1, <2>2, OthersStay
  <1>8. CASE Release(p)
    BY <1>1, <1>2, <1>8 DEF Release, Goto, Return
  <1> QED BY <1>3, <1>4, <1>5, <1>6, <1>7, <1>8 DEF Ongoing

\* With guests and preserver around it, the ledger keeps its invariant.
LEMMA TrainingLedgerStep == ASSUME TInv, [TrainingNext]_trainingVars PROVE LInv'
  <1>0. LInv /\ TrainingTypeOK /\ \A p \in Process : DeskOf(p)
    BY DEF TInv
  <1>1. CASE UNCHANGED vars
    BY <1>0, <1>1, LedgerStep
  <1>2. CASE Wait \/ RecordLands
    BY <1>0, <1>2, LedgerStep DEF Wait, RecordLands, Next
  <1>3. ASSUME NEW r \in Request, GuestStep(r) PROVE LInv'
    <2>1. CASE Apply(r)
      BY <1>0, <2>1, AskKeeps DEF Apply
    <2>2. CASE ~ Apply(r)
      BY <1>1, <1>3, <2>2
      DEF GuestStep, AcceptGrant, StartTraining, SaveAdapter, ReplaceAdapter, HandOver, Report
    <2> QED BY <2>1, <2>2
  <1>4. ASSUME NEW p \in Process, IssuerStep(p) PROVE LInv'
    <2>1. [Next]_vars
      BY <1>4 DEF IssuerStep, Next, ProcessStep
    <2> QED BY <1>0, <2>1, LedgerStep
  <1>5. ASSUME NEW p \in Process, PreserverStep(p) PROVE LInv'
    <2>1. CASE Ongoing(p)
      BY <1>0, <2>1, OngoingKeeps
    <2>2. CASE Submit(p)
      <3>1. 0 \in 0 .. MaxRecords /\ created' \in BOOLEAN
        BY <1>0, <2>2, LedgerAssumption DEF Submit, LInv, LedgerTypeOK
      <3> QED BY <1>0, <2>2, <3>1, BeginKeeps DEF Submit, Kind
    <2>3. CASE Verify(p)
      <3> DEFINE d == desk[p]
      <3>1. d \in Frame /\ d.step = "verify" /\ d.seen >= 1
        BY <1>0, <2>3 DEF Verify, Serves, DeskOf, TrainingTypeOK
      <3>2. d.clock \in Time /\ d.seen - 1 \in 0 .. MaxRecords /\ created' \in BOOLEAN
        BY <1>0, <2>3, <3>1, LedgerAssumption DEF Verify, Frame, LInv, LedgerTypeOK
      <3>3. CASE UNCHANGED <<pc, call>>
        BY <1>1, <2>3, <3>3 DEF Verify, vars
      <3>4. CASE Goto(p, "acquire",
                    [kind |-> "family_preserved", phase |-> "append", request |-> None,
                     clock |-> d.clock, expected |-> d.seen - 1, seen |-> 0, envelope |-> None])
        BY <1>0, <2>3, <3>2, <3>4, EnterKeeps DEF Verify, Kind
      <3> QED BY <2>3, <3>3, <3>4 DEF Verify
    <2>4. CASE Store(p) \/ SubmitRefuses(p)
      BY <1>1, <2>4 DEF Store, SubmitRefuses
    <2> QED
      BY <1>5, <2>1, <2>2, <2>3, <2>4
      DEF PreserverStep, ReadForSubmit, StateRead, SendRecord, RecordAppended, SubmitRaises, Ongoing
  <1> QED BY <1>1, <1>2, <1>3, <1>4, <1>5 DEF TrainingNext, trainingVars

(* Only a record that lands changes the log, at its end. *)
LEMMA StepLog ==
    ASSUME TInv, [TrainingNext]_trainingVars
    PROVE  RecordLands \/ UNCHANGED log
  <1>1. LInv
    BY DEF TInv
  <1>2. ASSUME NEW p \in Process, Ongoing(p) PROVE UNCHANGED log
    BY <1>1, <1>2, OngoingEffect
  <1>3. ASSUME NEW p \in Process, PreserverStep(p) \/ IssuerStep(p) PROVE UNCHANGED log
    BY <1>2, <1>3
    DEF PreserverStep, Submit, ReadForSubmit, StateRead, Store, Verify, SendRecord, RecordAppended,
        SubmitRaises, SubmitRefuses, IssuerStep, Ongoing, AppendEvent, Issue, vars
  <1>4. ASSUME NEW r \in Request, GuestStep(r) PROVE UNCHANGED log
    BY <1>4
    DEF GuestStep, Apply, Ask, AcceptGrant, StartTraining, SaveAdapter, ReplaceAdapter, HandOver,
        Report, vars
  <1> QED BY <1>3, <1>4 DEF TrainingNext, Wait, Tick, trainingVars, vars

\* A block that lands appends the record under way.
LEMMA LandAppends ==
    ASSUME LInv, Land
    PROVE  /\ Len(log) \in Nat /\ Len(log') = Len(log) + 1
           /\ \A i \in 1 .. Len(log) : log'[i] = log[i]
           /\ log'[Len(log) + 1] = lease.wire
           /\ lease'.wire = None
  <1>1. log \in Seq(Record) /\ lease.wire \in Record /\ log' = Append(log, lease.wire)
    BY DEF LInv, LedgerTypeOK, Land
  <1>2. lease'.wire = None
    BY DEF LInv, LedgerTypeOK, Land
  <1> QED BY <1>1, <1>2

\* No step shortens or changes the log.
LEMMA LogGrows ==
    ASSUME TInv, [TrainingNext]_trainingVars
    PROVE  /\ Len(log) \in Nat /\ Len(log') \in Nat /\ Len(log) <= Len(log')
           /\ \A i \in Grants(Len(log)) : i \in Grants(Len(log))' /\ log'[i] = log[i]
           /\ \A e : Committed(e) => Committed(e)'
           /\ Preserved(Len(log)) => Preserved(Len(log))'
  <1>1. Len(log) \in Nat
    BY DEF TInv, LInv, LedgerTypeOK
  <1>2. CASE UNCHANGED log
    BY <1>1, <1>2 DEF Grants, IsGrant, Committed, Preserved
  <1>3. CASE RecordLands
    <2>1. /\ Len(log') = Len(log) + 1 /\ \A i \in 1 .. Len(log) : log'[i] = log[i]
      BY <1>3, LandAppends DEF TInv, RecordLands
    <2>2. \A i \in Grants(Len(log)) : i \in Grants(Len(log))' /\ log'[i] = log[i]
      BY <1>1, <2>1 DEF Grants, IsGrant
    <2>3. Preserved(Len(log)) => Preserved(Len(log))'
      BY <1>1, <2>1 DEF Preserved
    <2>4. \A e : Committed(e) => Committed(e)'
      BY <2>2 DEF Committed
    <2> QED BY <1>1, <2>1, <2>2, <2>3, <2>4
  <1> QED BY <1>2, <1>3, StepLog

(* Bundles that were handed over are an issued grant's, of an adapter. *)
LEMMA BundleFits ==
    ASSUME TInv, NEW r \in Request, run[r].stage \in {"saved", "done"}
    PROVE  Bundle(r) \in BundleType
  BY DEF TInv, GuestOf, Bundle, BundleType, Grant, Envelope

\* Every step keeps the types of guests and preserver.
LEMMA TrainingStepType == ASSUME TInv, [TrainingNext]_trainingVars PROVE TrainingTypeOK'
  <1> USE DEF Frame
  <1>0. LInv /\ TrainingTypeOK /\ LedgerTypeOK /\ LedgerTypeOK'
    BY TrainingLedgerStep DEF TInv, LInv
  <1> DEFINE Guests == [stage : Stages, grant : Envelope \cup {None}, since : Time,
                        adapter : Adapter \cup {None}]
             RunOK == run \in [Request -> Guests]
             PostOK == posted \subseteq BundleType
             DeskOK == desk \in [Process -> Frame \cup {None}]
             CopyOK == copy \in BundleType \cup {None}
             CargoOK == {cargo, recorded} \subseteq Adapter \cup {None}
             RepliesOK == replies \subseteq [bundle : BundleType, record : Adapter]
  <1>1. RunOK /\ PostOK /\ DeskOK /\ CopyOK /\ CargoOK /\ RepliesOK
    BY <1>0 DEF TrainingTypeOK
  <1>2. ASSUME RunOK', PostOK', DeskOK', CopyOK', CargoOK', RepliesOK' PROVE TrainingTypeOK'
    BY <1>0, <1>2 DEF TrainingTypeOK
  <1>3. now \in Time /\ Len(log) \in 0 .. MaxRecords /\ 0 \in Time /\ 0 \in 0 .. MaxRecords
    BY <1>0, LedgerAssumption DEF LedgerTypeOK, Time
  <1>4. RunOK'
    <2>1. CASE UNCHANGED run
      BY <1>1, <2>1
    <2>2. ASSUME NEW r \in Request, NEW g \in Guests, run' = [run EXCEPT ![r] = g] PROVE RunOK'
      BY <1>1, <2>2
    <2>3. ASSUME NEW r \in Request, GuestStep(r) PROVE RunOK'
      <3> DEFINE g == run[r]
      <3>1. g \in Guests
        BY <1>1
      <3>2. CASE Apply(r)
        BY <1>1, <3>2 DEF Apply, To, Stages
      <3>3. CASE AcceptGrant(r)
        <4>1. PICK a \in answers :
                 run' = [run EXCEPT ![r].stage = "granted", ![r].grant = a.envelope]
          BY <3>3 DEF AcceptGrant
        <4>2. a.envelope \in Envelope
          BY <1>0, <4>1 DEF LedgerTypeOK
        <4> QED BY <1>1, <4>1, <4>2 DEF Stages
      <3>4. CASE StartTraining(r)
        BY <1>1, <1>3, <3>4 DEF StartTraining, Stages
      <3>5. CASE SaveAdapter(r)
        <4>1. PICK a \in Adapter :
                 run' = [run EXCEPT ![r].stage = "saved", ![r].adapter = a, ![r].since = 0]
          BY <3>5 DEF SaveAdapter
        <4> DEFINE h == [run[r] EXCEPT !.stage = "saved", !.adapter = a, !.since = 0]
        <4>2. run' = [run EXCEPT ![r] = h]
          BY <1>1, <4>1
        <4>3. h \in Guests
          BY <1>3, <3>1 DEF Stages
        <4> HIDE DEF h
        <4> QED BY <1>1, <4>2, <4>3
      <3>6. CASE ReplaceAdapter(r)
        BY <1>1, <3>6 DEF ReplaceAdapter
      <3>7. CASE HandOver(r)
        BY <1>1, <3>7 DEF HandOver
      <3>8. CASE Report(r)
        <4>1. PICK m \in replies :
                 run' = [run EXCEPT ![r].stage = "done", ![r].adapter = m.bundle.adapter]
          BY <3>8 DEF Report
        <4>2. m.bundle.adapter \in Adapter
          BY <1>1, <4>1 DEF BundleType
        <4> QED BY <1>1, <4>1, <4>2 DEF Stages
      <3> QED BY <2>3, <3>2, <3>3, <3>4, <3>5, <3>6, <3>7, <3>8 DEF GuestStep
    <2>4. ASSUME NEW p \in Process, PreserverStep(p) \/ IssuerStep(p) PROVE UNCHANGED run
      BY <2>4
      DEF PreserverStep, Submit, ReadForSubmit, StateRead, Store, Verify, SendRecord,
          RecordAppended, SubmitRaises, SubmitRefuses, IssuerStep, guest
    <2> QED BY <2>1, <2>3, <2>4 DEF TrainingNext, Wait, RecordLands, guest, trainingVars
  <1>5. PostOK'
    <2>1. ASSUME NEW r \in Request, HandOver(r) PROVE PostOK'
      BY <1>1, <2>1, BundleFits DEF HandOver, At
    <2>2. ASSUME NEW r \in Request, GuestStep(r) PROVE PostOK'
      BY <1>1, <2>1, <2>2
      DEF GuestStep, Apply, AcceptGrant, StartTraining, SaveAdapter, ReplaceAdapter, Report
    <2>3. ASSUME NEW p \in Process, PreserverStep(p) \/ IssuerStep(p) PROVE UNCHANGED posted
      BY <2>3
      DEF PreserverStep, Submit, ReadForSubmit, StateRead, Store, Verify, SendRecord,
          RecordAppended, SubmitRaises, SubmitRefuses, IssuerStep, guest
    <2> QED BY <1>1, <2>2, <2>3 DEF TrainingNext, Wait, RecordLands, guest, trainingVars
  <1>6. DeskOK' /\ CopyOK' /\ CargoOK' /\ RepliesOK'
    <2>1. CASE UNCHANGED <<desk, store, replies>>
      BY <1>1, <2>1 DEF store
    <2>2. CASE RecordLands
      BY <1>1, <2>2 DEF RecordLands
    <2>3. ASSUME NEW p \in Process, PreserverStep(p) PROVE DeskOK' /\ CopyOK' /\ CargoOK' /\ RepliesOK'
      <3>1. desk[p] # None => desk[p] \in Frame /\ desk[p].bundle \in BundleType
                              /\ desk[p].bundle.adapter \in Adapter
        BY <1>1 DEF BundleType
      <3>2. CASE Submit(p)
        <4>1. PICK b \in posted :
                 desk' = [desk EXCEPT ![p] = [bundle |-> b, step |-> "state", clock |-> 0, seen |-> 0]]
          BY <3>2 DEF Submit
        <4> QED BY <1>1, <1>3, <3>2, <4>1 DEF Submit, store
      <3>3. CASE ReadForSubmit(p) \/ StateRead(p)
        BY <1>1, <1>3, <3>1, <3>3 DEF ReadForSubmit, StateRead, Serves, store
      <3>4. CASE Store(p)
        <4>1. DeskOK'
          BY <1>1, <3>1, <3>4 DEF Store, Serves, Leaves
        <4>2. CopyOK'
          BY <1>1, <3>1, <3>4 DEF Store, Serves, Put
        <4> QED BY <1>1, <3>4, <4>1, <4>2 DEF Store
      <3>5. CASE Verify(p)
        <4>1. DeskOK'
          BY <1>1, <1>3, <3>1, <3>5 DEF Verify, Serves, Leaves
        <4>2. RepliesOK'
          BY <1>1, <3>1, <3>5 DEF Verify, Serves
        <4> QED BY <1>1, <3>5, <4>1, <4>2 DEF Verify, store
      <3>6. CASE SendRecord(p)
        BY <1>1, <3>1, <3>6 DEF SendRecord, Serves
      <3>7. CASE RecordAppended(p)
        BY <1>1, <3>1, <3>7 DEF RecordAppended, Serves, Leaves, store
      <3>8. CASE SubmitRaises(p) \/ SubmitRefuses(p)
        BY <1>1, <3>8 DEF SubmitRaises, SubmitRefuses, Leaves, store
      <3> QED BY <2>1, <2>3, <3>2, <3>3, <3>4, <3>5, <3>6, <3>7, <3>8 DEF PreserverStep
    <2>4. ASSUME NEW r \in Request, GuestStep(r) PROVE UNCHANGED <<desk, store, replies>>
      BY <2>4
      DEF GuestStep, Apply, AcceptGrant, StartTraining, SaveAdapter, ReplaceAdapter, HandOver, Report
    <2> QED BY <2>1, <2>2, <2>3, <2>4 DEF TrainingNext, Wait, IssuerStep, trainingVars, store
  <1> QED BY <1>2, <1>4, <1>5, <1>6

(* The step of one guest leaves the others alone. *)
LEMMA OtherGuests ==
    ASSUME TrainingTypeOK, NEW r \in Request, GuestStep(r)
    PROVE  \A q \in Request \ {r} : run'[q] = run[q]
  BY DEF TrainingTypeOK, GuestStep, Apply, To, AcceptGrant, StartTraining, SaveAdapter,
         ReplaceAdapter, HandOver, Report

(* The ledger's record of the preservation is written once. *)
LEMMA RecordStays ==
    ASSUME TInv, [TrainingNext]_trainingVars, recorded # None
    PROVE  recorded' = recorded
  <1>1. CASE RecordLands
    BY <1>1 DEF TInv, StoreFits, RecordLands, Land
  <1>2. CASE ~ RecordLands
    BY <1>2
    DEF TrainingNext, Wait, GuestStep, Apply, AcceptGrant, StartTraining, SaveAdapter,
        ReplaceAdapter, HandOver, Report, PreserverStep, Submit, ReadForSubmit, StateRead, Store,
        Verify, SendRecord, RecordAppended, SubmitRaises, SubmitRefuses, IssuerStep, store,
        trainingVars
  <1> QED BY <1>1, <1>2

\* Every step keeps what a guest past its grant holds.
LEMMA GuestsStep ==
    ASSUME TInv, [TrainingNext]_trainingVars, NEW q \in Request
    PROVE  GuestOf(q)'
  <1>0. /\ LInv /\ TrainingTypeOK /\ GuestOf(q) /\ StoreFits
        /\ run[q] \in [stage : Stages, grant : Envelope \cup {None}, since : Time,
                       adapter : Adapter \cup {None}]
    BY DEF TInv, TrainingTypeOK
  <1>1. /\ \A e : Committed(e) => Committed(e)'
        /\ Preserved(Len(log)) => Preserved(Len(log))'
    BY LogGrows
  <1>2. recorded # None => recorded' = recorded
    BY RecordStays
  <1>3. None \notin Adapter
    BY TrainingAssumption
  <1>4. CASE run'[q] = run[q]
    BY <1>0, <1>1, <1>2, <1>3, <1>4 DEF GuestOf, Grant
  <1>5. CASE GuestStep(q)
    <2>1. CASE Apply(q)
      BY <1>0, <2>1 DEF Apply, To, GuestOf, TrainingTypeOK
    <2>2. CASE AcceptGrant(q)
      <3>1. PICK a \in answers :
               /\ a.request = q
               /\ run' = [run EXCEPT ![q].stage = "granted", ![q].grant = a.envelope]
        BY <2>2 DEF AcceptGrant
      <3>2. a.envelope \in Envelope /\ a.envelope.request = q /\ Committed(a.envelope)
        BY <1>0, <3>1 DEF LInv, LedgerTypeOK, AnswersAreCommitted
      <3>3. run'[q].stage = "granted" /\ run'[q].grant = a.envelope
        BY <1>0, <3>1 DEF TrainingTypeOK
      <3> QED BY <1>1, <3>2, <3>3 DEF GuestOf, Grant
    <2>3. CASE StartTraining(q)
      <3>1. run'[q].stage = "training" /\ run'[q].grant = run[q].grant
        BY <1>0, <2>3 DEF StartTraining, TrainingTypeOK
      <3> QED BY <1>0, <1>1, <2>3, <3>1 DEF StartTraining, At, GuestOf, Grant
    <2>4. CASE SaveAdapter(q) \/ ReplaceAdapter(q)
      <3>1. run'[q].stage = "saved" /\ run'[q].grant = run[q].grant /\ run'[q].adapter \in Adapter
        <4>1. CASE SaveAdapter(q)
          <5>1. PICK a \in Adapter :
                   run' = [run EXCEPT ![q].stage = "saved", ![q].adapter = a, ![q].since = 0]
            BY <4>1 DEF SaveAdapter
          <5> DEFINE h == [run[q] EXCEPT !.stage = "saved", !.adapter = a, !.since = 0]
          <5>2. run'[q] = h
            BY <1>0, <5>1 DEF TrainingTypeOK
          <5>3. h.stage = "saved" /\ h.grant = run[q].grant /\ h.adapter = a
            BY <1>0
          <5> HIDE DEF h
          <5> QED BY <5>2, <5>3
        <4>2. CASE ReplaceAdapter(q)
          BY <1>0, <4>2 DEF ReplaceAdapter, At, TrainingTypeOK
        <4> QED BY <2>4, <4>1, <4>2
      <3> QED BY <1>0, <1>1, <2>4, <3>1 DEF SaveAdapter, ReplaceAdapter, At, GuestOf, Grant
    <2>5. CASE HandOver(q)
      BY <1>4, <2>5 DEF HandOver
    <2>6. CASE Report(q)
      <3>1. PICK m \in replies :
               /\ m.record = m.bundle.adapter
               /\ run' = [run EXCEPT ![q].stage = "done", ![q].adapter = m.bundle.adapter]
        BY <2>6 DEF Report
      <3>2. m.bundle.adapter \in Adapter
        BY <1>0, <3>1 DEF TrainingTypeOK, BundleType
      <3>3. /\ run'[q].stage = "done" /\ run'[q].grant = run[q].grant
            /\ run'[q].adapter = m.bundle.adapter
        BY <1>0, <3>1 DEF TrainingTypeOK
      <3>4. recorded = m.bundle.adapter /\ Preserved(Len(log))
        BY <1>0, <3>1 DEF StoreFits
      <3> QED BY <1>0, <1>1, <1>2, <1>3, <2>6, <3>2, <3>3, <3>4 DEF Report, At, GuestOf, Grant
    <2> QED BY <1>5, <2>1, <2>2, <2>3, <2>4, <2>5, <2>6 DEF GuestStep
  <1>6. ASSUME NEW r \in Request, GuestStep(r), r # q PROVE GuestOf(q)'
    BY <1>0, <1>4, <1>6, OtherGuests
  <1>7. ASSUME NEW p \in Process, PreserverStep(p) \/ IssuerStep(p) PROVE UNCHANGED run
    BY <1>7
    DEF PreserverStep, Submit, ReadForSubmit, StateRead, Store, Verify, SendRecord,
        RecordAppended, SubmitRaises, SubmitRefuses, IssuerStep, guest
  <1> QED BY <1>4, <1>5, <1>6, <1>7 DEF TrainingNext, Wait, RecordLands, guest, trainingVars

(* A bundle in the blob is never replaced. *)
LEMMA CopyStays ==
    ASSUME [TrainingNext]_trainingVars, copy # None
    PROVE  copy' = copy
  <1>1. ASSUME NEW p \in Process, Store(p) PROVE copy' = copy
    BY <1>1 DEF Store, Put
  <1> QED
    BY <1>1
    DEF TrainingNext, Wait, RecordLands, GuestStep, Apply, AcceptGrant, StartTraining, SaveAdapter,
        ReplaceAdapter, HandOver, Report, PreserverStep, Submit, ReadForSubmit, StateRead,
        Verify, SendRecord, RecordAppended, SubmitRaises, SubmitRefuses, IssuerStep, store,
        trainingVars

(* What the step of one process leaves of the others. *)
LEMMA OtherDesks ==
    ASSUME TInv, NEW p \in Process, PreserverStep(p) \/ IssuerStep(p)
    PROVE  \A q \in Process \ {p} :
             pc'[q] = pc[q] /\ call'[q] = call[q] /\ desk'[q] = desk[q]
  <1>0. /\ LInv /\ desk \in [Process -> Frame \cup {None}]
        /\ pc \in [Process -> Label] /\ call \in [Process -> Call \cup {None}]
    BY DEF TInv, LInv, LedgerTypeOK, TrainingTypeOK, Label
  <1>1. \A q \in Process \ {p} : desk'[q] = desk[q]
    BY <1>0
    DEF PreserverStep, Submit, ReadForSubmit, StateRead, Store, Verify, SendRecord,
        RecordAppended, SubmitRaises, SubmitRefuses, IssuerStep, Leaves
  <1>2. ASSUME Ongoing(p) \/ UNCHANGED <<pc, call>>
        PROVE  \A q \in Process \ {p} : pc'[q] = pc[q] /\ call'[q] = call[q]
    BY <1>0, <1>2, OngoingEffect
  <1>3. ASSUME NEW label, NEW c, Goto(p, label, c)
        PROVE  \A q \in Process \ {p} : pc'[q] = pc[q] /\ call'[q] = call[q]
    BY <1>0, <1>3, OthersStay
  <1>4. CASE PreserverStep(p)
    BY <1>1, <1>2, <1>3, <1>4
    DEF PreserverStep, Submit, Begin, ReadForSubmit, StateRead, Store, Verify, SendRecord,
        RecordAppended, SubmitRaises, SubmitRefuses, Ongoing, vars
  <1>5. CASE IssuerStep(p)
    BY <1>1, <1>2, <1>3, <1>5 DEF IssuerStep, AppendEvent, Issue, Begin, Ongoing
  <1> QED BY <1>4, <1>5

(* A frame that nobody touched stays true. *)
LEMMA DeskStays ==
    ASSUME TInv, [TrainingNext]_trainingVars, NEW q \in Process,
           pc'[q] = pc[q], call'[q] = call[q], desk'[q] = desk[q]
    PROVE  DeskOf(q)'
  <1>1. DeskOf(q) /\ (desk[q] # None => desk[q] \in Frame /\ desk[q].bundle # None)
    BY NoneIsNoBundle DEF TInv, TrainingTypeOK, Frame
  <1>2. /\ Len(log) \in Nat /\ Len(log') \in Nat /\ Len(log) <= Len(log')
        /\ Preserved(Len(log)) => Preserved(Len(log))'
    BY LogGrows
  <1>3. desk[q] # None => desk[q].seen \in Nat
    BY <1>1 DEF Frame
  <1>4. desk[q] # None /\ desk[q].step = "append" => copy' = copy
    BY <1>1, CopyStays DEF DeskOf
  <1> QED BY <1>1, <1>2, <1>3, <1>4 DEF DeskOf, Busy

(* A record of the preservation that was read back is in the log. *)
LEMMA ConfirmedRecord ==
    ASSUME LInv, NEW p \in Process, Confirm(p), call[p].kind = "family_preserved"
    PROVE  Preserved(Len(log))
  <1>1. Len(log) = call[p].seen + 1 /\ pc[p] = "reply" /\ lease.holder = p
    BY DEF Confirm, Active
  <1>2. call[p].seen \in Nat
    BY <1>1 DEF LInv, FramesFit, FrameFits, Busy, Call
  <1>3. lease.wire # None => lease.offset = Len(log)
    BY DEF LInv, WireFits
  <1>4. RecordOf(log[Len(log)], call[p])
    BY <1>1, <1>2, <1>3 DEF LInv, RepliesMatch
  <1> QED BY <1>1, <1>2, <1>4 DEF RecordOf, Preserved

\* Every step keeps the frames of submit() in line with the calls.
LEMMA DeskStep ==
    ASSUME TInv, [TrainingNext]_trainingVars, NEW q \in Process
    PROVE  DeskOf(q)'
  <1>0. /\ LInv /\ DeskOf(q) /\ StoreFits
        /\ desk \in [Process -> Frame \cup {None}]
        /\ pc \in [Process -> Label] /\ call \in [Process -> Call \cup {None}]
        /\ Len(log) \in Nat
    BY DEF TInv, LInv, LedgerTypeOK, TrainingTypeOK, Label
  <1>1. desk[q] # None => desk[q] \in Frame
    BY <1>0
  <1>2. CASE PreserverStep(q)
    <2>1. CASE Submit(q)
      <3>1. PICK b \in posted :
               desk' = [desk EXCEPT ![q] = [bundle |-> b, step |-> "state", clock |-> 0, seen |-> 0]]
        BY <2>1 DEF Submit
      <3>2. desk'[q] = [bundle |-> b, step |-> "state", clock |-> 0, seen |-> 0]
        BY <1>0, <3>1
      <3>3. pc'[q] = "acquire" /\ call'[q].kind = "family_preserved" /\ UNCHANGED log
        BY <1>0, <2>1 DEF Submit, Begin, Goto
      <3>4. desk'[q].step = "state" /\ desk'[q].seen = 0 /\ desk'[q] # None
        <4>1. b \in BundleType
          BY <3>1 DEF TInv, TrainingTypeOK
        <4>2. desk'[q] \in Frame
          BY <3>2, <4>1, LedgerAssumption DEF Frame, Time
        <4> QED BY <3>2, <4>2, NoneIsNoBundle
      <3> QED BY <1>0, <3>3, <3>4 DEF DeskOf, Busy
    <2>2. CASE ReadForSubmit(q)
      <3>1. /\ desk'[q] = [desk[q] EXCEPT !.seen = Len(log)]
            /\ desk[q] \in Frame /\ desk[q].step = "state" /\ desk[q] # None
        BY <1>0, <1>1, <2>2 DEF ReadForSubmit, Serves
      <3>2. desk'[q].step = "state" /\ desk'[q].seen = Len(log)
        BY <3>1 DEF Frame
      <3>3. pc'[q] = "release" /\ call'[q].kind = call[q].kind /\ UNCHANGED log /\ Busy(q)
        BY <1>0, <2>2, OngoingEffect DEF ReadForSubmit, Ongoing, ReadState, Goto
      <3>4. Len(log) \in 0 .. MaxRecords
        BY <1>0 DEF LInv, LedgerTypeOK
      <3>5. desk'[q] # None
        BY <3>1, <3>4, NoneIsNoBundle DEF Frame
      <3> QED BY <1>0, <3>1, <3>2, <3>3, <3>5 DEF DeskOf, Busy
    <2>3. CASE StateRead(q) \/ RecordAppended(q)
      <3>1. Release(q) /\ desk[q] # None
        BY <2>3 DEF StateRead, RecordAppended, Serves
      <3>2. call[q].kind = "family_preserved"
        BY <1>0, <3>1 DEF DeskOf, Busy, Release
      <3>3. pc'[q] = "idle" /\ UNCHANGED log
        BY <1>0, <3>1, <3>2 DEF Release, Return
      <3>4. CASE RecordAppended(q)
        BY <1>0, <3>3, <3>4 DEF RecordAppended, Leaves, DeskOf, Busy
      <3>5. CASE StateRead(q)
        <4>1. desk'[q] = [desk[q] EXCEPT !.step = "store", !.clock = now]
          BY <1>0, <3>5 DEF StateRead
        <4>2. desk'[q].step = "store" /\ desk'[q].seen = desk[q].seen
          BY <1>1, <3>1, <4>1 DEF Frame
        <4> QED BY <1>0, <3>1, <3>3, <4>2 DEF DeskOf, Busy
      <3> QED BY <2>3, <3>4, <3>5
    <2>4. CASE Store(q)
      <3>1. /\ UNCHANGED <<pc, call, log>> /\ pc[q] = "idle" /\ desk[q] # None
            /\ \E i \in 1 .. desk[q].seen : TRUE
            /\ desk'[q] = None \/ desk'[q] = [desk[q] EXCEPT !.step = "verify"]
        BY <1>0, <2>4 DEF Store, Serves, Leaves, Grants, vars
      <3>2. CASE desk'[q] = None
        BY <3>1, <3>2 DEF DeskOf, Busy
      <3>3. CASE desk'[q] = [desk[q] EXCEPT !.step = "verify"]
        <4>1. desk'[q].step = "verify" /\ desk'[q].seen = desk[q].seen /\ desk[q].seen \in Nat
          BY <1>1, <3>1, <3>3 DEF Frame
        <4> QED BY <1>0, <3>1, <4>1 DEF DeskOf, Busy
      <3> QED BY <3>1, <3>2, <3>3
    <2>5. CASE Verify(q)
      <3>1. /\ desk[q] \in Frame /\ pc[q] = "idle" /\ copy = desk[q].bundle /\ UNCHANGED <<log, copy>>
        BY <1>0, <1>1, <2>5 DEF Verify, Serves, DeskOf, Busy, store
      <3>2. CASE Leaves(q) /\ UNCHANGED <<pc, call>>
        BY <1>0, <3>1, <3>2 DEF Leaves, DeskOf, Busy
      <3>3. CASE ~ Preserved(desk[q].seen)
        <4>1. desk'[q] = [desk[q] EXCEPT !.step = "append", !.clock = 0, !.seen = 0]
          BY <1>0, <2>5, <3>3 DEF Verify
        <4>2. desk'[q].step = "append" /\ desk'[q].seen = 0 /\ desk'[q].bundle = desk[q].bundle
          BY <3>1, <4>1 DEF Frame
        <4>3. /\ pc'[q] = "acquire" /\ call'[q].kind = "family_preserved"
              /\ call'[q].phase = "append"
          BY <1>0, <2>5, <3>3 DEF Verify, Goto
        <4>4. 0 \in Time /\ 0 \in 0 .. MaxRecords
          BY LedgerAssumption DEF Time
        <4>5. desk'[q] # None
          BY <3>1, <4>1, <4>4, NoneIsNoBundle DEF Frame
        <4> QED BY <1>0, <3>1, <4>2, <4>3, <4>5 DEF DeskOf, Busy
      <3> QED BY <2>5, <3>2, <3>3 DEF Verify
    <2>6. CASE SendRecord(q)
      <3>1. desk'[q] = desk[q] /\ copy' = copy /\ UNCHANGED log /\ desk[q] # None
        BY <2>6 DEF SendRecord, Serves, Send
      <3>2. Busy(q) /\ call[q] \in Call /\ pc'[q] = "reply"
        BY <1>0, <2>6 DEF SendRecord, Send, Goto, LInv, FramesFit, FrameFits, Busy
      <3>3. call'[q] = [call[q] EXCEPT !.seen = Len(log), !.clock = 0, !.expected = 0]
        BY <1>0, <2>6 DEF SendRecord, Send, Goto
      <3>4. call'[q].kind = call[q].kind /\ call'[q].phase = call[q].phase
        BY <3>2, <3>3 DEF Call
      <3> QED BY <1>0, <3>1, <3>2, <3>4 DEF DeskOf, Busy
    <2>7. CASE SubmitRaises(q) \/ SubmitRefuses(q)
      <3>1. desk'[q] = None /\ pc'[q] = "idle"
        BY <1>0, <2>7 DEF SubmitRaises, SubmitRefuses, Leaves, Abandon, Fail, Return, vars
      <3> QED BY <3>1 DEF DeskOf, Busy
    <2>8. CASE (Acquire(q) \/ Confirm(q)) /\ UNCHANGED <<guest, desk, store, replies>>
      <3>1. /\ UNCHANGED <<log, call, desk, copy>> /\ Busy(q)
            /\ pc'[q] = "read" \/ (Confirm(q) /\ pc'[q] = "release")
        BY <1>0, <2>8 DEF Acquire, Confirm, Busy, store
      <3>2. desk[q] # None /\ Confirm(q) => Preserved(Len(log))
        BY <1>0, <3>1, ConfirmedRecord DEF DeskOf
      <3> QED BY <1>0, <3>1, <3>2 DEF DeskOf, Busy, Preserved
    <2> QED BY <1>2, <2>1, <2>2, <2>3, <2>4, <2>5, <2>6, <2>7, <2>8 DEF PreserverStep
  <1>3. CASE IssuerStep(q)
    <2>1. desk[q] = None /\ desk'[q] = None
      BY <1>3 DEF IssuerStep
    <2>2. CASE Ongoing(q)
      BY <1>0, <2>1, <2>2, OngoingEffect DEF DeskOf, Busy
    <2>3. CASE ~ Ongoing(q)
      <3>1. call'[q].kind \in Admission \cup {"training_grant"}
        BY <1>0, <1>3, <2>3 DEF IssuerStep, AppendEvent, Issue, Begin, Goto, Ongoing
      <3> QED BY <2>1, <3>1 DEF DeskOf, Admission
    <2> QED BY <2>2, <2>3
  <1>4. ASSUME NEW p \in Process, p # q, PreserverStep(p) \/ IssuerStep(p) PROVE DeskOf(q)'
    BY <1>4, OtherDesks, DeskStays
  <1>5. CASE UNCHANGED <<pc, call, desk>>
    BY <1>5, DeskStays
  <1>6. ASSUME NEW r \in Request, GuestStep(r) PROVE UNCHANGED <<pc, call, desk>>
    BY <1>6
    DEF GuestStep, Apply, Ask, AcceptGrant, StartTraining, SaveAdapter, ReplaceAdapter, HandOver,
        Report, vars
  <1> QED
    BY <1>2, <1>3, <1>4, <1>5, <1>6
    DEF TrainingNext, Wait, Tick, RecordLands, Land, trainingVars, vars

-----------------------------------------------------------------------------
(* The append under way stays or is given up, unless another one is sent. *)
LEMMA WireStays ==
    ASSUME LInv, NEW p \in Process,
           \/ Acquire(p) \/ Abandon(p) \/ ReadState(p) \/ Confirm(p) \/ Fail(p)
           \/ Release(p) \/ Recover(p) \/ Sign(p) \/ Deliver(p)
    PROVE  lease'.wire \in {None, lease.wire}
  <1>1. CASE lease' = NoLease \/ lease' = lease
    BY <1>1 DEF NoLease
  <1>2. CASE lease' = [NoLease EXCEPT !.holder = p, !.until = now + LeaseTime]
    BY <1>2 DEF NoLease
  <1> QED
    BY <1>1, <1>2
    DEF Acquire, Fail, Release, ReleaseLease, Abandon, ReadState, Confirm, Recover, Sign, Deliver

\* The record a call sends is of the call's kind.
LEMMA SentWire ==
    ASSUME LInv, NEW p \in Process, Send(p)
    PROVE  lease'.wire.kind = call[p].kind
  <1>1. lease'.wire = NewRecord(p)
    BY DEF LInv, LedgerTypeOK, Send
  <1>2. NewRecord(p).kind = call[p].kind
    BY DEF NewRecord, EventRecord
  <1> QED BY <1>1, <1>2

\* Every step keeps copy, record and append under way of one bundle.
LEMMA StoreStep == ASSUME TInv, [TrainingNext]_trainingVars PROVE StoreFits'
  <1>0. /\ LInv /\ TrainingTypeOK /\ StoreFits /\ Len(log) \in Nat
        /\ \A p \in Process : DeskOf(p)
    BY DEF TInv, LInv, LedgerTypeOK
  <1> DEFINE Vouched == copy # None => \E i \in Grants(Len(log)) : log[i].envelope.id = copy.grant
             Written == Preserved(Len(log)) <=> recorded # None
             Agrees == recorded # None => copy # None /\ recorded = copy.adapter
             Sent == lease.wire # None /\ lease.wire.kind = "family_preserved" =>
                       copy # None /\ cargo = copy.adapter
             Told == \A m \in replies : recorded # None /\ m.record = recorded
  <1>1. Vouched /\ Written /\ Agrees /\ Sent /\ Told
    BY <1>0 DEF StoreFits
  <1>2. \A i \in Grants(Len(log)) : i \in Grants(Len(log))' /\ log'[i] = log[i]
    BY LogGrows
  <1>3. copy # None => copy' = copy
    BY CopyStays
  <1>4. None \notin Adapter /\ None \notin BundleType
    BY TrainingAssumption, NoneIsNoBundle
  <1>5. ASSUME NEW p \in Process, desk[p] # None
        PROVE  desk[p] \in Frame /\ desk[p].bundle # None /\ desk[p].bundle.adapter \in Adapter
    BY <1>0, <1>4, <1>5 DEF TrainingTypeOK, Frame, BundleType
\* A blob that is not there is written only by Store, for the ledger's grant.
  <1>6. Vouched'
    <2>1. CASE copy' = copy
      BY <1>1, <1>2, <2>1
    <2>2. ASSUME NEW p \in Process, Store(p), copy' # copy PROVE Vouched'
      <3>1. copy' = desk[p].bundle /\ desk[p].seen <= Len(log) /\ desk[p] \in Frame
        BY <1>0, <1>5, <2>2 DEF Store, Put, Serves, DeskOf
      <3>2. PICK i \in Grants(desk[p].seen) : log[i].envelope.id = desk[p].bundle.grant
        BY <2>2 DEF Store
      <3>3. desk[p].seen \in Nat
        BY <3>1 DEF Frame
      <3>4. i \in Grants(Len(log))
        BY <1>0, <3>1, <3>2, <3>3 DEF Grants
      <3> QED BY <1>2, <3>1, <3>2, <3>4
    <2>3. CASE UNCHANGED copy
      BY <2>1, <2>3
    <2> QED
      BY <2>2, <2>3
      DEF TrainingNext, Wait, RecordLands, GuestStep, Apply, AcceptGrant, StartTraining,
          SaveAdapter, ReplaceAdapter, HandOver, Report, PreserverStep, Submit, ReadForSubmit,
          StateRead, Verify, SendRecord, RecordAppended, SubmitRaises, SubmitRefuses, IssuerStep,
          store, trainingVars
  <1>7. CASE RecordLands
    <2>1. /\ Len(log') = Len(log) + 1
          /\ \A i \in 1 .. Len(log) : log'[i] = log[i]
          /\ log'[Len(log) + 1] = lease.wire
          /\ lease'.wire = None
      BY <1>0, <1>7, LandAppends DEF RecordLands
    <2>2. UNCHANGED <<copy, cargo, replies>> /\ lease.wire # None
      BY <1>7 DEF RecordLands, Land
    <2>3. CASE lease.wire.kind = "family_preserved"
      <3>1. recorded' = cargo /\ copy # None /\ cargo = copy.adapter
        BY <1>1, <1>7, <2>2, <2>3 DEF RecordLands
      <3>2. recorded' # None
        BY <1>0, <1>4, <3>1 DEF TrainingTypeOK, BundleType
      <3>3. Preserved(Len(log))'
        BY <1>0, <2>1, <2>3 DEF Preserved
      <3>4. recorded # None => recorded' = recorded
        BY <1>1, <3>1
      <3> QED BY <1>1, <1>6, <2>1, <2>2, <3>1, <3>2, <3>3, <3>4 DEF StoreFits
    <2>4. CASE lease.wire.kind # "family_preserved"
      <3>1. recorded' = recorded
        BY <1>7, <2>4 DEF RecordLands
      <3>2. Preserved(Len(log))' <=> Preserved(Len(log))
        BY <1>0, <2>1, <2>4 DEF Preserved
      <3> QED BY <1>1, <1>6, <2>1, <2>2, <3>1, <3>2 DEF StoreFits
    <2> QED BY <2>3, <2>4
  <1>8. ASSUME UNCHANGED <<log, recorded>> PROVE Written' /\ Agrees'
    BY <1>1, <1>3, <1>8 DEF Preserved
  <1>9. ASSUME UNCHANGED cargo, lease'.wire \in {None, lease.wire} PROVE Sent'
    BY <1>1, <1>3, <1>9
  <1>10. ASSUME UNCHANGED <<recorded, replies>> PROVE Told'
    BY <1>1, <1>10
  <1>11. CASE UNCHANGED <<log, lease, store, replies>>
    BY <1>6, <1>8, <1>9, <1>10, <1>11 DEF StoreFits, store
  <1>12. ASSUME NEW p \in Process, PreserverStep(p) PROVE StoreFits'
    <2>1. CASE \/ ReadForSubmit(p) \/ StateRead(p) \/ SubmitRaises(p)
               \/ (Acquire(p) \/ Confirm(p)) /\ UNCHANGED <<guest, desk, store, replies>>
      <3>1. UNCHANGED <<log, store, replies>> /\ lease'.wire \in {None, lease.wire}
        <4>1. ReadState(p) \/ Release(p) \/ Abandon(p) \/ Fail(p) \/ Acquire(p) \/ Confirm(p)
          BY <2>1 DEF ReadForSubmit, StateRead, SubmitRaises
        <4>2. UNCHANGED <<store, replies>>
          BY <2>1 DEF ReadForSubmit, StateRead, SubmitRaises
        <4> QED BY <1>0, <4>1, <4>2, WireStays, OngoingEffect DEF Ongoing
      <3> QED BY <1>6, <1>8, <1>9, <1>10, <3>1 DEF StoreFits, store
    <2>2. CASE Submit(p) \/ SubmitRefuses(p)
      BY <1>11, <2>2 DEF Submit, SubmitRefuses, vars
    <2>3. CASE Store(p)
      <3>1. UNCHANGED <<log, lease, cargo, recorded, replies>>
        BY <2>3 DEF Store, vars
      <3> QED BY <1>6, <1>8, <1>9, <1>10, <3>1 DEF StoreFits
    <2>4. CASE Verify(p)
      <3>1. UNCHANGED <<log, lease, copy, cargo, recorded>>
        BY <2>4 DEF Verify, store
      <3>2. desk[p] # None /\ desk[p].bundle.adapter \in Adapter
        BY <1>5, <2>4 DEF Verify, Serves
      <3>3. Told'
        <4>1. CASE UNCHANGED replies
          BY <1>10, <3>1, <4>1
        <4>2. CASE /\ recorded = desk[p].bundle.adapter
                   /\ replies' = replies \cup {[bundle |-> desk[p].bundle, record |-> recorded]}
          BY <1>1, <1>4, <3>1, <3>2, <4>2
        <4> QED BY <2>4, <4>1, <4>2 DEF Verify
      <3> QED BY <1>6, <1>8, <1>9, <3>1, <3>3 DEF StoreFits
    <2>5. CASE SendRecord(p)
      <3>1. /\ UNCHANGED <<log, copy, recorded, replies>> /\ desk[p] # None
            /\ cargo' = desk[p].bundle.adapter /\ desk[p].step = "append"
        BY <2>5 DEF SendRecord, Send, Serves
      <3>2. copy = desk[p].bundle /\ copy # None
        BY <1>0, <1>5, <3>1 DEF DeskOf
      <3> QED BY <1>6, <1>8, <1>10, <3>1, <3>2 DEF StoreFits
    <2>6. CASE RecordAppended(p)
      <3>1. /\ Release(p) /\ UNCHANGED store /\ desk[p] # None /\ desk[p].step = "append"
            /\ replies' = replies \cup {[bundle |-> desk[p].bundle, record |-> desk[p].bundle.adapter]}
        BY <2>6 DEF RecordAppended, Serves
      <3>2. UNCHANGED log /\ lease'.wire \in {None, lease.wire} /\ pc[p] = "release"
        BY <1>0, <3>1, WireStays, OngoingEffect DEF Release, Ongoing
      <3>3. recorded # None /\ recorded = copy.adapter /\ copy = desk[p].bundle
        BY <1>0, <1>1, <3>1, <3>2 DEF DeskOf
      <3>4. Told'
        BY <1>1, <3>1, <3>3 DEF store
      <3>5. UNCHANGED <<log, recorded>> /\ UNCHANGED cargo
        BY <3>1, <3>2 DEF store
      <3> QED BY <1>6, <1>8, <1>9, <3>2, <3>4, <3>5 DEF StoreFits
    <2> QED BY <1>12, <2>1, <2>2, <2>3, <2>4, <2>5, <2>6 DEF PreserverStep
  <1>13. ASSUME NEW p \in Process, IssuerStep(p) PROVE StoreFits'
    <2>1. desk[p] = None /\ UNCHANGED <<store, replies>>
      BY <1>13 DEF IssuerStep
    <2>2. CASE Ongoing(p)
      <3>1. UNCHANGED log
        BY <1>0, <2>2, OngoingEffect
      <3>2. Sent'
        <4>1. CASE Send(p)
          <5>1. Busy(p) /\ call[p].kind # "family_preserved"
            BY <1>0, <2>1, <4>1 DEF Send, Busy, DeskOf
          <5> QED BY <1>0, <4>1, <5>1, SentWire
        <4>2. CASE ~ Send(p)
          BY <1>0, <1>9, <2>1, <2>2, <4>2, WireStays DEF store, Ongoing
        <4> QED BY <4>1, <4>2
      <3> QED BY <1>6, <1>8, <1>10, <2>1, <3>1, <3>2 DEF StoreFits, store
    <2>3. CASE ~ Ongoing(p)
      BY <1>11, <1>13, <2>1, <2>3 DEF IssuerStep, AppendEvent, Issue, Ongoing
    <2> QED BY <2>2, <2>3
  <1>14. ASSUME NEW r \in Request, GuestStep(r) PROVE StoreFits'
    BY <1>11, <1>14
    DEF GuestStep, Apply, Ask, AcceptGrant, StartTraining, SaveAdapter, ReplaceAdapter, HandOver,
        Report, vars
  <1>15. CASE Wait \/ UNCHANGED trainingVars
    BY <1>11, <1>15 DEF Wait, Tick, store, trainingVars, vars
  <1> QED BY <1>7, <1>12, <1>13, <1>14, <1>15 DEF TrainingNext

-----------------------------------------------------------------------------
\* The invariant of the training holds initially.
LEMMA TrainingInitially == TrainingInit => TInv
  <1> SUFFICES ASSUME TrainingInit PROVE TInv
    OBVIOUS
  <1>1. /\ log \in Seq(Record) /\ Len(log) = 3
        /\ \A i \in 1 .. 3 : log[i].kind \in Admission \cup {"genesis"}
    <2> DEFINE g == [EventRecord("genesis", 0) EXCEPT !.expires = 0]
               h == EventRecord("watchdog_health", 0)
               c == EventRecord("cost_admission", 0)
    <2>1. 0 \in 0 .. MaxTime + Validity /\ 0 + Validity \in 0 .. MaxTime + Validity
      BY LedgerAssumption
    <2>2. /\ g \in Record /\ h \in Record /\ c \in Record
          /\ {g.kind, h.kind, c.kind} \subseteq Admission \cup {"genesis"}
      BY <2>1 DEF EventRecord, Record, Kind, Admission
    <2>3. log = <<g, h, c>>
      BY DEF TrainingInit, Admitted
    <2> HIDE DEF g, h, c
    <2> QED BY <2>2, <2>3
  <1>2. Grants(Len(log)) = {} /\ ~ Preserved(Len(log))
    BY <1>1 DEF Grants, IsGrant, Preserved, Admission
  <1>3. /\ lease \in [holder : Process \cup {None}, until : 0 .. MaxTime + LeaseTime,
                      wire : Record \cup {None}, offset : 0 .. MaxRecords]
        /\ lease.wire = None /\ lease.holder = None
    BY LedgerAssumption DEF TrainingInit, NoLease
  <1>4. now \in Time /\ signed \in 0 .. MaxEnvelopes /\ Len(log) <= MaxRecords
    BY <1>1, LedgerAssumption, TrainingAssumption DEF TrainingInit, Time
  <1>5. LedgerTypeOK
    BY <1>1, <1>3, <1>4 DEF TrainingInit, LedgerTypeOK
  <1>6. LInv
    BY <1>2, <1>3, <1>5
    DEF TrainingInit, LInv, FramesFit, Busy, OneGrant, GrantsAreSigned, WireFits, RepliesMatch,
        SuccessIsCommitted, AnswersAreCommitted
  <1>7. TrainingTypeOK
    BY <1>4, <1>5 DEF TrainingInit, TrainingTypeOK, Stages
  <1>8. StoreFits
    BY <1>2, <1>3 DEF TrainingInit, StoreFits
  <1>9. ASSUME NEW r \in Request PROVE GuestOf(r)
    BY DEF TrainingInit, GuestOf
  <1>10. ASSUME NEW p \in Process PROVE DeskOf(p)
    BY DEF TrainingInit, DeskOf, Busy
  <1> QED BY <1>6, <1>7, <1>8, <1>9, <1>10 DEF TInv

(* In every reachable state of a training run the ledger, the guests, the     *)
(* frames of submit(), the protected blob and what was answered fit together. *)
THEOREM TrainingInvariance == TrainingSpec => []TInv
  <1>1. TInv /\ [TrainingNext]_trainingVars => TInv'
    BY TrainingLedgerStep, TrainingStepType, GuestsStep, DeskStep, StoreStep DEF TInv
  <1> QED BY TrainingInitially, <1>1, PTL DEF TrainingSpec

(* However many guests ask, retry or overlap, one of them at most trains, and *)
(* under the one grant of the ledger.                                         *)
THEOREM OneRunIsPaid == TrainingSpec => []OneRunTrains
  <1>1. TInv => OneRunTrains
    <2> SUFFICES ASSUME TInv, NEW r \in Request, Trains(r)
                 PROVE  /\ \A q \in Request : Trains(q) => q = r
                        /\ \E i \in Grants(Len(log)) : log[i].envelope = Grant(r)
      BY DEF OneRunTrains
    <2>1. \A q \in Request : Trains(q) => Committed(Grant(q)) /\ Grant(q).request = q
      BY DEF TInv, GuestOf, Trains
    <2>2. ASSUME NEW q \in Request, Trains(q) PROVE Grant(q) = Grant(r)
      BY <2>1, <2>2 DEF TInv, LInv, OneGrant, Committed
    <2>3. \A q \in Request : Trains(q) => q = r
      BY <2>1, <2>2
    <2> QED BY <2>1, <2>3 DEF Committed
  <1> QED BY TrainingInvariance, <1>1, PTL

(* The ledger never vouches for an adapter other than the protected one.      *)
THEOREM RecordIsOfTheCopy == TrainingSpec => []RecordIsTheCopy
  <1>1. TInv => RecordIsTheCopy
    BY DEF TInv, StoreFits, RecordIsTheCopy
  <1> QED BY TrainingInvariance, <1>1, PTL

(* A guest reports only the adapter of the ledger's record, whatever answers  *)
(* were lost on the way.                                                      *)
THEOREM ReportsArePreserved == TrainingSpec => []ReportedIsPreserved
  <1>1. TInv => ReportedIsPreserved
    BY DEF TInv, GuestOf, At, ReportedIsPreserved
  <1> QED BY TrainingInvariance, <1>1, PTL

(* Guests and preserver around the ledger do not change what it answers.      *)
THEOREM TrainingAnswersAreGrants == TrainingSpec => []AnswersAreTheGrant
  <1>1. TInv => AnswersAreTheGrant
    BY LedgerAnswers DEF TInv
  <1> QED BY TrainingInvariance, <1>1, PTL
=============================================================================
