------------------------------ MODULE Rollout ------------------------------
(***************************************************************************)
(* The journal of a two-engine traffic rollout (release/rollout.py         *)
(* RehearsalJournal): a promotion or a rollback is first recorded as a     *)
(* durable intent, the traffic writes happen elsewhere and asynchronously, *)
(* and an observation of both engines confirms it.                         *)
(*                                                                         *)
(* Every method is one BEGIN IMMEDIATE transaction.  Each operator holds   *)
(* the last observation it made and may present it much later; it always   *)
(* knows the current version, since one that does not is refused.  Gate    *)
(* evidence for that version may or may not exist: promote() then does or  *)
(* does not happen.  An intent id is a fresh uuid; intents are numbered.   *)
(***************************************************************************)
EXTENDS Integers

CONSTANTS
    Engine,     \* ENGINES
    N,          \* number of canary weights of the plan
    Weight,     \* Weight[k]: the k-th canary weight, Weight[0] = 0
    Operator,   \* processes that call the journal
    NoIntent,   \* pending is None
    NoView,     \* an operator that has observed nothing yet
    Validity,   \* how long an observation is valid
    MaxHistory, \* the limit in _save
    MaxTime     \* bound: the clock stops here

ASSUME RolloutAssumption ==
    /\ N \in Nat \ {0}
    /\ Weight \in [0..N -> 0..100]
    /\ Weight[0] = 0
    /\ \A i, k \in 0..N : i < k => Weight[i] < Weight[k]
    /\ Validity \in Nat /\ MaxTime \in Nat
    /\ MaxHistory \in Nat /\ 2 * N + 2 <= MaxHistory

Slots == {"baseline", "candidate"}
Intent == [id : Nat, action : {"promote", "rollback"}, weight : 0..100, at : Nat]
Write == [id : Nat, engine : Engine, weight : 0..100]
View == [at : Nat, intent : Nat, settled : Nat, weight : [Engine -> 0..100], sick : SUBSET Slots]

ASSUME MarkerAssumption == NoIntent \notin Intent /\ NoView \notin View

VARIABLES
    now,        \* now_ms
    version,    \* state.version; it also counts the history entries
    step,       \* state.step + 1: the promotions confirmed
    confirmed,  \* state.confirmed_weight
    pending,    \* state.pending
    rolled,     \* state.rolled_back
    ids,        \* intents recorded so far
    view,       \* view[o]: the observation operator o holds
    traffic,    \* traffic[e]: weight of the candidate on engine e
    writes,     \* traffic writes that may still take effect
    sick        \* slots unhealthy on some engine

journalVars == <<version, step, confirmed, pending, rolled, ids>>
worldVars == <<traffic, writes, sick>>
rolloutVars == <<now, journalVars, view, worldVars>>

RolloutTypeOK ==
    /\ now \in Nat
    /\ version \in 0..MaxHistory
    /\ step \in 0..N
    /\ confirmed \in 0..100
    /\ pending \in Intent \union {NoIntent}
    /\ rolled \in BOOLEAN
    /\ ids \in Nat
    /\ view \in [Operator -> View \union {NoView}]
    /\ traffic \in [Engine -> 0..100]
    /\ writes \subseteq Write
    /\ sick \subseteq Slots

\* create() takes a plan and a healthy baseline with all of the traffic.
RolloutInit ==
    /\ now = 0
    /\ version = 0
    /\ step = 0
    /\ confirmed = 0
    /\ pending = NoIntent
    /\ rolled = FALSE
    /\ ids = 0
    /\ view = [o \in Operator |-> NoView]
    /\ traffic = [e \in Engine |-> 0]
    /\ writes = {}
    /\ sick = {}

-----------------------------------------------------------------------------
(* The journal.                                                            *)

\* validate_observation: the part that depends on the time.
Valid(v) == v # NoView /\ v.at <= now /\ now < v.at + Validity

Save == version < MaxHistory /\ version' = version + 1

\* _intent, and the writes its caller may now begin.
Record(action, weight) ==
    /\ pending' = [id |-> ids + 1, action |-> action, weight |-> weight, at |-> now]
    /\ ids' = ids + 1
    /\ writes' = writes \union [id : {ids + 1}, engine : Engine, weight : {weight}]
    /\ Save
    /\ UNCHANGED <<now, step, confirmed, rolled, view, traffic, sick>>

Promote(o) ==
    LET v == view[o] IN
    /\ pending = NoIntent
    /\ ~rolled
    /\ step < N
    /\ Valid(v)
    /\ v.intent = 0
    /\ \A e \in Engine : v.weight[e] = confirmed
    /\ v.sick = {}
    /\ Record("promote", Weight[step + 1])

\* Fault: an observed weight is taken for the settlement of the pending write.
RollbackUnsettled(o) ==
    /\ ~rolled
    /\ pending # NoIntent => pending.action # "rollback"
    /\ Valid(view[o])
    /\ view[o].intent = 0
    /\ "baseline" \notin view[o].sick
    /\ Record("rollback", 0)

\* Fault: a rollback can be asked for again while one is pending.
RollbackAgain(o) ==
    /\ ~rolled
    /\ Valid(view[o])
    /\ view[o].intent = 0
    /\ "baseline" \notin view[o].sick
    /\ pending # NoIntent => view[o].settled = pending.id
    /\ Record("rollback", 0)

Rollback(o) ==
    LET v == view[o] IN
    /\ ~rolled
    /\ Valid(v)
    /\ v.intent = 0
    /\ "baseline" \notin v.sick
    /\ pending # NoIntent =>
           /\ pending.action # "rollback"
           /\ v.settled = pending.id
           /\ v.at >= pending.at
    /\ Record("rollback", 0)

\* Fault: one engine at the target weight is enough.
AtTargetSomewhere(v) == \E e \in Engine : v.weight[e] = pending.weight

AtTarget(v) == \A e \in Engine : v.weight[e] = pending.weight

Confirm(o) ==
    LET v == view[o] IN
    /\ pending # NoIntent
    /\ Valid(v)
    /\ v.intent = pending.id
    /\ v.settled = pending.id
    /\ v.at >= pending.at
    /\ AtTarget(v)
    /\ "baseline" \notin v.sick
    /\ pending.action = "promote" => "candidate" \notin v.sick
    /\ confirmed' = pending.weight
    /\ rolled' = (pending.action = "rollback")
    /\ step' = IF pending.action = "promote" THEN step + 1 ELSE step
    /\ pending' = NoIntent
    /\ Save
    /\ UNCHANGED <<now, ids, view, worldVars>>

-----------------------------------------------------------------------------
(* The platform and the observers, which the journal only trusts: an       *)
(* observation is a snapshot, and it calls an intent settled when no write *)
(* of it can take effect any more.                                         *)

Current == IF pending = NoIntent THEN {} ELSE {pending.id}
Quiet == {i \in Current : \A x \in writes : x.id # i}

Observe(o) ==
    /\ \E intent \in Current \union {0}, settled \in Quiet \union {0} :
          view' = [view EXCEPT ![o] = [at |-> now, intent |-> intent, settled |-> settled,
                                       weight |-> traffic, sick |-> sick]]
    /\ UNCHANGED <<now, journalVars, worldVars>>

Land(x) ==
    /\ x \in writes
    /\ writes' = writes \ {x}
    /\ traffic' = [traffic EXCEPT ![x.engine] = x.weight]
    /\ UNCHANGED <<now, journalVars, view, sick>>

Lose(x) ==
    /\ x \in writes
    /\ writes' = writes \ {x}
    /\ UNCHANGED <<now, journalVars, view, traffic, sick>>

ChangeHealth ==
    /\ \E s \in Slots : sick' = IF s \in sick THEN sick \ {s} ELSE sick \union {s}
    /\ UNCHANGED <<now, journalVars, view, traffic, writes>>

Tick ==
    /\ now < MaxTime
    /\ now' = now + 1
    /\ UNCHANGED <<journalVars, view, worldVars>>

RolloutNext ==
    \/ \E o \in Operator : Promote(o) \/ Rollback(o) \/ Confirm(o) \/ Observe(o)
    \/ \E x \in writes : Land(x) \/ Lose(x)
    \/ ChangeHealth
    \/ Tick

RolloutSpec == RolloutInit /\ [][RolloutNext]_rolloutVars
-----------------------------------------------------------------------------
(* Properties.                                                             *)

\* With nothing pending the journal tells the truth: both engines serve the
\* confirmed weight and no write can still change that.  After a rollback it
\* stays at the baseline.
ConfirmedIsReal ==
    pending = NoIntent =>
        /\ writes = {}
        /\ \A e \in Engine : traffic[e] = confirmed
        /\ rolled => confirmed = 0
        /\ ~rolled => confirmed = Weight[step]

\* From the moment a rollback is recorded no engine gains candidate traffic,
\* whatever was in flight before.
NoExposureAfterRollback ==
    [][rolled \/ (pending # NoIntent /\ pending.action = "rollback") =>
          \A e \in Engine : traffic'[e] <= traffic[e]]_rolloutVars

\* The bounded history never stands in the way of leaving the candidate: there
\* is always room to record and to confirm a rollback.
RoomForRollback ==
    ~rolled =>
        version + (IF pending # NoIntent /\ pending.action = "rollback" THEN 1 ELSE 2)
            <= MaxHistory
=============================================================================
