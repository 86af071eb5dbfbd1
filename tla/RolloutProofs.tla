--------------------------- MODULE RolloutProofs ---------------------------
(***************************************************************************)
(* Theorems about Rollout for every set of engines, every plan of canary   *)
(* weights and any number of operators, checked by TLAPS.                  *)
(***************************************************************************)
EXTENDS Rollout, TLAPS

\* A write that can still take effect belongs to the intent that is pending.
WritesArePending ==
    \A x \in writes :
        /\ pending # NoIntent
        /\ x.id = pending.id
        /\ x.weight = pending.weight

\* Intents are numbered as they are recorded.
IdsAreFresh ==
    /\ pending # NoIntent => pending.id = ids /\ ids # 0
    /\ \A o \in Operator : view[o] # NoView => view[o].settled <= ids

\* An observation that calls the pending intent settled still shows what both
\* engines serve, for nothing can change that before the next intent.
SettledViewsAreCurrent ==
    \A o \in Operator :
        pending # NoIntent /\ view[o] # NoView /\ view[o].settled = pending.id =>
            /\ writes = {}
            /\ view[o].weight = traffic

\* What is pending follows from what is confirmed.
PendingFollows ==
    /\ rolled => pending = NoIntent
    /\ pending # NoIntent =>
          /\ pending.action = "promote" => step < N /\ pending.weight = Weight[step + 1]
          /\ pending.action = "rollback" => pending.weight = 0
    /\ ~rolled => confirmed = Weight[step]

\* The history is as long as the steps it records.
HistoryCounts ==
    /\ pending = NoIntent /\ ~rolled => version = 2 * step
    /\ pending # NoIntent /\ pending.action = "promote" => version = 2 * step + 1
    /\ pending # NoIntent /\ pending.action = "rollback" => version <= 2 * N + 1
    /\ rolled => version <= 2 * N + 2

\* The inductive invariant.
RInv ==
    /\ RolloutTypeOK
    /\ ConfirmedIsReal
    /\ WritesArePending
    /\ IdsAreFresh
    /\ SettledViewsAreCurrent
    /\ PendingFollows
    /\ HistoryCounts

-----------------------------------------------------------------------------
\* create() starts from a state the invariant describes.
LEMMA InitHolds == RolloutInit => RInv
<1> SUFFICES ASSUME RolloutInit PROVE RInv
  OBVIOUS
<1> USE RolloutAssumption DEF RolloutInit
<1>1. view \in [Operator -> View \union {NoView}] /\ traffic \in [Engine -> 0..100]
  OBVIOUS
<1>2. RolloutTypeOK
  <2>1. now \in Nat /\ version \in 0..MaxHistory /\ step \in 0..N /\ confirmed \in 0..100 /\ ids \in Nat
    OBVIOUS
  <2>2. rolled \in BOOLEAN /\ pending \in Intent \union {NoIntent}
    OBVIOUS
  <2>3. writes \subseteq Write /\ sick \subseteq Slots
    OBVIOUS
  <2>4. QED
    BY <1>1, <2>1, <2>2, <2>3 DEF RolloutTypeOK
<1>3. ConfirmedIsReal /\ WritesArePending
  BY DEF ConfirmedIsReal, WritesArePending
<1>4. IdsAreFresh /\ SettledViewsAreCurrent
  BY DEF IdsAreFresh, SettledViewsAreCurrent
<1>5. PendingFollows /\ HistoryCounts
  BY DEF PendingFollows, HistoryCounts
<1>6. QED
  BY <1>2, <1>3, <1>4, <1>5 DEF RInv

\* Recording an intent keeps the invariant when nothing is in flight and the
\* history has room: the common part of promote() and rollback().
LEMMA RecordHolds ==
    ASSUME RInv, NEW action \in {"promote", "rollback"}, NEW weight \in 0..100,
           Record(action, weight), writes = {}, ~rolled,
           pending # NoIntent => pending.action = "promote",
           action = "promote" => pending = NoIntent /\ step < N /\ weight = Weight[step + 1],
           action = "rollback" => weight = 0
    PROVE  RInv'
<1> DEFINE new == [id |-> ids + 1, action |-> action, weight |-> weight, at |-> now]
<1>0. RolloutTypeOK /\ ids \in Nat /\ now \in Nat
  BY DEF RInv, RolloutTypeOK
<1>1. new \in Intent
  BY <1>0 DEF Intent
<1>2. new # NoIntent
  BY <1>1, MarkerAssumption
<1>3. pending' = new /\ ids' = ids + 1 /\ version' = version + 1 /\ version < MaxHistory
  BY DEF Record, Save
<1>4. UNCHANGED <<now, step, confirmed, rolled, view, traffic, sick>>
  BY DEF Record
<1>5. writes' = [id : {ids + 1}, engine : Engine, weight : {weight}]
  BY DEF Record
<1>6. writes' \subseteq Write
  BY <1>0, <1>5 DEF Write
<1>7. version' \in 0..MaxHistory
  BY <1>0, <1>3, RolloutAssumption DEF RolloutTypeOK
<1>8. RolloutTypeOK'
  <2> HIDE DEF new
  <2>1. pending' \in Intent \union {NoIntent} /\ ids' \in Nat
    BY <1>0, <1>1, <1>3
  <2>2. QED
    BY <1>0, <1>4, <1>6, <1>7, <2>1 DEF RolloutTypeOK
<1>9. new.id = ids + 1 /\ new.action = action /\ new.weight = weight
  OBVIOUS
<1> HIDE DEF new
<1>10. WritesArePending' /\ ConfirmedIsReal'
  BY <1>2, <1>3, <1>5, <1>9 DEF WritesArePending, ConfirmedIsReal
<1>11. IdsAreFresh'
  <2>1. ASSUME NEW o \in Operator, view[o] # NoView PROVE view[o].settled <= ids + 1
    <3>1. view[o].settled \in Nat /\ view[o].settled <= ids
      BY <1>0, <2>1 DEF RInv, RolloutTypeOK, IdsAreFresh, View
    <3>2. QED
      BY <1>0, <3>1
  <2>2. QED
    BY <1>0, <1>2, <1>3, <1>4, <1>9, <2>1 DEF IdsAreFresh
<1>12. SettledViewsAreCurrent'
  <2>1. ASSUME NEW o \in Operator, view[o] # NoView PROVE view[o].settled # ids + 1
    <3>1. view[o].settled \in Nat /\ view[o].settled <= ids
      BY <1>0, <2>1 DEF RInv, RolloutTypeOK, IdsAreFresh, View
    <3>2. QED
      BY <1>0, <3>1
  <2>2. QED
    BY <1>2, <1>3, <1>4, <1>9, <2>1 DEF SettledViewsAreCurrent
<1>13. PendingFollows'
  BY <1>2, <1>3, <1>4, <1>9 DEF PendingFollows, RInv
<1>14. HistoryCounts'
  <2>1. version \in Nat /\ step \in 0..N /\ N \in Nat
    BY <1>0, RolloutAssumption DEF RolloutTypeOK
  <2>2. version = 2 * step \/ (pending # NoIntent /\ version = 2 * step + 1)
    BY DEF RInv, HistoryCounts
  <2>3. action = "promote" => version + 1 = 2 * step + 1
    BY <2>1, <2>2
  <2>4. pending # NoIntent => step < N
    BY DEF RInv, PendingFollows
  <2>5. version + 1 <= 2 * N + 1
    BY <2>1, <2>2, <2>4
  <2>6. QED
    BY <1>2, <1>3, <1>4, <1>9, <2>3, <2>5 DEF HistoryCounts
<1>15. QED
  BY <1>8, <1>10, <1>11, <1>12, <1>13, <1>14 DEF RInv

\* An observation presented as valid and settled for the pending intent shows
\* that no write of it, and so no write at all, is outstanding.
LEMMA SettledMeansQuiet ==
    ASSUME RInv, NEW o \in Operator, view[o] # NoView,
           pending # NoIntent, view[o].settled = pending.id
    PROVE  writes = {} /\ view[o].weight = traffic
BY DEF RInv, SettledViewsAreCurrent

\* No call, observation, late or lost write, health change or tick breaks it.
LEMMA StepHolds == RInv /\ [RolloutNext]_rolloutVars => RInv'
<1> SUFFICES ASSUME RInv, [RolloutNext]_rolloutVars PROVE RInv'
  OBVIOUS
<1> USE RolloutAssumption, MarkerAssumption
<1>1. ASSUME NEW o \in Operator, Promote(o) PROVE RInv'
  <2>1. pending = NoIntent /\ ~rolled /\ step < N /\ Record("promote", Weight[step + 1])
    BY <1>1 DEF Promote
  <2>2. Weight[step + 1] \in 0..100 /\ writes = {}
    BY <2>1 DEF RInv, RolloutTypeOK, ConfirmedIsReal
  <2>3. QED
    BY <2>1, <2>2, RecordHolds
<1>2. ASSUME NEW o \in Operator, Rollback(o) PROVE RInv'
  <2>1. ~rolled /\ Record("rollback", 0) /\ view[o] # NoView
    BY <1>2 DEF Rollback, Valid
  <2>2. pending # NoIntent => pending.action = "promote" /\ view[o].settled = pending.id
    BY <1>2 DEF Rollback, RInv, RolloutTypeOK, Intent
  <2>3. writes = {}
    BY <2>1, <2>2, SettledMeansQuiet DEF RInv, ConfirmedIsReal
  <2>4. QED
    BY <2>1, <2>2, <2>3, RecordHolds
<1>3. ASSUME NEW o \in Operator, Confirm(o) PROVE RInv'
  <2> USE DEF RInv, RolloutTypeOK
  <2>1. /\ pending # NoIntent /\ pending \in Intent
        /\ view[o].settled = pending.id
        /\ AtTarget(view[o])
        /\ confirmed' = pending.weight
        /\ rolled' = (pending.action = "rollback")
        /\ step' = IF pending.action = "promote" THEN step + 1 ELSE step
        /\ pending' = NoIntent
        /\ version < MaxHistory /\ version' = version + 1
        /\ UNCHANGED <<now, ids, view, worldVars>>
    BY <1>3 DEF Confirm, Save
  <2>2. writes = {} /\ view[o].weight = traffic
    BY <1>3, <2>1, SettledMeansQuiet DEF Confirm, Valid
  <2>3. \A e \in Engine : traffic[e] = pending.weight
    BY <2>1, <2>2 DEF AtTarget
  <2>4. RolloutTypeOK'
    <3>1. pending.weight \in 0..100 /\ version' \in 0..MaxHistory
      BY <2>1 DEF Intent
    <3>2. step' \in 0..N
      BY <2>1 DEF PendingFollows
    <3>3. rolled' \in BOOLEAN
      BY <2>1
    <3>4. QED
      BY <2>1, <3>1, <3>2, <3>3 DEF worldVars
  <2>5. ConfirmedIsReal' /\ WritesArePending'
    BY <2>1, <2>2, <2>3 DEF worldVars, ConfirmedIsReal, WritesArePending, PendingFollows, Intent
  <2>6. IdsAreFresh' /\ SettledViewsAreCurrent'
    BY <2>1 DEF IdsAreFresh, SettledViewsAreCurrent
  <2>7. PendingFollows' /\ HistoryCounts'
    <3>1. CASE pending.action = "promote"
      <4>1. version = 2 * step + 1 /\ step < N /\ pending.weight = Weight[step + 1]
        BY <2>1, <3>1 DEF PendingFollows, HistoryCounts
      <4>2. step' = step + 1
        BY <2>1, <3>1
      <4>3. version' = 2 * step'
        BY <2>1, <4>1, <4>2
      <4>4. ~rolled'
        <5>1. pending.action # "rollback"
          BY <3>1
        <5>2. QED
          BY <2>1, <5>1, Zenon
      <4>5. QED
        BY <2>1, <4>1, <4>2, <4>3, <4>4 DEF PendingFollows, HistoryCounts
    <3>2. CASE pending.action = "rollback"
      <4>1. version' <= 2 * N + 2
        BY <2>1, <3>2 DEF HistoryCounts
      <4>2. rolled'
        BY <2>1, <3>2, Zenon
      <4>3. QED
        BY <2>1, <4>1, <4>2 DEF PendingFollows, HistoryCounts
    <3>3. QED
      BY <2>1, <3>1, <3>2 DEF Intent
  <2>8. QED
    BY <2>4, <2>5, <2>6, <2>7
<1>4. ASSUME NEW o \in Operator, Observe(o) PROVE RInv'
  <2> USE DEF RInv, RolloutTypeOK
  <2>1. PICK intent \in Current \union {0}, settled \in Quiet \union {0} :
            view' = [view EXCEPT ![o] = [at |-> now, intent |-> intent, settled |-> settled,
                                         weight |-> traffic, sick |-> sick]]
    BY <1>4 DEF Observe
  <2>2. UNCHANGED <<now, journalVars, worldVars>>
    BY <1>4 DEF Observe
  <2>3. Current \subseteq {ids}
    BY DEF Current, IdsAreFresh
  <2>4. intent \in Nat /\ settled \in Nat /\ settled <= ids
    BY <2>3 DEF Quiet
  <2>5. RolloutTypeOK'
    <3> DEFINE seen == [at |-> now, intent |-> intent, settled |-> settled,
                        weight |-> traffic, sick |-> sick]
    <3>1. seen \in View
      BY <2>4 DEF View
    <3> HIDE DEF seen
    <3>2. view' \in [Operator -> View \union {NoView}]
      BY <2>1, <3>1 DEF seen
    <3>3. QED
      BY <2>2, <3>2 DEF journalVars, worldVars
  <2>6. pending # NoIntent /\ settled = pending.id => writes = {}
    <3> SUFFICES ASSUME pending # NoIntent, settled = pending.id, NEW x \in writes PROVE FALSE
      OBVIOUS
    <3>1. x.id = pending.id
      BY DEF WritesArePending
    <3>2. pending.id # 0
      BY DEF IdsAreFresh
    <3>3. QED
      BY <3>1, <3>2 DEF Quiet
  <2>7. SettledViewsAreCurrent'
    BY <2>1, <2>2, <2>6 DEF journalVars, worldVars, SettledViewsAreCurrent
  <2>8. IdsAreFresh'
    BY <2>1, <2>2, <2>4 DEF journalVars, IdsAreFresh
  <2>9. QED
    BY <2>2, <2>5, <2>7, <2>8 DEF journalVars, worldVars, ConfirmedIsReal, WritesArePending,
       PendingFollows, HistoryCounts
<1>5. ASSUME NEW x \in writes, Land(x) \/ Lose(x) PROVE RInv'
  <2> USE DEF RInv, RolloutTypeOK
  <2>1. writes' = writes \ {x} /\ UNCHANGED <<now, journalVars, view, sick>>
    BY <1>5 DEF Land, Lose
  <2>2. traffic' \in [Engine -> 0..100]
    BY <1>5 DEF Land, Lose, Write
  <2>3. pending # NoIntent
    BY DEF WritesArePending
  <2>4. SettledViewsAreCurrent'
    BY <2>1 DEF journalVars, SettledViewsAreCurrent
  <2>5. QED
    BY <2>1, <2>2, <2>3, <2>4 DEF journalVars, ConfirmedIsReal, WritesArePending, IdsAreFresh,
       PendingFollows, HistoryCounts
<1>6. CASE ChangeHealth
  <2>1. UNCHANGED <<now, journalVars, view, traffic, writes>>
    BY <1>6 DEF ChangeHealth
  <2>2. sick' \subseteq Slots
    BY <1>6 DEF ChangeHealth, RInv, RolloutTypeOK
  <2>3. RolloutTypeOK'
    BY <2>1, <2>2 DEF journalVars, RInv, RolloutTypeOK
  <2>4. QED
    BY <2>1, <2>3 DEF journalVars, RInv, ConfirmedIsReal,
       WritesArePending, IdsAreFresh, SettledViewsAreCurrent, PendingFollows, HistoryCounts
<1>7. CASE Tick
  <2>1. UNCHANGED <<journalVars, view, worldVars>>
    BY <1>7 DEF Tick
  <2>2. now' \in Nat
    BY <1>7 DEF Tick, RInv, RolloutTypeOK
  <2>3. RolloutTypeOK'
    BY <2>1, <2>2 DEF journalVars, worldVars, RInv, RolloutTypeOK
  <2>4. QED
    BY <2>1, <2>3 DEF journalVars, worldVars, RInv, ConfirmedIsReal,
       WritesArePending, IdsAreFresh, SettledViewsAreCurrent, PendingFollows, HistoryCounts
<1>8. CASE UNCHANGED rolloutVars
  BY <1>8 DEF rolloutVars, journalVars, worldVars, RInv, RolloutTypeOK, ConfirmedIsReal,
     WritesArePending, IdsAreFresh, SettledViewsAreCurrent, PendingFollows, HistoryCounts
<1>9. QED
  BY <1>1, <1>2, <1>3, <1>4, <1>5, <1>6, <1>7, <1>8 DEF RolloutNext

-----------------------------------------------------------------------------
\* The inductive invariant of the journal, its observers and the platform
\* holds in every reachable state.
THEOREM RolloutInvariance == RolloutSpec => []RInv
BY InitHolds, StepHolds, PTL DEF RolloutSpec

\* What the journal confirmed is what both engines serve, for every plan and
\* any interleaving of operators, late writes and lost writes.
THEOREM ConfirmationIsReal == RolloutSpec => []ConfirmedIsReal
<1>1. RInv => ConfirmedIsReal
  BY DEF RInv
<1>2. QED
  BY <1>1, RolloutInvariance, PTL

\* A rollback is never refused because the history is full.
THEOREM RollbackHasRoom == RolloutSpec => []RoomForRollback
<1>1. RInv => RoomForRollback
  <2> SUFFICES ASSUME RInv, ~rolled PROVE RoomForRollback
    BY DEF RoomForRollback
  <2> USE RolloutAssumption DEF RInv, RolloutTypeOK, HistoryCounts, RoomForRollback, PendingFollows
  <2>1. CASE pending = NoIntent
    BY <2>1
  <2>2. CASE pending # NoIntent
    BY <2>2 DEF Intent
  <2>3. QED
    BY <2>1, <2>2
<1>2. QED
  BY <1>1, RolloutInvariance, PTL

\* Once a rollback is recorded no engine gains candidate traffic: every write
\* that can still take effect is one of the rollback itself.
THEOREM RollbackOnlyLowers == RolloutSpec => NoExposureAfterRollback
<1> DEFINE Leaving == rolled \/ (pending # NoIntent /\ pending.action = "rollback")
           Lower == \A e \in Engine : traffic'[e] <= traffic[e]
<1>1. ASSUME RInv, [RolloutNext]_rolloutVars, Leaving PROVE Lower
  <2> USE DEF RInv, RolloutTypeOK
  <2>1. ASSUME NEW x \in writes, Land(x) PROVE Lower
    <3>1. pending # NoIntent /\ x.weight = 0
      BY <1>1 DEF WritesArePending, PendingFollows
    <3>2. traffic' = [traffic EXCEPT ![x.engine] = 0]
      BY <2>1, <3>1 DEF Land
    <3>3. QED
      BY <1>1, <3>2
  <2>2. CASE UNCHANGED traffic
    BY <1>1, <2>2
  <2>3. QED
    BY <1>1, <2>1, <2>2 DEF RolloutNext, Promote, Rollback, Confirm, Record, Observe, Lose,
       ChangeHealth, Tick, worldVars, rolloutVars
<1>2. RInv /\ [RolloutNext]_rolloutVars => [Leaving => Lower]_rolloutVars
  BY <1>1
<1>3. QED
  BY <1>2, RolloutInvariance, PTL DEF RolloutSpec, NoExposureAfterRollback
=============================================================================
