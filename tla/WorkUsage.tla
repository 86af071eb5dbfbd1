----------------------------- MODULE WorkUsage -----------------------------
(***************************************************************************)
(* The Work allowance of one owner (usage/work_week.py WorkUsageLedger):   *)
(* units are reserved before a job is dispatched and settled by a receipt. *)
(*                                                                         *)
(* A method runs under BEGIN IMMEDIATE, so only one writes at a time, but  *)
(* it calls out for the grant and the clock, and those change while it     *)
(* runs.  A reservation takes a step for each look at them and one for the *)
(* insert with its commit.  The other methods are one step at their last   *)
(* look: the lock keeps everybody else out until they commit, and what     *)
(* they write does not depend on the clock or the grant any more.          *)
(***************************************************************************)
EXTENDS Integers, Functions

CONSTANTS
    Job,
    Standard,   \* Standard[j]: standard_units of the quote of job j
    Fast,       \* Fast[j]: the quote asks for the faster backend
    Deadline,   \* Deadline[j]: original deadline of the job
    Weeks,      \* the weeks an administrator may configure
    NoWeek,     \* the missing work_weeks row
    Receipt,    \* receipts of reconciled, quiescent work
    NoReceipt,  \* NULL
    NoJob,      \* no reservation in progress
    MaxTime     \* bound: the clock stops here

Week == [period : Nat \ {0}, starts : Nat, ends : Nat, plus : Nat \ {0}]

ASSUME UsageAssumption ==
    /\ Standard \in [Job -> Nat \ {0}]
    /\ Fast \in [Job -> BOOLEAN]
    /\ Deadline \in [Job -> Nat]
    /\ Weeks \subseteq Week
    /\ NoWeek \notin Week
    /\ NoReceipt \notin Receipt
    /\ NoJob \notin Job
    /\ MaxTime \in Nat

VARIABLES
    now,        \* the trusted clock
    tier,       \* tier of the current grant, "none" when it is refused
    week,       \* the work_weeks row
    period,     \* period[j] of the work_usage row, 0 without one
    settled,    \* settled[j], -1 for NULL
    receipt,    \* receipt[j]
    reserving,  \* the job whose reservation holds the lock
    step,       \* how far it has come
    seenTier,   \* the tier it read
    counted,    \* ghost: the time when it counted the room
    granted     \* ghost: tiers of the grant since it last read the clock

usageVars == <<period, settled, receipt>>
lockVars == <<reserving, step, seenTier, counted, granted>>
allUsage == <<now, tier, week, usageVars, lockVars>>

Tiers == {"plus", "pro", "none"}
Unlocked == reserving = NoJob

\* usage_units: ceil(3n/2) for Fast work, once per job.
Units(n, fast) == IF fast THEN (3 * n + 1) \div 2 ELSE n

Reserved(j) == Units(Standard[j], Fast[j])
Rows == {j \in Job : period[j] # 0}
Within(w, t) == w.starts <= t /\ t < w.ends
Open(w) == w # NoWeek /\ Within(w, now)
Cap(t) == IF t = "pro" THEN 5 * week.plus ELSE week.plus

UsageTypeOK ==
    /\ now \in Nat
    /\ tier \in Tiers
    /\ week \in Weeks \union {NoWeek}
    /\ period \in [Job -> Nat]
    /\ settled \in [Job -> Nat \union {-1}]
    /\ receipt \in [Job -> Receipt \union {NoReceipt}]
    /\ reserving \in Job \union {NoJob}
    /\ step \in {"none", "begun", "dated", "counted", "looked", "confirmed"}
    /\ seenTier \in Tiers
    /\ counted \in Nat
    /\ granted \subseteq Tiers

UsageInit ==
    /\ now = 0
    /\ tier = "plus"
    /\ week = NoWeek
    /\ period = [j \in Job |-> 0]
    /\ settled = [j \in Job |-> -1]
    /\ receipt = [j \in Job |-> NoReceipt]
    /\ reserving = NoJob /\ step = "none" /\ seenTier = "none"
    /\ counted = 0 /\ granted = {}

-----------------------------------------------------------------------------
(* _validate_record: a row that fails it makes every method raise.         *)

ValidRecord(j) ==
    /\ settled[j] = -1 <=> receipt[j] = NoReceipt
    /\ settled[j] # -1 =>
           /\ settled[j] \in 0..Reserved(j)
           /\ Fast[j] => Units((settled[j] * 2) \div 3, TRUE) = settled[j]

\* _totals of the owner, in period p.
Held == SumFunctionOnSet([j \in Job |-> Reserved(j)], {j \in Rows : settled[j] = -1})
Used(p) == SumFunctionOnSet(settled, {j \in Rows : period[j] = p /\ settled[j] # -1})

\* Fault: a new week forgets what is outstanding from the old one.
CommittedThisPeriod ==
    Used(week.period) + SumFunctionOnSet([j \in Job |-> Reserved(j)],
                            {j \in Rows : settled[j] = -1 /\ period[j] = week.period})

\* Used in this week, and outstanding from any week.
Committed == Used(week.period) + Held

-----------------------------------------------------------------------------
\* A week already configured is left alone; a new one must follow it.
ConfigureWeek(w) ==
    /\ Unlocked
    /\ Open(w)
    /\ week # NoWeek =>
           /\ w.period # week.period
           /\ now >= week.ends
           /\ w.starts >= week.ends
           /\ \A j \in Rows : period[j] # w.period
    /\ week' = w
    /\ UNCHANGED <<now, tier, usageVars, lockVars>>

\* reserve_for_job takes the lock; the grant is still the one it came with.
StartReserve(j) ==
    /\ Unlocked
    /\ tier \in {"plus", "pro"}
    /\ reserving' = j /\ step' = "begun" /\ seenTier' = tier
    /\ UNCHANGED <<now, tier, week, usageVars, counted, granted>>

\* _week
DateReserve ==
    /\ step = "begun"
    /\ Open(week)
    /\ step' = "dated"
    /\ UNCHANGED <<now, tier, week, usageVars, reserving, seenTier, counted, granted>>

\* The deadline, and the room in the cap of the tier that was read.
CountRoom ==
    /\ step = "dated"
    /\ now < Deadline[reserving]
    /\ period[reserving] = 0
    /\ \A k \in Rows : settled[k] = -1 \/ period[k] = week.period => ValidRecord(k)
    /\ Committed + Reserved(reserving) <= Cap(seenTier)
    /\ step' = "counted" /\ counted' = now
    /\ UNCHANGED <<now, tier, week, usageVars, reserving, seenTier, granted>>

\* The second look at the clock.
LookAgain ==
    /\ step = "counted"
    /\ Within(week, now) /\ now < Deadline[reserving]
    /\ step' = "looked" /\ granted' = {tier}
    /\ UNCHANGED <<now, tier, week, usageVars, reserving, seenTier, counted>>

\* Fault: the grant is not compared again.
ConfirmAnyGrant ==
    /\ step = "looked"
    /\ step' = "confirmed"
    /\ UNCHANGED <<now, tier, week, usageVars, reserving, seenTier, counted, granted>>

\* _same_grant before the insert
ConfirmGrant ==
    /\ step = "looked"
    /\ tier = seenTier
    /\ step' = "confirmed"
    /\ UNCHANGED <<now, tier, week, usageVars, reserving, seenTier, counted, granted>>

Unlock ==
    /\ reserving' = NoJob /\ step' = "none" /\ seenTier' = "none"
    /\ counted' = 0 /\ granted' = {}

\* The insert and its commit, whatever the grant and the clock say by now.
InsertReservation ==
    /\ step = "confirmed"
    /\ period' = [period EXCEPT ![reserving] = week.period]
    /\ Unlock
    /\ UNCHANGED <<now, tier, week, settled, receipt>>

\* A check fails, a callback raises or the process dies: ROLLBACK.  A job that
\* has a row is only told about it.
RollBack ==
    /\ ~Unlocked
    /\ Unlock
    /\ UNCHANGED <<now, tier, week, usageVars>>

\* Fault: a later receipt settles the job again.
SettleAgain(j, r, n) ==
    /\ Unlocked /\ tier # "none" /\ j \in Rows /\ n \in 0..Standard[j]
    /\ settled' = [settled EXCEPT ![j] = Units(n, Fast[j])]
    /\ receipt' = [receipt EXCEPT ![j] = r]
    /\ UNCHANGED <<now, tier, week, period, lockVars>>

\* The verified receipt reconciles n standard units of a quiescent job.  The
\* tier does not matter, only that the grant is still the owner's.
Settle(j, r, n) ==
    /\ Unlocked
    /\ tier # "none"
    /\ j \in Rows
    /\ ValidRecord(j)
    /\ receipt[j] = NoReceipt
    /\ n \in 0..Standard[j]
    /\ \A k \in Rows : receipt[k] # r
    /\ settled' = [settled EXCEPT ![j] = Units(n, Fast[j])]
    /\ receipt' = [receipt EXCEPT ![j] = r]
    /\ UNCHANGED <<now, tier, week, period, lockVars>>

\* Upgrades, downgrades and revocations, and time: at any moment.
ChangeTier ==
    /\ tier' \in Tiers \ {tier}
    /\ granted' = IF step \in {"looked", "confirmed"} THEN granted \union {tier'} ELSE granted
    /\ UNCHANGED <<now, week, usageVars, reserving, step, seenTier, counted>>

Tick == now < MaxTime /\ now' = now + 1 /\ UNCHANGED <<tier, week, usageVars, lockVars>>

UsageNext ==
    \/ \E w \in Weeks : ConfigureWeek(w)
    \/ \E j \in Job :
          \/ StartReserve(j)
          \/ \E r \in Receipt : \E n \in 0..Standard[j] : Settle(j, r, n)
    \/ DateReserve \/ CountRoom \/ LookAgain \/ ConfirmGrant \/ InsertReservation
    \/ RollBack
    \/ ChangeTier
    \/ Tick

UsageSpec == UsageInit /\ [][UsageNext]_allUsage
-----------------------------------------------------------------------------
(* Properties.                                                             *)

\* Every row the ledger wrote can be read back: no reachable debit fails the
\* inverse _validate_record computes, which would lock the owner out.
RecordsStayValid == \A j \in Rows : ValidRecord(j)

\* What is used in this week together with everything outstanding from any
\* week never exceeds the largest allowance a week of this owner had: a reset
\* or a downgrade does not create room while old work is unsettled.
OutstandingFits ==
    week # NoWeek =>
        \E w \in Weeks : Used(week.period) + Held <= 5 * w.plus

\* What a reservation counted on was still so when it was inserted, as far as a
\* caller can know.  Since the room was counted there was a moment within the
\* week and before the deadline; since the clock was last read, one at which the
\* owner held the tier that was counted for; and the room is still there.
AdmittedAsCounted ==
    [][\A j \in Job : period[j] = 0 /\ period'[j] # 0 =>
          /\ \E t \in counted..now : Within(week, t) /\ t < Deadline[j]
          /\ seenTier \in granted \intersect {"plus", "pro"}
          /\ Used(week.period) + Held + Reserved(j) <= Cap(seenTier)]_allUsage

\* A job is debited once, to the week that reserved it, and never for more
\* than it reserved; a receipt settles one job.
DebitedOnce ==
    [][\A j \in Job :
          /\ period[j] # 0 => period'[j] = period[j]
          /\ settled[j] # -1 => settled'[j] = settled[j] /\ receipt'[j] = receipt[j]
          /\ settled'[j] <= Reserved(j)
          /\ \A k \in Job : j # k /\ receipt'[j] # NoReceipt => receipt'[j] # receipt'[k]]_allUsage
=============================================================================
