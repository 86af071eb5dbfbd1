--------------------------- MODULE WorkUsageProofs ----------------------------
(***************************************************************************)
(* The usage ledger for every set of jobs, weeks, quotes and receipts.     *)
(***************************************************************************)
EXTENDS WorkUsage, SumTheorems

\* Rounding up is undone by the inverse that _validate_record computes.
LEMMA UnitsInverse ==
    ASSUME NEW n \in Nat
    PROVE  Units((Units(n, TRUE) * 2) \div 3, TRUE) = Units(n, TRUE)
  BY DEF Units

\* Units grow with the quote, so a job that did less is debited no more.
LEMMA UnitsMonotone ==
    ASSUME NEW m \in Nat, NEW n \in 0..m, NEW fast \in BOOLEAN
    PROVE  /\ Units(n, fast) \in Nat
           /\ Units(n, fast) <= Units(m, fast)
  BY DEF Units

\* What a row reserves is a natural number.
LEMMA ReservedIsNat == ASSUME NEW j \in Job PROVE Reserved(j) \in Nat
  BY UsageAssumption, UnitsMonotone DEF Reserved

\* No receipt settles two jobs.
ReceiptsDiffer ==
    \A j, k \in Job : j # k /\ receipt[j] # NoReceipt => receipt[j] # receipt[k]

\* A job without a row has no settlement.
BlankWithoutRow ==
    \A j \in Job : period[j] = 0 => settled[j] = -1 /\ receipt[j] = NoReceipt

Decided == {"counted", "looked", "confirmed"}

\* A reservation that has counted has room, as far as nothing it counted has
\* changed: only the grant and the clock have.
DecisionHolds ==
    /\ Unlocked <=> step = "none"
    /\ ~Unlocked => seenTier \in {"plus", "pro"}
    /\ step \notin {"none", "begun"} => week # NoWeek
    /\ step \in Decided =>
           /\ period[reserving] = 0
           /\ Used(week.period) + Held + Reserved(reserving) <= Cap(seenTier)

\* What it saw when it looked again was so, at that moment or later.
LooksHold ==
    /\ counted <= now
    /\ step \in {"looked", "confirmed"} =>
           \E t \in counted..now : Within(week, t) /\ t < Deadline[reserving]
    /\ step = "looked" => tier \in granted
    /\ step = "confirmed" => seenTier \in granted

UsageInv ==
    /\ UsageTypeOK
    /\ \A j \in Job : ValidRecord(j)
    /\ ReceiptsDiffer
    /\ BlankWithoutRow
    /\ DecisionHolds
    /\ LooksHold

\* The invariant of the ledger holds initially.
LEMMA UsageInitInv == UsageInit => UsageInv
<1> SUFFICES ASSUME UsageInit PROVE UsageInv
  OBVIOUS
<1>1. UsageTypeOK
  BY UsageAssumption DEF UsageInit, UsageTypeOK, Tiers
<1>2. \A j \in Job : ValidRecord(j)
  BY DEF UsageInit, ValidRecord
<1>3. ReceiptsDiffer /\ BlankWithoutRow /\ DecisionHolds /\ LooksHold
  BY DEF UsageInit, ReceiptsDiffer, BlankWithoutRow, DecisionHolds, LooksHold, Unlocked, Decided
<1> QED
  BY <1>1, <1>2, <1>3 DEF UsageInv

\* The rows alone decide what is valid, used and outstanding.
LEMMA SameRows ==
    ASSUME UNCHANGED usageVars
    PROVE  /\ (\A j \in Job : ValidRecord(j)) => (\A j \in Job : ValidRecord(j)')
           /\ ReceiptsDiffer => ReceiptsDiffer'
           /\ Held' = Held
           /\ week' = week => Used(week.period)' = Used(week.period)
<1>1. period' = period /\ settled' = settled /\ receipt' = receipt
  BY DEF usageVars
<1>2. Held' = Held
  BY <1>1 DEF Held, Rows, Reserved
<1>3. week' = week => Used(week.period)' = Used(week.period)
  BY <1>1 DEF Used, Rows
<1>4. (\A j \in Job : ValidRecord(j)) => (\A j \in Job : ValidRecord(j)')
  BY <1>1 DEF ValidRecord, Reserved
<1>5. ReceiptsDiffer => ReceiptsDiffer'
  BY <1>1 DEF ReceiptsDiffer
<1> QED
  BY <1>2, <1>3, <1>4, <1>5

\* A settlement writes a row that can be read back, under a new receipt.
LEMMA SettleKeepsRows ==
    ASSUME UsageTypeOK, \A k \in Job : ValidRecord(k), ReceiptsDiffer, BlankWithoutRow,
           NEW j \in Job, NEW r \in Receipt, NEW n \in 0..Standard[j], Settle(j, r, n)
    PROVE  /\ settled' \in [Job -> Nat \union {-1}]
           /\ receipt' \in [Job -> Receipt \union {NoReceipt}]
           /\ \A k \in Job : ValidRecord(k)'
           /\ ReceiptsDiffer' /\ BlankWithoutRow'
<1>1. Standard[j] \in Nat /\ Fast[j] \in BOOLEAN
  BY UsageAssumption
<1>2. Units(n, Fast[j]) \in Nat /\ Units(n, Fast[j]) <= Reserved(j) /\ Reserved(j) \in Nat
  BY <1>1, UnitsMonotone, ReservedIsNat DEF Reserved
<1>3. settled' = [settled EXCEPT ![j] = Units(n, Fast[j])] /\ receipt' = [receipt EXCEPT ![j] = r]
  BY DEF Settle
<1>4. settled' \in [Job -> Nat \union {-1}] /\ receipt' \in [Job -> Receipt \union {NoReceipt}]
  BY <1>2, <1>3 DEF UsageTypeOK
<1>5. settled'[j] = Units(n, Fast[j]) /\ receipt'[j] = r /\ r # NoReceipt
  BY <1>3, UsageAssumption DEF UsageTypeOK
<1>6. Fast[j] => Units((settled'[j] * 2) \div 3, TRUE) = settled'[j]
  <2> SUFFICES ASSUME Fast[j] PROVE Units((settled'[j] * 2) \div 3, TRUE) = settled'[j]
    OBVIOUS
  <2>1. settled'[j] = Units(n, TRUE) /\ n \in Nat
    BY <1>1, <1>5
  <2> QED
    BY <2>1, UnitsInverse
<1>7. ValidRecord(j)'
  <2>1. settled'[j] # -1 /\ settled'[j] \in 0..Reserved(j)
    BY <1>2, <1>5
  <2>2. Reserved(j)' = Reserved(j)
    BY DEF Reserved
  <2> QED
    BY <1>5, <1>6, <2>1, <2>2 DEF ValidRecord
<1>8. \A k \in Job : k # j => settled'[k] = settled[k] /\ receipt'[k] = receipt[k]
  BY <1>3 DEF UsageTypeOK
<1>9. \A k \in Job : ValidRecord(k)'
  BY <1>7, <1>8 DEF ValidRecord, Reserved
<1>10. \A k \in Job : receipt[k] # r
  <2> SUFFICES ASSUME NEW k \in Job PROVE receipt[k] # r
    OBVIOUS
  <2>1. CASE k \in Rows
    BY <2>1 DEF Settle
  <2>2. CASE k \notin Rows
    BY <2>2, <1>5 DEF BlankWithoutRow, Rows
  <2> QED
    BY <2>1, <2>2
<1>11. ReceiptsDiffer'
  BY <1>5, <1>8, <1>10 DEF ReceiptsDiffer
<1>12. BlankWithoutRow'
  <2>1. period' = period /\ period[j] # 0
    BY DEF Settle, Rows
  <2> QED
    BY <1>8, <2>1 DEF BlankWithoutRow
<1> QED
  BY <1>4, <1>9, <1>11, <1>12

\* An insert gives the job of the reservation a row of the current week.
LEMMA InsertAddsRow ==
    ASSUME UsageTypeOK, DecisionHolds, InsertReservation
    PROVE  /\ reserving \in Job /\ week \in Weeks
           /\ period' = [period EXCEPT ![reserving] = week.period]
           /\ period' \in [Job -> Nat]
           /\ period'[reserving] # 0
           /\ \A j \in Job : j # reserving => period'[j] = period[j]
<1>1. reserving \in Job /\ week \in Weeks
  BY DEF UsageTypeOK, InsertReservation, Unlocked, DecisionHolds, Decided
<1>2. week.period \in Nat \ {0}
  BY <1>1, UsageAssumption DEF Week
<1>3. period' = [period EXCEPT ![reserving] = week.period]
  BY DEF InsertReservation
<1> QED
  BY <1>1, <1>2, <1>3 DEF UsageTypeOK

\* Every step keeps the invariant of the ledger.
LEMMA UsageNextInv == UsageInv /\ [UsageNext]_allUsage => UsageInv'
<1> SUFFICES ASSUME UsageInv, [UsageNext]_allUsage PROVE UsageInv'
  OBVIOUS
<1> USE DEF UsageInv
<1>1. ASSUME NEW w \in Weeks, ConfigureWeek(w) PROVE UsageInv'
  <2>1. UNCHANGED <<usageVars, lockVars, now, tier>> /\ Unlocked /\ step = "none"
    BY <1>1 DEF ConfigureWeek, DecisionHolds
  <2>2. UsageTypeOK'
    BY <1>1 DEF ConfigureWeek, UsageTypeOK, usageVars, lockVars
  <2>3. BlankWithoutRow' /\ DecisionHolds' /\ LooksHold'
    BY <2>1 DEF BlankWithoutRow, DecisionHolds, LooksHold, Decided, Unlocked, usageVars, lockVars
  <2> QED
    BY <2>1, <2>2, <2>3, SameRows
<1>2. ASSUME NEW j \in Job, StartReserve(j) PROVE UsageInv'
  <2>1. /\ UNCHANGED <<now, week, usageVars, counted>>
        /\ reserving' = j /\ step' = "begun" /\ seenTier' \in {"plus", "pro"}
    BY <1>2 DEF StartReserve
  <2>2. UsageTypeOK'
    BY <1>2 DEF StartReserve, UsageTypeOK, usageVars, Tiers
  <2>3. BlankWithoutRow'
    BY <2>1 DEF BlankWithoutRow, usageVars
  <2>4. DecisionHolds' /\ LooksHold'
    <3>1. j # NoJob
      BY UsageAssumption
    <3> QED
      BY <2>1, <3>1 DEF DecisionHolds, LooksHold, Decided, Unlocked
  <2> QED
    BY <2>1, <2>2, <2>3, <2>4, SameRows
<1>3. ASSUME NEW j \in Job, NEW r \in Receipt, NEW n \in 0..Standard[j], Settle(j, r, n)
      PROVE  UsageInv'
  <2>1. UNCHANGED <<now, tier, week, period, lockVars>> /\ Unlocked /\ step = "none"
    BY <1>3 DEF Settle, DecisionHolds
  <2>2. UsageTypeOK'
    BY <1>3, <2>1, SettleKeepsRows DEF UsageTypeOK, lockVars
  <2>3. DecisionHolds' /\ LooksHold'
    BY <2>1 DEF DecisionHolds, LooksHold, Decided, Unlocked, lockVars
  <2> QED
    BY <1>3, <2>2, <2>3, SettleKeepsRows
<1>4. CASE InsertReservation
  <2>1. UNCHANGED <<now, tier, week, settled, receipt>> /\ Unlock
    BY <1>4 DEF InsertReservation
  <2>2. UsageTypeOK'
    BY <1>4, <2>1, InsertAddsRow DEF UsageTypeOK, Unlock, Tiers
  <2>3. (\A j \in Job : ValidRecord(j)') /\ ReceiptsDiffer'
    BY <2>1 DEF ValidRecord, Reserved, ReceiptsDiffer
  <2>4. BlankWithoutRow'
    BY <1>4, <2>1, InsertAddsRow DEF BlankWithoutRow
  <2>5. DecisionHolds' /\ LooksHold'
    BY <2>1, <2>2 DEF DecisionHolds, LooksHold, Decided, Unlock, Unlocked, UsageTypeOK
  <2> QED
    BY <2>2, <2>3, <2>4, <2>5
<1>5. CASE RollBack
  <2>1. UNCHANGED <<now, tier, week, usageVars>> /\ Unlock
    BY <1>5 DEF RollBack
  <2>2. UsageTypeOK'
    BY <2>1 DEF Unlock, UsageTypeOK, usageVars, Tiers
  <2>3. BlankWithoutRow' /\ DecisionHolds' /\ LooksHold'
    BY <2>1, <2>2 DEF BlankWithoutRow, DecisionHolds, LooksHold, Decided, Unlock, Unlocked, UsageTypeOK, usageVars
  <2> QED
    BY <2>1, <2>2, <2>3, SameRows
<1>6. ASSUME UNCHANGED <<week, usageVars, reserving, seenTier>>,
             UsageTypeOK', LooksHold',
             step = "none" <=> step' = "none", step' \in Decided => step \in Decided,
             step' \notin {"none", "begun"} => week # NoWeek
      PROVE  UsageInv'
  <2>1. BlankWithoutRow'
    BY <1>6 DEF BlankWithoutRow, usageVars
  <2>2. DecisionHolds'
    <3>1. /\ Used(week.period)' = Used(week.period) /\ Held' = Held
          /\ Reserved(reserving)' = Reserved(reserving) /\ Cap(seenTier)' = Cap(seenTier)
      BY <1>6, SameRows DEF Reserved, Cap
    <3> QED
      BY <1>6, <3>1 DEF DecisionHolds, Unlocked, usageVars
  <2> QED
    BY <1>6, <2>1, <2>2, SameRows
<1>7. CASE DateReserve
  <2>1. UsageTypeOK' /\ UNCHANGED <<now, tier, week, usageVars, reserving, seenTier, counted, granted>>
    BY <1>7 DEF DateReserve, UsageTypeOK, usageVars
  <2>2. step = "begun" /\ step' = "dated"
    BY <1>7 DEF DateReserve
  <2>4. week # NoWeek
    BY <1>7 DEF DateReserve, Open
  <2>3. LooksHold'
    BY <2>1, <2>2 DEF LooksHold
  <2> QED
    BY <1>6, <2>1, <2>2, <2>3, <2>4 DEF Decided
<1>8. CASE CountRoom
  <2>1. /\ UNCHANGED <<now, tier, week, usageVars, reserving, seenTier, granted>>
        /\ step = "dated" /\ step' = "counted" /\ counted' = now
    BY <1>8 DEF CountRoom
  <2>2. UsageTypeOK' /\ LooksHold'
    BY <2>1 DEF UsageTypeOK, LooksHold, usageVars
  <2>3. BlankWithoutRow'
    BY <2>1 DEF BlankWithoutRow, usageVars
  <2>4. DecisionHolds'
    <3>1. Used(week.period) + Held + Reserved(reserving) <= Cap(seenTier) /\ period[reserving] = 0
      BY <1>8 DEF CountRoom, Committed
    <3>2. /\ Used(week.period)' = Used(week.period) /\ Held' = Held
          /\ Reserved(reserving)' = Reserved(reserving) /\ Cap(seenTier)' = Cap(seenTier)
      BY <2>1, SameRows DEF Reserved, Cap
    <3>3. week # NoWeek
      BY <2>1 DEF DecisionHolds
    <3> QED
      BY <2>1, <3>1, <3>2, <3>3 DEF DecisionHolds, Unlocked, Decided, usageVars
  <2> QED
    BY <2>1, <2>2, <2>3, <2>4, SameRows
<1>9. CASE LookAgain
  <2>1. /\ UNCHANGED <<now, tier, week, usageVars, reserving, seenTier, counted>>
        /\ step = "counted" /\ step' = "looked" /\ granted' = {tier}
        /\ Within(week, now) /\ now < Deadline[reserving]
    BY <1>9 DEF LookAgain
  <2>2. UsageTypeOK'
    BY <2>1 DEF UsageTypeOK, usageVars
  <2>3. LooksHold'
    <3>1. now \in counted..now
      BY DEF UsageTypeOK, LooksHold
    <3> QED
      BY <2>1, <3>1 DEF LooksHold, Within
  <2> QED
    BY <1>6, <2>1, <2>2, <2>3 DEF Decided, DecisionHolds
<1>10. CASE ConfirmGrant
  <2>1. /\ UNCHANGED <<now, tier, week, usageVars, reserving, seenTier, counted, granted>>
        /\ step = "looked" /\ step' = "confirmed" /\ tier = seenTier
    BY <1>10 DEF ConfirmGrant
  <2>2. UsageTypeOK' /\ LooksHold'
    BY <2>1 DEF UsageTypeOK, LooksHold, Within, usageVars
  <2> QED
    BY <1>6, <2>1, <2>2 DEF Decided, DecisionHolds
<1>11. CASE ChangeTier
  <2>1. /\ UNCHANGED <<now, week, usageVars, reserving, step, seenTier, counted>> /\ tier' \in Tiers
        /\ granted' = IF step \in {"looked", "confirmed"} THEN granted \union {tier'} ELSE granted
    BY <1>11 DEF ChangeTier
  <2>2. UsageTypeOK' /\ LooksHold'
    BY <2>1 DEF UsageTypeOK, LooksHold, Within, usageVars
  <2> QED
    BY <1>6, <2>1, <2>2 DEF DecisionHolds
<1>12. CASE Tick \/ UNCHANGED allUsage
  <2>1. UNCHANGED <<tier, week, usageVars, lockVars>> /\ now' \in {now, now + 1}
    BY <1>12 DEF Tick, allUsage
  <2>2. UsageTypeOK'
    BY <2>1 DEF UsageTypeOK, usageVars, lockVars
  <2>3. LooksHold'
    <3>1. counted <= now' /\ counted..now \subseteq counted..now'
      BY <2>1 DEF UsageTypeOK, LooksHold
    <3> QED
      BY <2>1, <3>1 DEF LooksHold, Within, lockVars
  <2> QED
    BY <1>6, <2>1, <2>2, <2>3 DEF lockVars, DecisionHolds
<1> QED
  BY <1>1, <1>2, <1>3, <1>4, <1>5, <1>7, <1>8, <1>9, <1>10, <1>11, <1>12 DEF UsageNext

\* The inductive invariant of the ledger.
THEOREM UsageInvariance == UsageSpec => []UsageInv
  BY UsageInitInv, UsageNextInv, PTL DEF UsageSpec

\* No reachable debit fails the check the ledger makes when it reads it back.
THEOREM StoredRecordsAreReadable == UsageSpec => []RecordsStayValid
<1>1. UsageInv => RecordsStayValid
  BY DEF UsageInv, RecordsStayValid, Rows
<1> QED
  BY <1>1, UsageInvariance, PTL

\* Only an insert gives a job a row.
LEMMA OnlyInsertsReserve ==
    ASSUME UsageNext
    PROVE  InsertReservation \/ UNCHANGED period
  BY DEF UsageNext, ConfigureWeek, StartReserve, DateReserve, CountRoom, LookAgain, ConfirmGrant,
         Settle, RollBack, ChangeTier, Tick, usageVars

\* Grant and clock may change while a reservation is under way, even after it
\* looked at them for the last time; what it inserts was running after its room
\* was counted, granted after it last read the clock, and still has its room.
THEOREM AdmissionIsAsCounted == UsageSpec => AdmittedAsCounted
<1> DEFINE A == \A j \in Job : period[j] = 0 /\ period'[j] # 0 =>
                   /\ \E t \in counted..now : Within(week, t) /\ t < Deadline[j]
                   /\ seenTier \in granted \intersect {"plus", "pro"}
                   /\ Used(week.period) + Held + Reserved(j) <= Cap(seenTier)
<1>1. UsageInv /\ [UsageNext]_allUsage => [A]_allUsage
  <2> SUFFICES ASSUME UsageInv, UsageNext, NEW j \in Job, period[j] = 0, period'[j] # 0
               PROVE  /\ \E t \in counted..now : Within(week, t) /\ t < Deadline[j]
                      /\ seenTier \in granted \intersect {"plus", "pro"}
                      /\ Used(week.period) + Held + Reserved(j) <= Cap(seenTier)
    OBVIOUS
  <2>1. InsertReservation
    BY OnlyInsertsReserve
  <2>2. j = reserving
    BY <2>1, InsertAddsRow DEF UsageInv
  <2>3. step = "confirmed" /\ ~Unlocked
    BY <2>1 DEF InsertReservation, UsageInv, DecisionHolds
  <2> QED
    BY <2>2, <2>3 DEF UsageInv, DecisionHolds, LooksHold, Decided
<1> QED
  BY <1>1, UsageInvariance, PTL DEF UsageSpec, AdmittedAsCounted

\* A row never moves to another week, is settled once, by a receipt of its own
\* and for no more than it reserved.
THEOREM DebitsAreFinal == UsageSpec => DebitedOnce
<1> DEFINE D == \A j \in Job :
                   /\ period[j] # 0 => period'[j] = period[j]
                   /\ settled[j] # -1 => settled'[j] = settled[j] /\ receipt'[j] = receipt[j]
                   /\ settled'[j] <= Reserved(j)
                   /\ \A k \in Job : j # k /\ receipt'[j] # NoReceipt => receipt'[j] # receipt'[k]
<1>1. UsageInv /\ UsageInv' /\ [UsageNext]_allUsage => [D]_allUsage
  <2> SUFFICES ASSUME UsageInv, UsageInv', UsageNext, NEW j \in Job
               PROVE  /\ period[j] # 0 => period'[j] = period[j]
                      /\ settled[j] # -1 => settled'[j] = settled[j] /\ receipt'[j] = receipt[j]
                      /\ settled'[j] <= Reserved(j)
                      /\ \A k \in Job : j # k /\ receipt'[j] # NoReceipt => receipt'[j] # receipt'[k]
    OBVIOUS
  <2>1. settled'[j] <= Reserved(j)
    <3>1. ValidRecord(j)' /\ Reserved(j)' = Reserved(j) /\ Reserved(j) \in Nat
      BY ReservedIsNat DEF UsageInv, Reserved
    <3> QED
      <4>1. settled'[j] = -1 \/ settled'[j] \in 0..Reserved(j)
        BY <3>1 DEF ValidRecord
      <4> QED
        BY <3>1, <4>1
  <2>2. \A k \in Job : j # k /\ receipt'[j] # NoReceipt => receipt'[j] # receipt'[k]
    BY DEF UsageInv, ReceiptsDiffer
  <2>3. CASE InsertReservation
    <3>1. period[reserving] = 0 /\ settled' = settled /\ receipt' = receipt
      BY <2>3 DEF InsertReservation, UsageInv, DecisionHolds, Decided
    <3>2. \A k \in Job : k # reserving => period'[k] = period[k]
      BY <2>3, InsertAddsRow DEF UsageInv
    <3> QED
      BY <2>1, <2>2, <3>1, <3>2
  <2>4. CASE \E i \in Job : \E r \in Receipt : \E n \in 0..Standard[i] : Settle(i, r, n)
    <3>0. PICK i \in Job : \E r \in Receipt : \E n \in 0..Standard[i] : Settle(i, r, n)
      BY <2>4
    <3> PICK r \in Receipt, n \in 0..Standard[i] : Settle(i, r, n)
      BY <3>0
    <3>1. period' = period /\ settled[i] = -1
      BY DEF Settle, ValidRecord
    <3>2. j # i => settled'[j] = settled[j] /\ receipt'[j] = receipt[j]
      BY DEF Settle, UsageInv, UsageTypeOK
    <3> QED
      BY <2>1, <2>2, <3>1, <3>2
  <2>5. CASE UNCHANGED usageVars
    BY <2>1, <2>2, <2>5 DEF usageVars
  <2>6. InsertReservation \/ UNCHANGED usageVars
        \/ \E i \in Job : \E r \in Receipt : \E n \in 0..Standard[i] : Settle(i, r, n)
    BY DEF UsageNext, ConfigureWeek, StartReserve, DateReserve, CountRoom, LookAgain, ConfirmGrant,
           RollBack, ChangeTier, Tick
  <2> QED
    BY <2>3, <2>4, <2>5, <2>6
<1> QED
  BY <1>1, UsageInvariance, PTL DEF UsageSpec, DebitedOnce

-----------------------------------------------------------------------------
(* The allowance across the weeks.                                         *)

Outstanding == {j \in Rows : settled[j] = -1}
Debited(p) == {j \in Rows : period[j] = p /\ settled[j] # -1}
Debits == [j \in Job |-> Reserved(j)]

\* There are finitely many rows, none before the first week.
RowsFit ==
    /\ IsFiniteSet(Rows)
    /\ week = NoWeek => Rows = {}

\* The sums are over finite sets of naturals.
LEMMA SumsAreDefined ==
    ASSUME UsageTypeOK, RowsFit, NEW p
    PROVE  /\ IsFiniteSet(Outstanding) /\ Naturals(Debits, Outstanding)
           /\ IsFiniteSet(Debited(p)) /\ Naturals(settled, Debited(p))
           /\ Held = SumFunctionOnSet(Debits, Outstanding) /\ Held \in Nat
           /\ Used(p) = SumFunctionOnSet(settled, Debited(p)) /\ Used(p) \in Nat
<1>1. IsFiniteSet(Outstanding) /\ IsFiniteSet(Debited(p))
  BY FS_Subset DEF RowsFit, Outstanding, Debited
<1>2. Naturals(Debits, Outstanding)
  BY ReservedIsNat DEF Naturals, Debits, Outstanding, Rows
<1>3. Naturals(settled, Debited(p))
  BY DEF Naturals, Debited, Rows, UsageTypeOK
<1>4. Held = SumFunctionOnSet(Debits, Outstanding) /\ Used(p) = SumFunctionOnSet(settled, Debited(p))
  BY DEF Held, Used, Outstanding, Debited, Debits
<1> QED
  BY <1>1, <1>2, <1>3, <1>4, SumType

\* So they are after a step.
LEMMA NextSumsAreDefined ==
    ASSUME UsageTypeOK', RowsFit', NEW p
    PROVE  /\ IsFiniteSet(Outstanding') /\ Naturals(Debits, Outstanding')
           /\ IsFiniteSet(Debited(p)') /\ Naturals(settled', Debited(p)')
           /\ Held' = SumFunctionOnSet(Debits, Outstanding') /\ Held' \in Nat
           /\ Used(p)' = SumFunctionOnSet(settled', Debited(p)') /\ Used(p)' \in Nat
<1>1. Held' = SumFunctionOnSet(Debits, Outstanding') /\ Used(p)' = SumFunctionOnSet(settled', Debited(p)')
  BY DEF Held, Used, Outstanding, Debited, Debits, Reserved
<1>2. IsFiniteSet(Outstanding') /\ IsFiniteSet(Debited(p)')
  <2>1. IsFiniteSet(Rows') /\ Outstanding' \subseteq Rows' /\ Debited(p)' \subseteq Rows'
    BY DEF RowsFit, Outstanding, Debited
  <2> QED
    BY <2>1, FS_Subset
<1>3. Naturals(Debits, Outstanding') /\ Naturals(settled', Debited(p)')
  BY ReservedIsNat DEF Naturals, Debits, Outstanding, Debited, Rows, UsageTypeOK
<1> QED
  BY <1>1, <1>2, <1>3, SumType

\* A settlement takes a reservation out of what is outstanding and debits its
\* own week with no more than that.
LEMMA SettleFits ==
    ASSUME UsageTypeOK, UsageTypeOK', RowsFit, RowsFit', NEW p,
           NEW j \in Job, ValidRecord(j), ValidRecord(j)',
           NEW r \in Receipt, NEW n \in 0..Standard[j], Settle(j, r, n)
    PROVE  Used(p)' + Held' <= Used(p) + Held
<1>1. /\ period' = period /\ j \in Rows /\ settled[j] = -1 /\ Rows' = Rows
      /\ \A k \in Job : k # j => settled'[k] = settled[k]
      /\ settled'[j] \in Nat
  <2>1. period' = period /\ j \in Rows /\ settled[j] = -1
    BY DEF Settle, ValidRecord
  <2>2. \A k \in Job : k # j => settled'[k] = settled[k]
    BY DEF Settle, UsageTypeOK
  <2>3. settled'[j] \in Nat
    <3>1. Standard[j] \in Nat /\ Fast[j] \in BOOLEAN
      BY UsageAssumption
    <3>2. Units(n, Fast[j]) \in Nat
      BY <3>1, UnitsMonotone
    <3> QED
      BY <3>2 DEF Settle, UsageTypeOK
  <2> QED
    BY <2>1, <2>2, <2>3 DEF Rows
<1>2. settled'[j] <= Reserved(j) /\ Reserved(j) \in Nat
  <2>1. settled'[j] # -1
    BY <1>1
  <2>2. settled'[j] \in 0..Reserved(j)'
    BY <2>1 DEF ValidRecord
  <2>3. Reserved(j)' = Reserved(j) /\ Reserved(j) \in Nat
    BY ReservedIsNat DEF Reserved
  <2> QED
    BY <2>2, <2>3
<1>3. /\ Held = SumFunctionOnSet(Debits, Outstanding) /\ Held \in Nat
      /\ Used(p) = SumFunctionOnSet(settled, Debited(p)) /\ Used(p) \in Nat
      /\ IsFiniteSet(Debited(p)) /\ Naturals(settled, Debited(p))
  BY SumsAreDefined
<1>4. /\ Held' = SumFunctionOnSet(Debits, Outstanding') /\ Held' \in Nat
      /\ Used(p)' = SumFunctionOnSet(settled', Debited(p)') /\ Used(p)' \in Nat
      /\ IsFiniteSet(Outstanding')
      /\ IsFiniteSet(Debited(p)') /\ Naturals(settled', Debited(p)')
  BY NextSumsAreDefined
<1>5. Held = Held' + Reserved(j)
  <2>1. Outstanding = Outstanding' \union {j} /\ j \notin Outstanding'
    BY <1>1 DEF Outstanding, Rows
  <2>2. Naturals(Debits, Outstanding' \union {j}) /\ Debits[j] = Reserved(j)
    BY <2>1, SumsAreDefined DEF Debits
  <2> QED
    BY <1>3, <1>4, <2>1, <2>2, SumAdd
<1>6. Used(p)' <= Used(p) + Reserved(j)
  <2>1. \A k \in Debited(p) : settled'[k] = settled[k]
    BY <1>1 DEF Debited, Rows
  <2>2. SumFunctionOnSet(settled', Debited(p)) = Used(p)
    BY <1>3, <2>1, SumAgrees
  <2>3. CASE period[j] = p
    <3>1. Debited(p)' = Debited(p) \union {j} /\ j \notin Debited(p)
      BY <1>1, <2>3 DEF Debited, Rows
    <3>2. Used(p)' = Used(p) + settled'[j]
      BY <1>3, <1>4, <2>2, <3>1, SumAdd
    <3> QED
      BY <1>1, <1>2, <1>3, <3>2
  <2>4. CASE period[j] # p
    <3>1. Debited(p)' = Debited(p)
      BY <1>1, <2>4 DEF Debited, Rows
    <3> QED
      BY <1>2, <1>3, <1>4, <2>2, <3>1
  <2> QED
    BY <2>3, <2>4
<1> QED
  BY <1>2, <1>3, <1>4, <1>5, <1>6

\* An insert adds the reservation it decided on, and nothing else.
LEMMA InsertFits ==
    ASSUME UsageInv, RowsFit, InsertReservation
    PROVE  /\ RowsFit'
           /\ Used(week.period)' = Used(week.period)
           /\ Held' = Held + Reserved(reserving)
<1>1. /\ reserving \in Job /\ week \in Weeks /\ week # NoWeek
      /\ period'[reserving] # 0
      /\ \A j \in Job : j # reserving => period'[j] = period[j]
      /\ settled' = settled /\ week' = week
  BY InsertAddsRow, UsageAssumption DEF UsageInv, InsertReservation, DecisionHolds
<1>2. period[reserving] = 0 /\ settled[reserving] = -1
  BY <1>1 DEF UsageInv, DecisionHolds, Decided, BlankWithoutRow, InsertReservation
<1>3. /\ Rows' = Rows \union {reserving} /\ reserving \notin Rows
      /\ Outstanding' = Outstanding \union {reserving} /\ reserving \notin Outstanding
      /\ Debited(week.period)' = Debited(week.period)
  BY <1>1, <1>2 DEF Rows, Outstanding, Debited
<1>4. RowsFit'
  BY <1>1, <1>3, FS_AddElement DEF RowsFit
<1>5. Debits' = Debits /\ Debits[reserving] = Reserved(reserving)
  BY <1>1 DEF Debits, Reserved
<1>6. IsFiniteSet(Outstanding) /\ Naturals(Debits, Outstanding \union {reserving})
  BY <1>1, ReservedIsNat, SumsAreDefined DEF UsageInv, Naturals, Debits, Outstanding, Rows
<1>7. Held' = SumFunctionOnSet(Debits, Outstanding') /\ Held = SumFunctionOnSet(Debits, Outstanding)
  BY DEF Held, Outstanding, Debits, Reserved
<1>8. Held' = Held + Reserved(reserving)
  <2>1. SumFunctionOnSet(Debits, Outstanding \union {reserving})
          = SumFunctionOnSet(Debits, Outstanding) + Debits[reserving]
    BY <1>3, <1>6, SumAdd
  <2> QED
    BY <1>3, <1>5, <1>7, <2>1
<1>9. Used(week.period)' = Used(week.period)
  BY <1>1, <1>3 DEF Used, Debited
<1> QED
  BY <1>4, <1>8, <1>9

\* A new week starts with nothing used.
LEMMA NewWeekFits ==
    ASSUME UsageInv, RowsFit, OutstandingFits, NEW w \in Weeks, ConfigureWeek(w)
    PROVE  OutstandingFits'
<1>1. week' = w /\ UNCHANGED usageVars /\ w # NoWeek
  BY UsageAssumption DEF ConfigureWeek
<1>2. Held' = Held /\ Held \in Nat
  BY <1>1, SameRows, SumsAreDefined DEF UsageInv
<1>3. Used(w.period)' = 0
  <2>1. Debited(w.period) = {}
    BY DEF RowsFit, Debited, ConfigureWeek
  <2>2. Used(w.period)' = Used(w.period)
    BY <1>1 DEF Used, Rows, usageVars
  <2> QED
    BY <2>1, <2>2, SumEmpty DEF Used, Debited
<1>4. \E v \in Weeks : Held <= 5 * v.plus
  <2>1. \A v \in Weeks : v.plus \in Nat
    BY UsageAssumption DEF Week
  <2>2. CASE week = NoWeek
    <3>1. Outstanding = {}
      BY <2>2 DEF RowsFit, Outstanding
    <3>2. Held = 0
      BY <3>1, SumEmpty DEF Held, Outstanding
    <3> QED
      BY <2>1, <3>2
  <2>3. CASE week # NoWeek
    <3>1. PICK v \in Weeks : Used(week.period) + Held <= 5 * v.plus
      BY <2>3 DEF OutstandingFits
    <3>2. Used(week.period) \in Nat
      BY SumsAreDefined DEF UsageInv
    <3> QED
      BY <1>2, <2>1, <3>1, <3>2
  <2> QED
    BY <2>2, <2>3
<1>5. PICK v \in Weeks : Held <= 5 * v.plus
  BY <1>4
<1>6. Used(week.period)' + Held' <= 5 * v.plus
  <2>1. Used(week.period)' = 0
    BY <1>1, <1>3 DEF Used
  <2> QED
    BY <1>2, <1>5, <2>1
<1> QED
  BY <1>6 DEF OutstandingFits

\* The rows are finitely many, and fit the allowance.
AllowanceInv == UsageInv /\ RowsFit /\ OutstandingFits

\* Every step keeps the rows finite in number and within the allowance.
LEMMA AllowanceNext == AllowanceInv /\ [UsageNext]_allUsage => AllowanceInv'
<1> SUFFICES ASSUME AllowanceInv, [UsageNext]_allUsage PROVE RowsFit' /\ OutstandingFits'
  BY UsageNextInv DEF AllowanceInv
<1>0. UsageInv /\ RowsFit /\ OutstandingFits /\ UsageInv'
  BY UsageNextInv DEF AllowanceInv
<1>1. ASSUME NEW w \in Weeks, ConfigureWeek(w) PROVE RowsFit' /\ OutstandingFits'
  <2>1. Rows' = Rows /\ week' # NoWeek
    BY <1>1, UsageAssumption DEF ConfigureWeek, Rows, usageVars
  <2>2. RowsFit'
    BY <1>0, <2>1 DEF RowsFit
  <2> QED
    BY <1>0, <1>1, <2>2, NewWeekFits
<1>2. ASSUME NEW j \in Job, NEW r \in Receipt, NEW n \in 0..Standard[j], Settle(j, r, n)
      PROVE  RowsFit' /\ OutstandingFits'
  <2>1. Rows' = Rows /\ week' = week
    BY <1>2 DEF Settle, Rows
  <2>2. RowsFit'
    BY <1>0, <2>1 DEF RowsFit
  <2>3. OutstandingFits'
    <3> SUFFICES ASSUME week # NoWeek
                 PROVE  \E w \in Weeks : Used(week.period)' + Held' <= 5 * w.plus
      BY <2>1 DEF OutstandingFits
    <3>1. PICK w \in Weeks : Used(week.period) + Held <= 5 * w.plus
      BY <1>0 DEF OutstandingFits
    <3>2. PICK p : p = week.period
      OBVIOUS
    <3>3. Used(p)' + Held' <= Used(p) + Held
      <4>1. UsageTypeOK /\ UsageTypeOK' /\ ValidRecord(j) /\ ValidRecord(j)'
        BY <1>0, <1>2 DEF UsageInv
      <4> QED
        BY <1>0, <1>2, <2>2, <4>1, SettleFits
    <3>4. Used(week.period)' = Used(p)' /\ Used(week.period) = Used(p)
      BY <2>1, <3>2 DEF Used
    <3>5. Held \in Nat /\ Used(p) \in Nat
      BY <1>0, SumsAreDefined DEF UsageInv
    <3>6. Held' \in Nat /\ Used(p)' \in Nat
      BY <1>0, <2>2, NextSumsAreDefined DEF UsageInv
    <3>7. w.plus \in Nat
      BY UsageAssumption DEF Week
    <3> QED
      BY <3>1, <3>3, <3>4, <3>5, <3>6, <3>7
  <2> QED
    BY <2>2, <2>3
<1>3. CASE InsertReservation
  <2>1. RowsFit' /\ Used(week.period)' = Used(week.period) /\ Held' = Held + Reserved(reserving)
    BY <1>0, <1>3, InsertFits
  <2>2. /\ Used(week.period) + Held + Reserved(reserving) <= Cap(seenTier)
        /\ week \in Weeks /\ week' = week /\ reserving \in Job
    BY <1>0, <1>3, InsertAddsRow DEF UsageInv, DecisionHolds, Decided, InsertReservation
  <2>3. Cap(seenTier) <= 5 * week.plus /\ week.plus \in Nat
    BY <2>2, UsageAssumption DEF Cap, Week
  <2>4. Used(week.period) \in Nat /\ Held \in Nat /\ Reserved(reserving) \in Nat
    BY <1>0, <2>2, SumsAreDefined, ReservedIsNat DEF UsageInv
  <2>5. Used(week.period)' + Held' <= 5 * week.plus
    <3>1. Cap(seenTier) \in Nat
      BY <2>3 DEF Cap
    <3> QED
      BY <2>1, <2>2, <2>3, <2>4, <3>1
  <2> QED
    BY <2>1, <2>2, <2>5 DEF OutstandingFits
<1>4. CASE UNCHANGED usageVars /\ week' = week
  <2>1. Rows' = Rows /\ Used(week.period)' = Used(week.period) /\ Held' = Held
    BY <1>4, SameRows DEF Rows, usageVars
  <2> QED
    BY <1>0, <1>4, <2>1 DEF RowsFit, OutstandingFits
<1>5. \/ \E w \in Weeks : ConfigureWeek(w)
      \/ \E j \in Job : \E r \in Receipt : \E n \in 0..Standard[j] : Settle(j, r, n)
      \/ InsertReservation
      \/ UNCHANGED usageVars /\ week' = week
  BY DEF UsageNext, StartReserve, DateReserve, CountRoom, LookAgain, ConfirmGrant, RollBack,
         ChangeTier, Tick, allUsage
<1> QED
  BY <1>1, <1>2, <1>3, <1>4, <1>5

\* What is used this week and everything still outstanding stay within five
\* times the allowance of a week the owner had, whatever is settled, inserted
\* or configured in between.
THEOREM AllowanceIsKept == UsageSpec => []OutstandingFits
<1>1. UsageInit => AllowanceInv
  <2> SUFFICES ASSUME UsageInit PROVE RowsFit /\ OutstandingFits
    BY UsageInitInv DEF AllowanceInv
  <2>1. Rows = {} /\ week = NoWeek
    BY DEF UsageInit, Rows
  <2> QED
    BY <2>1, FS_EmptySet DEF RowsFit, OutstandingFits
<1>2. AllowanceInv => OutstandingFits
  BY DEF AllowanceInv
<1> QED
  BY <1>1, <1>2, AllowanceNext, PTL DEF UsageSpec
=============================================================================
