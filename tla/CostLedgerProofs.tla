-------------------------- MODULE CostLedgerProofs ---------------------------
(***************************************************************************)
(* The ledger for any number of clients, attempts, administrators, days    *)
(* and amounts: what its locks protect, and what follows from it for       *)
(* budgets, for settlements and for reconciliations.                       *)
(***************************************************************************)
EXTENDS CostLedger, SumTheorems

(* What an attempt has computed and written so far.                        *)
Computed == \A a \in Attempts :
    /\ pc[a] \in {"locking", "checking", "inserting", "reserved", "settling"} => entry[a] \in Entry
    /\ pc[a] \in {"locking", "checking"} => entry[a].kind = "production"
    /\ pc[a] = "checking" => ~ entry[a].cacheHit

Written == \A a \in Attempts :
    /\ pc[a] \in {"idle", "locking", "checking", "inserting"} => costs[a] = NoRow /\ ~ sent[a]
    /\ pc[a] \in {"reserved", "settling"} =>
          /\ a \in Rows
          /\ costs[a].client = entry[a].client /\ costs[a].kind = entry[a].kind
          /\ costs[a].status # "zero"
          /\ costs[a].status = "local_cache" <=> entry[a].cacheHit
          /\ costs[a].status = "local_cache" => costs[a].amount = 0

(* The row of a client's key is held by the attempts and the               *)
(* administrators that are in a transaction on it, one at a time, and no   *)
(* key is revoked before a reservation it was authorised for is written.   *)
HoldsKey(a) == pc[a] \in {"checking", "inserting", "settling"} /\ entry[a].kind = "production"

KeysHeld ==
    /\ \A a \in Attempts : HoldsKey(a) =>
          /\ keyLock[entry[a].client] = a
          /\ pc[a] # "settling" => active[entry[a].client]
    /\ \A m \in Admins :
          /\ step[m] = "saving" => keyLock[job[m].client] = m
          /\ step[m] \in {"keyed", "adjusting"} /\ costs[job[m].cost].kind = "production" =>
                keyLock[costs[job[m].cost].client] = m

(* What an administrator's form shows of a budget is what is still there,  *)
(* or has an older revision; a cost whose adjustment is under way is held, *)
(* and open to one.                                                        *)
BudgetForm == [client : Clients, basis : Budget, daily : Limits, monthly : Limits]
CostForm == [cost : Attempts, amount : Amounts]

BudgetForms == \A m \in Admins : step[m] \in {"editing", "saving"} =>
    /\ job[m] \in BudgetForm
    /\ job[m].basis.revision <= budget[job[m].client].revision
    /\ job[m].basis.revision = budget[job[m].client].revision => job[m].basis = budget[job[m].client]

CostForms == \A m \in Admins :
    /\ step[m] \in {"reconciling", "keyed", "adjusting"} => job[m] \in CostForm /\ job[m].cost \in Rows
    /\ step[m] = "adjusting" =>
          /\ costLock[job[m].cost] = m
          /\ costs[job[m].cost].status \in {"pending", "estimated"}

(* What the budget query found still holds when the reservation is written. *)
Affordable(a) ==
    LET e == entry[a]
        b == budget[e.client]
    IN  b.daily # NoLimit \/ b.monthly # NoLimit =>
           /\ e.valid
           /\ Unknown(e.client, MonthDays(e.day)) = {}
           /\ Within(b.daily, e.client, {e.day}, e.reserved)
           /\ Within(b.monthly, e.client, MonthDays(e.day), e.reserved)

Checked == \A a \in Attempts :
    pc[a] = "inserting" /\ entry[a].kind = "production" /\ ~ entry[a].cacheHit => Affordable(a)

LedgerInv == TypeOK /\ Computed /\ Written /\ KeysHeld /\ BudgetForms /\ CostForms /\ ReconciledOnce /\ NoFreeCalls

IInv == LedgerInv /\ Checked

-----------------------------------------------------------------------------
(* The invariant holds at first, nobody being at work.                     *)
LEMMA InitLedgerInv == Init => LedgerInv
<1> SUFFICES ASSUME Init PROVE LedgerInv
  OBVIOUS
<1>1. TypeOK
  BY MoneyAssumption, BoundsAssumption DEF Init, TypeOK, Budget, Rows
<1> QED
  BY <1>1 DEF Init, LedgerInv, Computed, Written, KeysHeld, HoldsKey, BudgetForms, CostForms, ReconciledOnce, NoFreeCalls, Rows

(* What the work of an attempt and of an administrator is made of.         *)
Shaped ==
    /\ \A a \in Attempts : pc[a] \in {"locking", "checking", "inserting", "reserved", "settling"} =>
          /\ entry[a] \in Entry
          /\ entry[a].client \in Clients /\ entry[a].kind \in {"production", "test"}
          /\ entry[a].cacheHit \in BOOLEAN /\ entry[a].day \in Days
          /\ entry[a].valid \in BOOLEAN /\ entry[a].reserved \in Nat
    /\ \A a \in Rows : costs[a] \in Row /\ costs[a].client \in Clients
    /\ \A m \in Admins :
          /\ step[m] \in {"editing", "saving"} =>
                /\ job[m].client \in Clients /\ job[m].basis \in Budget
                /\ job[m].daily \in Limits /\ job[m].monthly \in Limits
          /\ step[m] \in {"reconciling", "keyed", "adjusting"} =>
                job[m].cost \in Rows /\ job[m].cost \in Attempts /\ job[m].amount \in Amounts

LEMMA Shapes == LedgerInv => Shaped
<1> SUFFICES ASSUME LedgerInv PROVE Shaped
  OBVIOUS
<1>1. \A a \in Attempts : pc[a] \in {"locking", "checking", "inserting", "reserved", "settling"} => entry[a] \in Entry
  BY DEF LedgerInv, Computed
<1>2. \A a \in Rows : costs[a] \in Row
  BY DEF LedgerInv, TypeOK, Rows
<1>3. \A m \in Admins :
        /\ step[m] \in {"editing", "saving"} => job[m] \in BudgetForm
        /\ step[m] \in {"reconciling", "keyed", "adjusting"} => job[m] \in CostForm /\ job[m].cost \in Rows
  BY DEF LedgerInv, BudgetForms, CostForms
<1> QED
  BY <1>1, <1>2, <1>3 DEF Shaped, Entry, Row, BudgetForm, CostForm

(* The values the statements write are amounts, statuses and corrections.  *)
LEMMA RowUpdate ==
  ASSUME NEW row \in Row,
         NEW s \in {"reserved", "local_cache", "zero", "pending", "calculated", "estimated", "reconciled"},
         NEW x \in Nat \cup {NoAmount}
  PROVE  [row EXCEPT !.status = s, !.amount = x] \in Row
BY DEF Row

LEMMA SettlementTypes ==
  ASSUME NEW a, NEW s \in Settlements(a)
  PROVE  s.status \in {"local_cache", "zero", "pending", "calculated", "estimated"} /\ s.amount \in Nat \cup {NoAmount}
<1>1. CASE s \in [status : {"calculated", "estimated"}, amount : Amounts]
  BY <1>1, MoneyAssumption
<1>2. CASE s = [status |-> "local_cache", amount |-> 0]
  BY <1>2
<1>3. CASE s = [status |-> "zero", amount |-> 0]
  BY <1>3
<1>4. CASE s = [status |-> "pending", amount |-> NoAmount]
  BY <1>4
<1> QED
  BY <1>1, <1>2, <1>3, <1>4 DEF Settlements

LEMMA Appended ==
  ASSUME NEW R, NEW A, NEW f \in [A -> Seq(R)], NEW k \in A, NEW x \in R
  PROVE  [f EXCEPT ![k] = Append(f[k], x)] \in [A -> Seq(R)]
<1>1. Append(f[k], x) \in Seq(R)
  OBVIOUS
<1> QED
  BY <1>1

(* What ReserveCost computes, and what each statement writes.              *)
LEMMA BeginMakes ==
  ASSUME LedgerInv, NEW a \in Attempts, Begin(a)
  PROVE  \E e \in Entry : /\ entry' = [entry EXCEPT ![a] = e]
                          /\ pc' = [pc EXCEPT ![a] = IF e.kind = "production" THEN "locking" ELSE "inserting"]
<1>1. PICK c \in Clients, kind \in Kinds, cacheHit, priced, image \in BOOLEAN, estimate \in Estimates :
        /\ cacheHit => kind = "production"
        /\ LET estimable == ~cacheHit /\ priced /\ ~image
           IN  entry' = [entry EXCEPT ![a] =
                 [client |-> c, kind |-> kind, cacheHit |-> cacheHit, day |-> today,
                  priced |-> priced /\ ~cacheHit, valid |-> cacheHit \/ estimable, reserved |-> IF estimable THEN estimate ELSE 0]]
        /\ pc' = [pc EXCEPT ![a] = IF kind = "production" THEN "locking" ELSE "inserting"]
  BY Zenon DEF Begin
<1> DEFINE estimable == ~cacheHit /\ priced /\ ~image
           isPriced == priced /\ ~cacheHit
           isValid == cacheHit \/ estimable
           sum == IF estimable THEN estimate ELSE 0
           e == [client |-> c, kind |-> kind, cacheHit |-> cacheHit, day |-> today,
                 priced |-> isPriced, valid |-> isValid, reserved |-> sum]
<1>2. isPriced \in BOOLEAN /\ isValid \in BOOLEAN /\ sum \in Nat
  BY MoneyAssumption
<1>3. e \in Entry /\ e.kind = kind
  <2> HIDE DEF isPriced, isValid, sum
  <2>1. today \in Days /\ kind \in {"production", "test"}
    BY BoundsAssumption DEF LedgerInv, TypeOK
  <2> QED
    BY <1>2, <2>1 DEF Entry
<1>4. entry' = [entry EXCEPT ![a] = e]
  BY <1>1
<1> HIDE DEF e
<1> QED
  BY <1>1, <1>3, <1>4

LEMMA InsertWrites ==
  ASSUME LedgerInv, NEW a \in Attempts, Insert(a)
  PROVE  \E row \in Row :
            /\ costs' = [costs EXCEPT ![a] = row]
            /\ row.client = entry[a].client /\ row.kind = entry[a].kind /\ row.day = entry[a].day
            /\ row.reserved = entry[a].reserved /\ row.valid = entry[a].valid
            /\ IF entry[a].cacheHit THEN row.status = "local_cache" /\ row.amount = 0
                                    ELSE row.status = "reserved" /\ row.amount = NoAmount
<1> DEFINE amount == IF entry[a].cacheHit THEN 0 ELSE NoAmount
           status == IF entry[a].cacheHit THEN "local_cache" ELSE "reserved"
           row == [client |-> entry[a].client, kind |-> entry[a].kind, day |-> entry[a].day,
                   reserved |-> entry[a].reserved, valid |-> entry[a].valid, amount |-> amount, status |-> status]
<1>1. costs' = [costs EXCEPT ![a] = row]
  BY DEF Insert
<1>2. entry[a] \in Entry
  BY DEF Insert, LedgerInv, Computed
<1>3. amount \in Nat \cup {NoAmount} /\ status \in {"reserved", "local_cache"}
  OBVIOUS
<1>4. row \in Row
  <2> HIDE DEF amount, status
  <2> QED
    BY <1>2, <1>3 DEF Row, Entry
<1>5. /\ row.client = entry[a].client /\ row.kind = entry[a].kind /\ row.day = entry[a].day
      /\ row.reserved = entry[a].reserved /\ row.valid = entry[a].valid
      /\ row.status = status /\ row.amount = amount
  <2> HIDE DEF amount, status
  <2> QED
    OBVIOUS
<1>6. IF entry[a].cacheHit THEN status = "local_cache" /\ amount = 0
                           ELSE status = "reserved" /\ amount = NoAmount
  OBVIOUS
<1> HIDE DEF row, amount, status
<1> QED
  BY <1>1, <1>4, <1>5, <1>6

LEMMA SettleWrites ==
  ASSUME LedgerInv, NEW a \in Attempts, Settle(a)
  PROVE  /\ a \in Rows
         /\ \E row \in Row :
               /\ costs' = [costs EXCEPT ![a] = row]
               /\ row = [costs[a] EXCEPT !.status = row.status, !.amount = row.amount]
               /\ \/ row = costs[a]
                  \/ /\ costs[a].status = "reserved"
                     /\ row.status \in {"zero", "pending", "calculated", "estimated"}
                     /\ row.status = "zero" => ~ sent[a]
<1>1. /\ a \in Rows /\ costs[a] \in Row 
      /\ costs[a].status = "local_cache" <=> entry[a].cacheHit
      /\ costs[a].status = "local_cache" => costs[a].amount = 0
  BY DEF Settle, LedgerInv, Written, TypeOK, Rows
<1>2. PICK s \in Settlements(a) :
         costs' = IF Open(a) THEN [costs EXCEPT ![a].status = s.status, ![a].amount = s.amount] ELSE costs
  BY DEF Settle
<1>3. CASE ~ Open(a)
  <2>1. costs' = [costs EXCEPT ![a] = costs[a]] /\ costs[a] = [costs[a] EXCEPT !.status = costs[a].status, !.amount = costs[a].amount]
    BY <1>1, <1>2, <1>3 DEF Row, LedgerInv, TypeOK
  <2> QED
    BY <1>1, <2>1
<1>4. CASE Open(a)
  <2> DEFINE row == [costs[a] EXCEPT !.status = s.status, !.amount = s.amount]
  <2>1. costs' = [costs EXCEPT ![a] = row]
    BY <1>2, <1>4 DEF LedgerInv, TypeOK
  <2>2. row \in Row
    BY <1>1, SettlementTypes, RowUpdate
  <2>3. row.status = s.status /\ row.amount = s.amount
    BY <1>1 DEF Row
  <2>4. CASE entry[a].cacheHit
    <3>1. s.status = "local_cache" /\ s.amount = 0
      BY <2>4 DEF Settlements
    <3>2. row = costs[a]
      BY <1>1, <2>4, <3>1 DEF Row
    <3>3. row = [costs[a] EXCEPT !.status = row.status, !.amount = row.amount]
      BY <2>3
    <3> HIDE DEF row
    <3> QED
      BY <1>1, <2>1, <2>2, <3>2, <3>3
  <2>5. CASE ~ entry[a].cacheHit
    <3>1. s.status \in {"zero", "pending", "calculated", "estimated"} /\ (s.status = "zero" => ~ sent[a])
      BY <2>5 DEF Settlements
    <3>2. costs[a].status = "reserved"
      BY <1>1, <1>4, <2>5 DEF Open
    <3>3. row = [costs[a] EXCEPT !.status = row.status, !.amount = row.amount]
      BY <2>3
    <3> HIDE DEF row
    <3> QED
      BY <1>1, <2>1, <2>2, <2>3, <3>1, <3>2, <3>3
  <2> QED
    BY <2>4, <2>5
<1> QED
  BY <1>3, <1>4

LEMMA ReconcileWrites ==
  ASSUME LedgerInv, NEW m \in Admins, Reconcile(m)
  PROVE  /\ job[m].cost \in Rows /\ job[m].amount \in Amounts
         /\ costs[job[m].cost].status \in {"pending", "estimated"}
         /\ \E row \in Row, x \in [previous : {"pending", "estimated"}, amount : Amounts] :
               /\ costs' = [costs EXCEPT ![job[m].cost] = row]
               /\ row = [costs[job[m].cost] EXCEPT !.status = "reconciled", !.amount = job[m].amount]
               /\ row.status = "reconciled" /\ row.amount = job[m].amount
               /\ adjustments' = [adjustments EXCEPT ![job[m].cost] = Append(adjustments[job[m].cost], x)]
               /\ x.amount = job[m].amount
<1> DEFINE k == job[m].cost
           row == [costs[k] EXCEPT !.status = "reconciled", !.amount = job[m].amount]
           x == [previous |-> costs[k].status, amount |-> job[m].amount]
<1>1. costs' = [costs EXCEPT ![k] = row] /\ adjustments' = [adjustments EXCEPT ![k] = Append(adjustments[k], x)]
  BY DEF Reconcile, LedgerInv, TypeOK
<1>2. k \in Rows /\ job[m].amount \in Amounts /\ costs[k].status \in {"pending", "estimated"}
  BY Shapes DEF Reconcile, Shaped, LedgerInv, BudgetForms, CostForms
<1>3. row \in Row /\ row.status = "reconciled" /\ row.amount = job[m].amount
  <2>1. costs[k] \in Row
    BY <1>2, Shapes DEF Shaped
  <2>2. row \in Row
    BY <1>2, <2>1, RowUpdate, MoneyAssumption
  <2> QED
    BY <2>1, <2>2 DEF Row
<1>4. x \in [previous : {"pending", "estimated"}, amount : Amounts] /\ x.amount = job[m].amount
  BY <1>2
<1> HIDE DEF x
<1> QED
  BY <1>1, <1>2, <1>3, <1>4

LEMMA CleanupWrites ==
  ASSUME LedgerInv, Cleanup
  PROVE  \A b \in Attempts :
            \/ costs'[b] = costs[b]
            \/ /\ b \in Rows /\ costs[b].status = "reserved" /\ costs'[b] \in Row
               /\ costs'[b] = [costs[b] EXCEPT !.status = "pending"] /\ costs'[b].status = "pending"
<1> SUFFICES ASSUME NEW b \in Abandoned, b \in Attempts
             PROVE  /\ b \in Rows /\ costs[b].status = "reserved" /\ costs'[b] \in Row
                    /\ costs'[b] = [costs[b] EXCEPT !.status = "pending"] /\ costs'[b].status = "pending"
  BY DEF Cleanup
<1>1. b \in Rows /\ costs[b].status = "reserved" /\ costs[b] \in Row
  BY DEF Abandoned, LedgerInv, TypeOK, Rows
<1>2. costs'[b] = [costs[b] EXCEPT !.status = "pending"]
  BY DEF Cleanup
<1> QED
  BY <1>1, <1>2 DEF Row

(* Releasing locks leaves them what they are declared to be.               *)
LEMMA Releases ==
  ASSUME TypeOK, NEW p
  PROVE  /\ Unlocked(p) \in [Clients -> Attempts \cup Admins \cup {Nobody}]
         /\ ReleasedCost(p) \in [Attempts -> Admins \cup {Nobody}]
BY DEF TypeOK, Unlocked, ReleasedCost

(* Every step keeps the types.                                             *)
LEMMA NextType == LedgerInv /\ [Next]_vars => TypeOK'
<1> SUFFICES ASSUME LedgerInv, [Next]_vars PROVE TypeOK'
  OBVIOUS
<1>t. TypeOK /\ Shaped
  BY Shapes DEF LedgerInv
<1>u. \A p : /\ Unlocked(p) \in [Clients -> Attempts \cup Admins \cup {Nobody}]
             /\ ReleasedCost(p) \in [Attempts -> Admins \cup {Nobody}]
  BY <1>t, Releases
<1> USE MoneyAssumption, BoundsAssumption, RowAssumption
    DEF TypeOK, Shaped, LockKey, Leave, attempt, admin, ledger, locks
<1>1. ASSUME NEW a \in Attempts, Begin(a) PROVE TypeOK'
  <2>1. PICK e \in Entry : entry' = [entry EXCEPT ![a] = e]
    BY <1>1, BeginMakes
  <2> QED
    BY <1>t, <1>1, <2>1 DEF Begin, Rows
<1>2. ASSUME NEW a \in Attempts, Authorize(a) PROVE TypeOK'
  BY <1>t, <1>2 DEF Authorize, Rows
<1>3. ASSUME NEW a \in Attempts, CheckBudget(a) PROVE TypeOK'
  BY <1>t, <1>3 DEF CheckBudget, Rows
<1>4. ASSUME NEW a \in Attempts, Insert(a) PROVE TypeOK'
  <2>1. PICK row \in Row : costs' = [costs EXCEPT ![a] = row]
    BY <1>4, InsertWrites
  <2>2. costs' \in [Attempts -> Row \cup {NoRow}] /\ Rows \subseteq Rows'
    BY <1>t, <2>1 DEF Rows
  <2>3. pc' \in [Attempts -> {"idle", "locking", "checking", "inserting", "reserved", "settling", "gone"}]
        /\ entry' \in [Attempts -> Entry \cup {NoEntry}]
    BY <1>t, <1>4 DEF Insert
  <2>4. keyLock' = Unlocked(a) /\ UNCHANGED <<today, active, budget, costLock, adjustments, aged, sent, step, job>>
    BY <1>4 DEF Insert
  <2> QED
    BY <1>t, <1>u, <2>2, <2>3, <2>4
<1>5. ASSUME NEW a \in Attempts, Send(a) PROVE TypeOK'
  BY <1>t, <1>5 DEF Send, Rows
<1>6. ASSUME NEW a \in Attempts, BeginSettle(a) PROVE TypeOK'
  <2>1. keyLock' \in [Clients -> Attempts \cup Admins \cup {Nobody}]
    BY <1>t, <1>6 DEF BeginSettle
  <2> QED
    BY <1>t, <1>6, <2>1 DEF BeginSettle, Rows
<1>7. ASSUME NEW a \in Attempts, Settle(a) PROVE TypeOK'
  <2>1. PICK row \in Row : costs' = [costs EXCEPT ![a] = row]
    BY <1>7, SettleWrites
  <2>2. costs' \in [Attempts -> Row \cup {NoRow}] /\ Rows \subseteq Rows'
    BY <1>t, <2>1 DEF Rows
  <2> QED
    BY <1>t, <1>u, <1>7, <2>2 DEF Settle
<1>8. ASSUME NEW a \in Attempts, Abandon(a) PROVE TypeOK'
  BY <1>t, <1>u, <1>8 DEF Abandon, Rows
<1>9. ASSUME NEW a \in Attempts, Age(a) PROVE TypeOK'
  BY <1>t, <1>9 DEF Age, Rows
<1>10. ASSUME NEW m \in Admins, OpenBudget(m) PROVE TypeOK'
  <2>1. PICK j \in Job : job' = [job EXCEPT ![m] = j]
    BY <1>10, <1>t DEF OpenBudget, Job
  <2> QED
    BY <1>t, <1>10, <2>1 DEF OpenBudget, Rows
<1>11. ASSUME NEW m \in Admins, LockBudget(m) PROVE TypeOK'
  BY <1>t, <1>11 DEF LockBudget, Rows
<1>12. ASSUME NEW m \in Admins, SaveBudget(m) PROVE TypeOK'
  <2> DEFINE b == [daily |-> job[m].daily, monthly |-> job[m].monthly, revision |-> budget[job[m].client].revision + 1]
  <2>1. budget' = [budget EXCEPT ![job[m].client] = b]
    BY <1>12, <1>t DEF SaveBudget
  <2>2. b \in Budget
    BY <1>12, <1>t DEF SaveBudget, Budget
  <2> HIDE DEF b
  <2>3. budget' \in [Clients -> Budget] /\ job' \in [Admins -> Job \cup {NoJob}]
    BY <1>t, <1>12, <2>1, <2>2 DEF SaveBudget
  <2> QED
    BY <1>t, <1>u, <1>12, <2>3 DEF SaveBudget, Rows
<1>13. ASSUME NEW m \in Admins, OpenCost(m) PROVE TypeOK'
  <2>1. PICK j \in Job : job' = [job EXCEPT ![m] = j]
    BY <1>13, <1>t DEF OpenCost, Job, Rows
  <2> QED
    BY <1>t, <1>13, <2>1 DEF OpenCost, Rows
<1>14. ASSUME NEW m \in Admins, LockCostKey(m) PROVE TypeOK'
  <2>1. keyLock' \in [Clients -> Attempts \cup Admins \cup {Nobody}]
    <3>1. costs[job[m].cost].client \in Clients
      BY <1>t, <1>14 DEF LockCostKey
    <3>2. keyLock' = keyLock \/ keyLock' = [keyLock EXCEPT ![costs[job[m].cost].client] = m]
      BY <1>14 DEF LockCostKey
    <3> QED
      BY <1>t, <3>1, <3>2
  <2> QED
    BY <1>t, <1>14, <2>1 DEF LockCostKey, Rows
<1>15. ASSUME NEW m \in Admins, LockCost(m) PROVE TypeOK'
  BY <1>t, <1>15 DEF LockCost, Rows
<1>16. ASSUME NEW m \in Admins, Reconcile(m) PROVE TypeOK'
  <2> DEFINE R == [previous : {"pending", "estimated"}, amount : Amounts]
  <2>0. \E row \in Row, x \in R :
               /\ costs' = [costs EXCEPT ![job[m].cost] = row]
               /\ row = [costs[job[m].cost] EXCEPT !.status = "reconciled", !.amount = job[m].amount]
               /\ row.status = "reconciled" /\ row.amount = job[m].amount
               /\ adjustments' = [adjustments EXCEPT ![job[m].cost] = Append(adjustments[job[m].cost], x)]
               /\ x.amount = job[m].amount
    BY <1>16, ReconcileWrites
  <2>1. PICK row \in Row, x \in R :
           /\ costs' = [costs EXCEPT ![job[m].cost] = row]
           /\ adjustments' = [adjustments EXCEPT ![job[m].cost] = Append(adjustments[job[m].cost], x)]
    BY <2>0
  <2>2. costs' \in [Attempts -> Row \cup {NoRow}] /\ Rows \subseteq Rows'
    BY <1>t, <2>1 DEF Rows
  <2>3. adjustments \in [Attempts -> Seq(R)] /\ job[m].cost \in Attempts
    BY <1>t, <1>16 DEF Reconcile
  <2>4. adjustments' \in [Attempts -> Seq(R)]
    <3> HIDE DEF R
    <3>1. [adjustments EXCEPT ![job[m].cost] = Append(adjustments[job[m].cost], x)] \in [Attempts -> Seq(R)]
      BY <2>3, Appended
    <3> QED
      BY <2>1, <3>1
  <2> QED
    BY <1>t, <1>u, <1>16, <2>2, <2>4 DEF Reconcile
<1>17. ASSUME NEW m \in Admins, Refuse(m) PROVE TypeOK'
  BY <1>t, <1>u, <1>17 DEF Refuse, Rows
<1>18. ASSUME NEW c \in Clients, NEW on \in BOOLEAN, SetActive(c, on) PROVE TypeOK'
  BY <1>t, <1>18 DEF SetActive, Rows
<1>19. ASSUME Cleanup PROVE TypeOK'
  <2>1. \A b \in Attempts : costs'[b] \in Row \cup {NoRow} /\ (b \in Rows => costs'[b] # NoRow)
    <3>1. \A b \in Attempts :
            \/ costs'[b] = costs[b]
            \/ b \in Rows /\ costs[b].status = "reserved" /\ costs'[b] \in Row
      BY <1>19, CleanupWrites
    <3> QED
      BY <1>t, <3>1 DEF Rows
  <2>2. costs' \in [Attempts -> Row \cup {NoRow}]
    BY <1>19, <2>1 DEF Cleanup
  <2>3. Rows \subseteq Rows'
    BY <2>1, <2>2 DEF Rows
  <2> QED
    BY <1>t, <1>19, <2>2, <2>3 DEF Cleanup
<1>20. ASSUME Midnight PROVE TypeOK'
  BY <1>t, <1>20 DEF Midnight, Rows
<1>21. ASSUME UNCHANGED vars PROVE TypeOK'
  BY <1>t, <1>21 DEF vars, Rows
<1> QED
  BY <1>1, <1>2, <1>3, <1>4, <1>5, <1>6, <1>7, <1>8, <1>9, <1>10, <1>11, <1>12, <1>13, <1>14, <1>15, <1>16, <1>17, <1>18, <1>19, <1>20, <1>21
     DEF Next, Reserve, Complete, Administer

(* Only these statements write the ledger.                                 *)
LEMMA LedgerSteps ==
  ASSUME [Next]_vars
  PROVE  \/ UNCHANGED <<costs, adjustments>>
         \/ \E a \in Attempts : Insert(a) \/ Settle(a)
         \/ \E m \in Admins : Reconcile(m)
         \/ Cleanup
BY DEF Next, vars, ledger, Reserve, Complete, Administer, Begin, Authorize, CheckBudget, Send, BeginSettle,
       Abandon, Age, OpenBudget, LockBudget, SaveBudget, OpenCost, LockCostKey, LockCost, Refuse, SetActive, Midnight

(* What is in the ledger keeps everything but its status and its amount,   *)
(* and those change together with the status going forward.                *)
Rewritten(b) ==
    /\ costs'[b] \in Row
    /\ costs'[b] = [costs[b] EXCEPT !.status = costs'[b].status, !.amount = costs'[b].amount]
    /\ costs'[b] = costs[b] \/ costs'[b].status \in Successors(costs[b].status)

LEMMA Rewrites == LedgerInv /\ [Next]_vars => \A b \in Rows : Rewritten(b)
<1> SUFFICES ASSUME LedgerInv, [Next]_vars, NEW b \in Rows PROVE Rewritten(b)
  OBVIOUS
<1>r. b \in Attempts /\ costs[b] \in Row /\ costs \in [Attempts -> Row \cup {NoRow}] /\ NoRow \notin Row
  BY RowAssumption DEF LedgerInv, TypeOK, Rows
<1>s. costs[b] = [costs[b] EXCEPT !.status = costs[b].status, !.amount = costs[b].amount]
  BY <1>r DEF Row
<1>1. CASE costs'[b] = costs[b]
  BY <1>1, <1>r, <1>s DEF Rewritten
<1>2. ASSUME NEW a \in Attempts, Insert(a) PROVE Rewritten(b)
  <2>1. PICK row \in Row : costs' = [costs EXCEPT ![a] = row]
    BY <1>2, InsertWrites
  <2>2. costs[a] = NoRow
    BY <1>2 DEF LedgerInv, Written, Insert
  <2> QED
    BY <1>1, <1>r, <2>1, <2>2
<1>3. ASSUME NEW a \in Attempts, Settle(a) PROVE Rewritten(b)
  <2>1. PICK row \in Row :
               /\ costs' = [costs EXCEPT ![a] = row]
               /\ row = [costs[a] EXCEPT !.status = row.status, !.amount = row.amount]
               /\ \/ row = costs[a]
                  \/ /\ costs[a].status = "reserved"
                     /\ row.status \in {"zero", "pending", "calculated", "estimated"}
    BY <1>3, SettleWrites
  <2> QED
    BY <1>1, <1>r, <2>1 DEF Rewritten, Successors
<1>4. ASSUME NEW m \in Admins, Reconcile(m) PROVE Rewritten(b)
  <2> DEFINE k == job[m].cost
  <2>1. costs[k].status \in {"pending", "estimated"} /\ k \in Rows
    BY <1>4, ReconcileWrites
  <2>2. PICK row \in Row :
               /\ costs' = [costs EXCEPT ![k] = row]
               /\ row = [costs[k] EXCEPT !.status = "reconciled", !.amount = job[m].amount]
               /\ row.status = "reconciled" /\ row.amount = job[m].amount
    BY <1>4, ReconcileWrites
  <2>3. row = [costs[k] EXCEPT !.status = row.status, !.amount = row.amount]
    BY <2>2
  <2>4. CASE b = k
    <3>1. costs'[b] = row
      BY <1>r, <2>2, <2>4
    <3>2. "reconciled" \in Successors(costs[k].status)
      BY <2>1 DEF Successors
    <3>3. costs'[b] \in Row /\ costs'[b].status \in Successors(costs[b].status)
      BY <2>2, <2>4, <3>1, <3>2
    <3>4. costs'[b] = [costs[b] EXCEPT !.status = costs'[b].status, !.amount = costs'[b].amount]
      BY <2>3, <2>4, <3>1
    <3> QED
      BY <3>3, <3>4 DEF Rewritten
  <2> QED
    BY <1>1, <1>r, <2>2, <2>4
<1>5. ASSUME Cleanup PROVE Rewritten(b)
  <2>1. CASE costs[b].status = "reserved" /\ costs'[b] \in Row
             /\ costs'[b] = [costs[b] EXCEPT !.status = "pending"] /\ costs'[b].status = "pending"
    BY <1>r, <2>1 DEF Rewritten, Successors, Row
  <2> QED
    BY <1>5, <1>1, <1>r, <2>1, CleanupWrites
<1> QED
  BY <1>1, <1>2, <1>3, <1>4, <1>5, LedgerSteps

(* What an attempt has computed stays until it leaves.                     *)
LEMMA NextComputed == LedgerInv /\ [Next]_vars => Computed'
<1> SUFFICES ASSUME LedgerInv, [Next]_vars PROVE Computed'
  OBVIOUS
<1>i. TypeOK /\ Computed
  BY Shapes DEF LedgerInv
<1> USE BoundsAssumption, RowAssumption DEF attempt, admin, ledger, locks, TypeOK, Computed, Leave
<1>1. ASSUME NEW a \in Attempts, Begin(a) PROVE Computed'
  <2>1. PICK e \in Entry : /\ entry' = [entry EXCEPT ![a] = e]
                          /\ pc' = [pc EXCEPT ![a] = IF e.kind = "production" THEN "locking" ELSE "inserting"]
    BY <1>1, BeginMakes
  <2> QED
    BY <1>i, <2>1
<1>2. ASSUME NEW a \in Attempts, Authorize(a) PROVE Computed'
  BY <1>i, <1>2 DEF Authorize
<1>3. ASSUME NEW a \in Attempts, CheckBudget(a) PROVE Computed'
  BY <1>i, <1>3 DEF CheckBudget
<1>4. ASSUME NEW a \in Attempts, Insert(a) PROVE Computed'
  BY <1>i, <1>4 DEF Insert
<1>5. ASSUME NEW a \in Attempts, BeginSettle(a) PROVE Computed'
  BY <1>i, <1>5 DEF BeginSettle
<1>6. ASSUME NEW a \in Attempts, Settle(a) PROVE Computed'
  BY <1>i, <1>6 DEF Settle
<1>7. ASSUME NEW a \in Attempts, Abandon(a) PROVE Computed'
  BY <1>i, <1>7 DEF Abandon
<1>8. CASE UNCHANGED <<pc, entry>>
  BY <1>i, <1>8
<1> QED
  BY <1>1, <1>2, <1>3, <1>4, <1>5, <1>6, <1>7, <1>8
     DEF Next, vars, Reserve, Complete, Administer, Send, Age, OpenBudget, LockBudget, SaveBudget, OpenCost, LockCostKey, LockCost, Reconcile, Refuse, SetActive, Cleanup, Midnight

(* The row an attempt has written is still its own.                        *)
LEMMA NextWritten == LedgerInv /\ [Next]_vars => Written'
<1> SUFFICES ASSUME LedgerInv, [Next]_vars PROVE Written'
  OBVIOUS
<1>i. TypeOK /\ Shaped /\ Written
  BY Shapes DEF LedgerInv
<1>r. \A b \in Rows : Rewritten(b)
  BY Rewrites
<1> USE BoundsAssumption, RowAssumption DEF attempt, admin, ledger, locks, TypeOK, Shaped, Written, Rows, Leave
<1>1. ASSUME NEW a \in Attempts, Begin(a) PROVE Written'
  <2>1. PICK e \in Entry : /\ entry' = [entry EXCEPT ![a] = e]
                          /\ pc' = [pc EXCEPT ![a] = IF e.kind = "production" THEN "locking" ELSE "inserting"]
    BY <1>1, BeginMakes
  <2> QED
    BY <1>i, <1>1, <2>1 DEF Begin
<1>2. ASSUME NEW a \in Attempts, Authorize(a) PROVE Written'
  BY <1>i, <1>2 DEF Authorize
<1>3. ASSUME NEW a \in Attempts, CheckBudget(a) PROVE Written'
  BY <1>i, <1>3 DEF CheckBudget
<1>4. ASSUME NEW a \in Attempts, Insert(a) PROVE Written'
  <2>1. PICK row \in Row :
          /\ costs' = [costs EXCEPT ![a] = row]
          /\ row.client = entry[a].client /\ row.kind = entry[a].kind
          /\ IF entry[a].cacheHit THEN row.status = "local_cache" /\ row.amount = 0
                                  ELSE row.status = "reserved" /\ row.amount = NoAmount
    <3> HIDE DEF TypeOK, Shaped, Written
    <3> QED
      BY <1>4, InsertWrites
  <2> QED
    BY <1>i, <1>4, <2>1 DEF Insert
<1>5. ASSUME NEW a \in Attempts, Send(a) PROVE Written'
  BY <1>i, <1>5 DEF Send
<1>6. ASSUME NEW a \in Attempts, BeginSettle(a) PROVE Written'
  BY <1>i, <1>6 DEF BeginSettle
<1>7. ASSUME NEW a \in Attempts, Settle(a) PROVE Written'
  <2>1. \A b \in Attempts \ {a} : costs'[b] = costs[b] /\ pc'[b] = pc[b] /\ entry'[b] = entry[b]
    BY <1>i, <1>7 DEF Settle
  <2>2. pc'[a] = "gone" /\ sent' = sent
    BY <1>i, <1>7 DEF Settle
  <2> QED
    BY <1>i, <2>1, <2>2
<1>8. ASSUME NEW a \in Attempts, Abandon(a) PROVE Written'
  BY <1>i, <1>8 DEF Abandon
<1>9. ASSUME NEW m \in Admins, Reconcile(m) PROVE Written'
  <2>1. UNCHANGED <<pc, entry, sent>>
    BY <1>9 DEF Reconcile, attempt
  <2>2. /\ \A b \in Attempts : b # job[m].cost => costs'[b] = costs[b]
        /\ job[m].cost \in Rows /\ costs'[job[m].cost].status = "reconciled"
        /\ costs[job[m].cost].status \in {"pending", "estimated"}
    <3>1. costs \in [Attempts -> Row \cup {NoRow}]
      BY <1>i
    <3> HIDE DEF TypeOK, Shaped, Written
    <3>2. PICK row \in Row : costs' = [costs EXCEPT ![job[m].cost] = row] /\ row.status = "reconciled"
      BY <1>9, ReconcileWrites
    <3>3. job[m].cost \in Rows /\ costs[job[m].cost].status \in {"pending", "estimated"}
      BY <1>9, ReconcileWrites
    <3> QED
      BY <3>1, <3>2, <3>3
  <2>3. Rewritten(job[m].cost)
    BY <2>2, <1>r
  <2>4. /\ costs'[job[m].cost].client = costs[job[m].cost].client
        /\ costs'[job[m].cost].kind = costs[job[m].cost].kind
        /\ costs'[job[m].cost] # NoRow
    BY <1>i, <2>2, <2>3 DEF Rewritten, Row
  <2> QED
    BY <1>i, <2>1, <2>2, <2>4
<1>10. ASSUME Cleanup PROVE Written'
  <2>1. UNCHANGED <<pc, entry, sent>>
    BY <1>10 DEF Cleanup, attempt
  <2>2. \A b \in Attempts :
            \/ costs'[b] = costs[b]
            \/ /\ b \in Rows /\ costs[b].status = "reserved" /\ costs'[b] \in Row
               /\ costs'[b] = [costs[b] EXCEPT !.status = "pending"] /\ costs'[b].status = "pending"
    <3> HIDE DEF TypeOK, Shaped, Written, Rows
    <3> QED
      BY <1>10, CleanupWrites
  <2>3. ASSUME NEW b \in Attempts
        PROVE  /\ costs'[b] = NoRow <=> costs[b] = NoRow
               /\ costs[b] # NoRow => costs'[b].client = costs[b].client /\ costs'[b].kind = costs[b].kind
               /\ costs'[b] = costs[b] \/ (costs[b].status = "reserved" /\ costs'[b].status = "pending")
    <3>1. CASE costs'[b] = costs[b]
      BY <3>1
    <3>2. CASE b \in Rows /\ costs[b].status = "reserved" /\ costs'[b].status = "pending"
      <4>1. Rewritten(b) /\ costs[b] \in Row
        BY <3>2, <1>r, <1>i
      <4>2. costs'[b].client = costs[b].client /\ costs'[b].kind = costs[b].kind
        BY <4>1 DEF Rewritten, Row
      <4> QED
        BY <3>2, <4>1, <4>2 DEF Rewritten
    <3> QED
      BY <2>2, <3>1, <3>2
  <2> QED
    BY <1>i, <2>1, <2>3
<1>11. CASE UNCHANGED <<pc, entry, costs, sent>>
  BY <1>i, <1>11
<1> QED
  BY <1>1, <1>2, <1>3, <1>4, <1>5, <1>6, <1>7, <1>8, <1>9, <1>10, <1>11
     DEF Next, vars, Reserve, Complete, Administer, Age, OpenBudget, LockBudget, SaveBudget, OpenCost, LockCostKey, LockCost, Refuse, SetActive, Midnight

(* What stays of a row.                                                    *)
Kept(b) ==
    /\ b \in Rows'
    /\ costs'[b].client = costs[b].client /\ costs'[b].kind = costs[b].kind /\ costs'[b].day = costs[b].day
    /\ costs'[b].reserved = costs[b].reserved /\ costs'[b].valid = costs[b].valid

LEMMA Keeps == LedgerInv /\ [Next]_vars => \A b \in Rows : Kept(b)
<1> SUFFICES ASSUME LedgerInv, [Next]_vars, NEW b \in Rows PROVE Kept(b)
  OBVIOUS
<1>1. Rewritten(b) /\ costs[b] \in Row /\ b \in Attempts
  BY Rewrites DEF LedgerInv, TypeOK, Rows
<1> QED
  BY <1>1, RowAssumption DEF Rewritten, Kept, Row, Rows

(* The locks on keys are held until the transactions on them end.          *)
LEMMA NextKeysHeld == LedgerInv /\ [Next]_vars => KeysHeld'
<1> SUFFICES ASSUME LedgerInv, [Next]_vars PROVE KeysHeld'
  OBVIOUS
<1>i. TypeOK /\ Shaped /\ Computed /\ Written /\ KeysHeld
  BY Shapes DEF LedgerInv
<1>r. \A b \in Rows : Kept(b)
  BY Keeps
<1> USE BoundsAssumption, RowAssumption DEF attempt, admin, ledger, locks, TypeOK, Shaped, Computed, KeysHeld, HoldsKey, LockKey, Unlocked, Leave
<1>1. ASSUME NEW a \in Attempts, Begin(a) PROVE KeysHeld'
  BY <1>i, <1>1 DEF Begin
<1>2. ASSUME NEW a \in Attempts, Authorize(a) PROVE KeysHeld'
  BY <1>i, <1>2 DEF Authorize
<1>3. ASSUME NEW a \in Attempts, CheckBudget(a) PROVE KeysHeld'
  BY <1>i, <1>3 DEF CheckBudget
<1>4. ASSUME NEW a \in Attempts, Insert(a) PROVE KeysHeld'
  BY <1>i, <1>r, <1>4 DEF Kept, Insert
<1>5. ASSUME NEW a \in Attempts, BeginSettle(a) PROVE KeysHeld'
  BY <1>i, <1>5 DEF BeginSettle
<1>6. ASSUME NEW a \in Attempts, Settle(a) PROVE KeysHeld'
  BY <1>i, <1>r, <1>6 DEF Kept, Settle
<1>7. ASSUME NEW a \in Attempts, Abandon(a) PROVE KeysHeld'
  BY <1>i, <1>7 DEF Abandon
<1>8. ASSUME NEW m \in Admins, OpenBudget(m) PROVE KeysHeld'
  BY <1>i, <1>8 DEF OpenBudget
<1>9. ASSUME NEW m \in Admins, LockBudget(m) PROVE KeysHeld'
  BY <1>i, <1>9 DEF LockBudget
<1>10. ASSUME NEW m \in Admins, SaveBudget(m) PROVE KeysHeld'
  BY <1>i, <1>10 DEF SaveBudget
<1>11. ASSUME NEW m \in Admins, OpenCost(m) PROVE KeysHeld'
  BY <1>i, <1>11 DEF OpenCost
<1>12. ASSUME NEW m \in Admins, LockCostKey(m) PROVE KeysHeld'
  BY <1>i, <1>12 DEF LockCostKey
<1>13. ASSUME NEW m \in Admins, LockCost(m) PROVE KeysHeld'
  BY <1>i, <1>13 DEF LockCost
<1>14. ASSUME NEW m \in Admins, Reconcile(m) PROVE KeysHeld'
  BY <1>i, <1>r, <1>14 DEF Kept, Reconcile
<1>15. ASSUME NEW m \in Admins, Refuse(m) PROVE KeysHeld'
  BY <1>i, <1>15 DEF Refuse
<1>16. ASSUME NEW c \in Clients, NEW on \in BOOLEAN, SetActive(c, on) PROVE KeysHeld'
  BY <1>i, <1>16 DEF SetActive
<1>17. ASSUME Cleanup PROVE KeysHeld'
  BY <1>i, <1>r, <1>17 DEF Kept, Cleanup
<1>18. CASE UNCHANGED <<pc, entry, keyLock, active, step, job, costs>>
  BY <1>i, <1>18
<1> QED
  BY <1>1, <1>2, <1>3, <1>4, <1>5, <1>6, <1>7, <1>8, <1>9, <1>10, <1>11, <1>12, <1>13, <1>14, <1>15, <1>16, <1>17, <1>18
     DEF Next, vars, Reserve, Complete, Administer, Send, Age, Midnight

(* What the budget forms of administrators show.                           *)
LEMMA NextBudgetForms == LedgerInv /\ [Next]_vars => BudgetForms'
<1> SUFFICES ASSUME LedgerInv, [Next]_vars PROVE BudgetForms'
  OBVIOUS
<1>i. TypeOK /\ Shaped /\ BudgetForms
  BY Shapes DEF LedgerInv
<1> USE BoundsAssumption, RowAssumption DEF attempt, admin, ledger, locks, BudgetForms
<1>1. ASSUME NEW m \in Admins, OpenBudget(m) PROVE BudgetForms'
  <2>1. PICK c \in Clients, daily \in Limits, monthly \in Limits :
           job' = [job EXCEPT ![m] = [client |-> c, basis |-> budget[c], daily |-> daily, monthly |-> monthly]]
    BY <1>1 DEF OpenBudget
  <2>2. [client |-> c, basis |-> budget[c], daily |-> daily, monthly |-> monthly] \in BudgetForm
    BY <1>i DEF TypeOK, BudgetForm
  <2>3. budget[c].revision \in Int
    BY <1>i DEF TypeOK, Budget
  <2> QED
    BY <1>i, <1>1, <2>1, <2>2, <2>3 DEF OpenBudget, TypeOK
<1>2. ASSUME NEW m \in Admins, LockBudget(m) PROVE BudgetForms'
  BY <1>i, <1>2 DEF TypeOK, LockBudget
<1>3. ASSUME NEW m \in Admins, SaveBudget(m) PROVE BudgetForms'
  <2>1. \A c \in Clients : budget[c].revision \in Int
    BY <1>i DEF TypeOK, Budget
  <2>2. \A n \in Admins : step[n] \in {"editing", "saving"} => job[n].basis.revision \in Int /\ job[n].client \in Clients
    BY <1>i DEF Shaped, Budget
  <2>3. \A c \in Clients : budget'[c] = budget[c] \/ budget'[c].revision = budget[c].revision + 1
    BY <1>i, <1>3 DEF SaveBudget, TypeOK
  <2> QED
    BY <1>i, <1>3, <2>1, <2>2, <2>3 DEF SaveBudget, TypeOK
<1>4. ASSUME NEW m \in Admins, OpenCost(m) PROVE BudgetForms'
  BY <1>i, <1>4 DEF TypeOK, OpenCost
<1>5. ASSUME NEW m \in Admins, LockCostKey(m) PROVE BudgetForms'
  BY <1>i, <1>5 DEF TypeOK, LockCostKey
<1>6. ASSUME NEW m \in Admins, LockCost(m) PROVE BudgetForms'
  BY <1>i, <1>6 DEF TypeOK, LockCost
<1>7. ASSUME NEW m \in Admins, Reconcile(m) PROVE BudgetForms'
  BY <1>i, <1>7 DEF TypeOK, Reconcile
<1>8. ASSUME NEW m \in Admins, Refuse(m) PROVE BudgetForms'
  BY <1>i, <1>8 DEF TypeOK, Refuse
<1>9. CASE UNCHANGED <<budget, step, job>>
  BY <1>i, <1>9
<1> QED
  BY <1>1, <1>2, <1>3, <1>4, <1>5, <1>6, <1>7, <1>8, <1>9
     DEF Next, vars, Reserve, Complete, Administer, Begin, Authorize, CheckBudget, Insert, Send, BeginSettle, Settle, Abandon, Age, SetActive, Cleanup, Midnight

(* What the cost forms of administrators show, and lock.                   *)
LEMMA NextCostForms == LedgerInv /\ [Next]_vars => CostForms'
<1> SUFFICES ASSUME LedgerInv, [Next]_vars PROVE CostForms'
  OBVIOUS
<1>i. TypeOK /\ Shaped /\ CostForms
  BY Shapes DEF LedgerInv
<1>r. \A b \in Rows : Kept(b)
  BY Keeps
<1> USE BoundsAssumption, RowAssumption DEF attempt, admin, ledger, locks, CostForms
<1>1. ASSUME NEW a \in Attempts, Insert(a) PROVE CostForms'
  <2>1. costs[a] = NoRow /\ \A b \in Attempts \ {a} : costs'[b] = costs[b]
    BY <1>i, <1>1 DEF LedgerInv, Written, Insert, TypeOK
  <2> QED
    BY <1>i, <1>r, <1>1, <2>1 DEF Kept, Insert, Shaped, Rows
<1>2. ASSUME NEW a \in Attempts, Settle(a) PROVE CostForms'
  <2>1. \A b \in Rows : costs[b].status \in {"pending", "estimated"} => costs'[b] = costs[b]
    BY <1>i, <1>2 DEF Settle, Open, TypeOK, Rows
  <2>2. UNCHANGED <<costLock, step, job>>
    BY <1>2 DEF Settle
  <2> QED
    BY <1>i, <1>r, <2>1, <2>2 DEF Kept
<1>3. ASSUME NEW m \in Admins, OpenBudget(m) PROVE CostForms'
  BY <1>i, <1>r, <1>3 DEF TypeOK, Kept, OpenBudget
<1>4. ASSUME NEW m \in Admins, LockBudget(m) PROVE CostForms'
  BY <1>i, <1>r, <1>4 DEF TypeOK, Kept, LockBudget
<1>5. ASSUME NEW m \in Admins, SaveBudget(m) PROVE CostForms'
  BY <1>i, <1>r, <1>5 DEF TypeOK, Kept, SaveBudget
<1>6. ASSUME NEW m \in Admins, OpenCost(m) PROVE CostForms'
  <2>1. PICK a \in Rows, amount \in Amounts : job' = [job EXCEPT ![m] = [cost |-> a, amount |-> amount]]
    BY <1>6 DEF OpenCost
  <2>2. [cost |-> a, amount |-> amount] \in CostForm
    BY DEF CostForm, Rows
  <2> QED
    BY <1>i, <1>r, <1>6, <2>1, <2>2 DEF OpenCost, Kept, TypeOK
<1>7. ASSUME NEW m \in Admins, LockCostKey(m) PROVE CostForms'
  BY <1>i, <1>r, <1>7 DEF TypeOK, Kept, LockCostKey
<1>8. ASSUME NEW m \in Admins, LockCost(m) PROVE CostForms'
  BY <1>i, <1>r, <1>8 DEF TypeOK, Shaped, Kept, LockCost
<1>9. ASSUME NEW m \in Admins, Reconcile(m) PROVE CostForms'
  <2>1. \A b \in Rows \ {job[m].cost} : costs'[b] = costs[b]
    BY <1>i, <1>9 DEF Reconcile, TypeOK, Rows
  <2> QED
    BY <1>i, <1>r, <1>9, <2>1 DEF Kept, Reconcile, ReleasedCost, Shaped, TypeOK
<1>10. ASSUME NEW m \in Admins, Refuse(m) PROVE CostForms'
  BY <1>i, <1>r, <1>10 DEF TypeOK, Shaped, Kept, ReleasedCost, Refuse
<1>11. ASSUME Cleanup PROVE CostForms'
  <2>1. \A b \in Rows : costs[b].status # "reserved" => costs'[b] = costs[b]
    BY <1>i, <1>11 DEF Cleanup, Abandoned, TypeOK, Rows
  <2> QED
    BY <1>i, <1>r, <1>11, <2>1 DEF Kept, Cleanup, Shaped
<1>12. CASE UNCHANGED <<costs, costLock, step, job>>
  BY <1>i, <1>12 DEF Rows
<1> QED
  BY <1>1, <1>2, <1>3, <1>4, <1>5, <1>6, <1>7, <1>8, <1>9, <1>10, <1>11, <1>12
     DEF Next, vars, Reserve, Complete, Administer, Begin, Authorize, CheckBudget, Send, BeginSettle, Abandon, Age, SetActive, Midnight

(* A correction comes with the status that excludes another.               *)
LEMMA NextReconciledOnce == LedgerInv /\ [Next]_vars => ReconciledOnce'
<1> SUFFICES ASSUME LedgerInv, [Next]_vars PROVE ReconciledOnce'
  OBVIOUS
<1>i. TypeOK /\ Shaped /\ Written /\ ReconciledOnce
  BY Shapes DEF LedgerInv
<1> USE BoundsAssumption, RowAssumption DEF attempt, admin, ledger, locks
<1>1. ASSUME NEW a \in Attempts, Insert(a) PROVE ReconciledOnce'
  <2>1. PICK row \in Row : costs' = [costs EXCEPT ![a] = row] /\ row.status # "reconciled"
    BY <1>1, InsertWrites
  <2>2. costs[a] = NoRow /\ adjustments' = adjustments
    BY <1>i, <1>1 DEF Written, Insert
  <2> QED
    BY <1>i, <2>1, <2>2 DEF ReconciledOnce, TypeOK, Rows
<1>2. ASSUME NEW a \in Attempts, Settle(a) PROVE ReconciledOnce'
  <2>1. \A b \in Attempts : costs'[b] = costs[b] \/ (b \in Rows' /\ b \in Rows /\ costs[b].status = "reserved" /\ costs'[b].status # "reconciled")
    <3>1. PICK row \in Row :
               /\ costs' = [costs EXCEPT ![a] = row] /\ a \in Rows
               /\ \/ row = costs[a]
                  \/ costs[a].status = "reserved" /\ row.status \in {"zero", "pending", "calculated", "estimated"}
      BY <1>2, SettleWrites
    <3> QED
      BY <1>i, <3>1 DEF TypeOK, Rows
  <2>2. adjustments' = adjustments
    BY <1>2 DEF Settle
  <2>3. \A b \in Attempts : Len(adjustments[b]) = 0 => DOMAIN adjustments[b] = {}
    BY <1>i DEF TypeOK
  <2> QED
    BY <1>i, <2>1, <2>2, <2>3 DEF ReconciledOnce, Rows
<1>3. ASSUME NEW m \in Admins, Reconcile(m) PROVE ReconciledOnce'
  <2> DEFINE k == job[m].cost
             R == [previous : {"pending", "estimated"}, amount : Amounts]
  <2>1. PICK row \in Row, x \in R :
               /\ costs' = [costs EXCEPT ![k] = row]
               /\ row = [costs[k] EXCEPT !.status = "reconciled", !.amount = job[m].amount]
               /\ row.status = "reconciled" /\ row.amount = job[m].amount
               /\ adjustments' = [adjustments EXCEPT ![k] = Append(adjustments[k], x)]
               /\ x.amount = job[m].amount
    BY <1>3, ReconcileWrites
  <2>2. k \in Rows /\ costs[k].status \in {"pending", "estimated"}
    BY <1>3, ReconcileWrites
  <2>3. Len(adjustments[k]) = 0 /\ adjustments[k] \in Seq(R) /\ x.previous \in {"pending", "estimated"}
    BY <1>i, <2>2 DEF ReconciledOnce, TypeOK, Rows
  <2>4. Len(Append(adjustments[k], x)) = 1 /\ DOMAIN Append(adjustments[k], x) = {1} /\ Append(adjustments[k], x)[1] = x
    <3> HIDE DEF R, k
    <3> QED
      BY <2>3
  <2>5. \A b \in Attempts \ {k} : costs'[b] = costs[b] /\ adjustments'[b] = adjustments[b]
    BY <1>i, <2>1 DEF TypeOK
  <2>6. costs'[k] = row /\ adjustments'[k] = Append(adjustments[k], x) /\ k \in Attempts
    BY <1>i, <2>1, <2>2 DEF TypeOK, Rows
  <2> HIDE DEF k, R
  <2> SUFFICES ASSUME NEW b \in Attempts
               PROVE  /\ Len(adjustments'[b]) = IF b \in Rows' /\ costs'[b].status = "reconciled" THEN 1 ELSE 0
                      /\ \A i \in DOMAIN adjustments'[b] :
                            /\ adjustments'[b][i].previous \in {"pending", "estimated"}
                            /\ adjustments'[b][i].amount = costs'[b].amount
    BY DEF ReconciledOnce
  <2>7. CASE b = k
    <3>1. k \in Rows' /\ costs'[k].status = "reconciled" /\ costs'[k].amount = x.amount
      BY <2>1, <2>6, RowAssumption DEF Rows
    <3> QED
      BY <2>3, <2>4, <2>6, <2>7, <3>1
  <2>8. CASE b # k
    <3>1. costs'[b] = costs[b] /\ adjustments'[b] = adjustments[b] /\ (b \in Rows' <=> b \in Rows)
      BY <2>5, <2>8 DEF Rows
    <3> QED
      BY <1>i, <3>1 DEF ReconciledOnce
  <2> QED
    BY <2>7, <2>8
<1>4. ASSUME Cleanup PROVE ReconciledOnce'
  <2>1. \A b \in Attempts : costs'[b] = costs[b] \/ (b \in Rows' /\ b \in Rows /\ costs[b].status = "reserved" /\ costs'[b].status # "reconciled")
    BY <1>4, CleanupWrites DEF Rows
  <2>2. adjustments' = adjustments
    BY <1>4 DEF Cleanup
  <2>3. \A b \in Attempts : Len(adjustments[b]) = 0 => DOMAIN adjustments[b] = {}
    BY <1>i DEF TypeOK
  <2> QED
    BY <1>i, <2>1, <2>2, <2>3 DEF ReconciledOnce, Rows
<1>5. CASE UNCHANGED <<costs, adjustments>>
  BY <1>i, <1>5 DEF ReconciledOnce, Rows
<1> QED
  BY <1>1, <1>2, <1>3, <1>4, <1>5
     DEF Next, vars, Reserve, Complete, Administer, Begin, Authorize, CheckBudget, Send, BeginSettle, Abandon, Age, OpenBudget, LockBudget, SaveBudget, OpenCost, LockCostKey, LockCost, Refuse, SetActive, Midnight

(* A call that was sent keeps its row, and the row its price.              *)
LEMMA NextNoFreeCalls == LedgerInv /\ [Next]_vars => NoFreeCalls'
<1> SUFFICES ASSUME LedgerInv, [Next]_vars PROVE NoFreeCalls'
  OBVIOUS
<1>i. TypeOK /\ Shaped /\ Computed /\ Written /\ NoFreeCalls
  BY Shapes DEF LedgerInv
<1> USE BoundsAssumption, RowAssumption DEF attempt, admin, ledger, locks
<1>1. ASSUME NEW a \in Attempts, Insert(a) PROVE NoFreeCalls'
  <2>1. \A b \in Attempts \ {a} : costs'[b] = costs[b]
    BY <1>i, <1>1 DEF Insert, TypeOK
  <2>2. sent' = sent /\ ~ sent[a]
    BY <1>i, <1>1 DEF Insert, Written
  <2> QED
    BY <1>i, <2>1, <2>2 DEF NoFreeCalls, Rows
<1>2. ASSUME NEW a \in Attempts, Send(a) PROVE NoFreeCalls'
  <2>1. costs' = costs /\ a \in Rows /\ costs[a].status \notin {"zero", "local_cache"}
    BY <1>i, <1>2 DEF Send, Written
  <2> QED
    BY <1>i, <1>2, <2>1 DEF NoFreeCalls, Rows, Send, TypeOK
<1>3. ASSUME NEW a \in Attempts, Settle(a) PROVE NoFreeCalls'
  <2>1. PICK row \in Row :
               /\ costs' = [costs EXCEPT ![a] = row]
               /\ \/ row = costs[a]
                  \/ /\ row.status \in {"zero", "pending", "calculated", "estimated"}
                     /\ row.status = "zero" => ~ sent[a]
    BY <1>3, SettleWrites
  <2>2. sent' = sent
    BY <1>3 DEF Settle
  <2> QED
    BY <1>i, <2>1, <2>2 DEF NoFreeCalls, Rows, TypeOK
<1>4. ASSUME NEW m \in Admins, Reconcile(m) PROVE NoFreeCalls'
  <2>1. PICK row \in Row : costs' = [costs EXCEPT ![job[m].cost] = row] /\ row.status = "reconciled"
    BY <1>4, ReconcileWrites
  <2>2. sent' = sent
    BY <1>4 DEF Reconcile
  <2> QED
    BY <1>i, <2>1, <2>2 DEF NoFreeCalls, Rows, TypeOK
<1>5. ASSUME Cleanup PROVE NoFreeCalls'
  <2>1. \A b \in Attempts : costs'[b] = costs[b] \/ (costs'[b] \in Row /\ costs'[b].status = "pending")
    BY <1>5, CleanupWrites
  <2>2. sent' = sent
    BY <1>5 DEF Cleanup
  <2> QED
    BY <1>i, <2>1, <2>2 DEF NoFreeCalls, Rows
<1>6. CASE UNCHANGED <<costs, sent>>
  BY <1>i, <1>6 DEF NoFreeCalls, Rows
<1> QED
  BY <1>1, <1>2, <1>3, <1>4, <1>5, <1>6
     DEF Next, vars, Reserve, Complete, Administer, Begin, Authorize, CheckBudget, BeginSettle, Abandon, Age, OpenBudget, LockBudget, SaveBudget, OpenCost, LockCostKey, LockCost, Refuse, SetActive, Midnight

(* The invariant holds always.                                             *)
LEMMA NextLedgerInv == LedgerInv /\ [Next]_vars => LedgerInv'
BY NextType, NextComputed, NextWritten, NextKeysHeld, NextBudgetForms, NextCostForms, NextReconciledOnce, NextNoFreeCalls
   DEF LedgerInv

LEMMA AlwaysLedgerInv == SafeSpec => []LedgerInv
BY InitLedgerInv, NextLedgerInv, PTL DEF SafeSpec

(***************************************************************************)
(* The ledger is well typed: a row has the columns that billing.go writes, *)
(* an adjustment the status it replaced.                                   *)
(***************************************************************************)
THEOREM LedgerTypeCorrect == SafeSpec => []TypeOK
BY AlwaysLedgerInv, PTL DEF LedgerInv

(***************************************************************************)
(* A cost is reconciled exactly when one adjustment explains it, whoever   *)
(* else tries (reconcileCost, billing.go 551).                             *)
(***************************************************************************)
THEOREM LedgerReconciledOnce == SafeSpec => []ReconciledOnce
BY AlwaysLedgerInv, PTL DEF LedgerInv

(***************************************************************************)
(* A call that was put on the wire is never booked as free (SettleCost).   *)
(***************************************************************************)
THEOREM LedgerNoFreeCalls == SafeSpec => []NoFreeCalls
BY AlwaysLedgerInv, PTL DEF LedgerInv

(***************************************************************************)
(* What is settled stays settled (the WHERE of SettleCost, billing.go 239, *)
(* and the check of reconcileCost under the lock of the cost).             *)
(***************************************************************************)
THEOREM LedgerSettledOnce == SafeSpec => SettledOnce
<1>1. LedgerInv /\ [Next]_vars =>
        \A a \in Rows : costs'[a] # costs[a] =>
          /\ costs'[a].status \in Successors(costs[a].status)
          /\ costs'[a] = [costs[a] EXCEPT !.status = costs'[a].status, !.amount = costs'[a].amount]
  BY Rewrites DEF Rewritten
<1>2. QED
  BY <1>1, AlwaysLedgerInv, PTL DEF SafeSpec, SettledOnce

(* A row appears in no other way than by the INSERT of its attempt.        *)
LEMMA Appears ==
  ASSUME LedgerInv, [Next]_vars, NEW a \in Attempts, costs[a] = NoRow, costs'[a] # NoRow
  PROVE  Insert(a)
<1>t. costs \in [Attempts -> Row \cup {NoRow}]
  BY DEF LedgerInv, TypeOK
<1>1. ASSUME NEW b \in Attempts, Insert(b) PROVE Insert(a)
  <2>1. PICK row \in Row : costs' = [costs EXCEPT ![b] = row]
    BY <1>1, InsertWrites
  <2> QED
    BY <1>1, <1>t, <2>1
<1>2. ASSUME NEW b \in Attempts, Settle(b) PROVE FALSE
  BY <1>2, <1>t, SettleWrites DEF Rows
<1>3. ASSUME NEW m \in Admins, Reconcile(m) PROVE FALSE
  BY <1>3, <1>t, ReconcileWrites DEF Rows
<1>4. ASSUME Cleanup PROVE FALSE
  BY <1>4, CleanupWrites DEF Rows
<1> QED
  BY <1>1, <1>2, <1>3, <1>4, LedgerSteps

(***************************************************************************)
(* No call is reserved for a key after its revocation has returned: the    *)
(* key was found active under the lock that the revocation waits for       *)
(* (ReserveCost, billing.go 120).                                          *)
(***************************************************************************)
THEOREM LedgerNothingAfterRevocation == SafeSpec => NothingAfterRevocation
<1>1. ASSUME LedgerInv, [Next]_vars, NEW a \in Attempts, NewReservation(a)
      PROVE  active[costs'[a].client]
  <2>1. Insert(a) /\ a \in Attempts
    BY <1>1, Appears DEF NewReservation
  <2>2. costs'[a].client = entry[a].client /\ costs'[a].kind = entry[a].kind
    <3>1. PICK row \in Row : /\ costs' = [costs EXCEPT ![a] = row]
                             /\ row.client = entry[a].client /\ row.kind = entry[a].kind
      BY <1>1, <2>1, InsertWrites
    <3> QED
      BY <1>1, <3>1 DEF LedgerInv, TypeOK
  <2>3. HoldsKey(a) /\ pc[a] # "settling"
    BY <2>1, <2>2, <1>1 DEF HoldsKey, NewReservation, Insert
  <2> QED
    BY <1>1, <2>2, <2>3 DEF LedgerInv, KeysHeld
<1>2. LedgerInv /\ [Next]_vars => \A a \in Attempts : NewReservation(a) => active[costs'[a].client]
  BY <1>1
<1>3. QED
  BY <1>2, AlwaysLedgerInv, PTL DEF SafeSpec, NothingAfterRevocation

(***************************************************************************)
(* A budget is only replaced by an administrator who saw it: revisions     *)
(* only go up, and one shown in a form and current is the budget itself    *)
(* (saveBudget, billing.go 343).                                           *)
(***************************************************************************)
THEOREM LedgerNoLostBudgetUpdate == SafeSpec => NoLostBudgetUpdate
<1>1. ASSUME LedgerInv, [Next]_vars, NEW c \in Clients, budget'[c] # budget[c]
      PROVE  \E m \in Admins : step[m] = "saving" /\ job[m].client = c /\ job[m].basis = budget[c]
  <2>1. PICK m \in Admins : SaveBudget(m)
    BY <1>1 DEF Next, vars, Reserve, Complete, Administer, Begin, Authorize, CheckBudget, Insert, Send, BeginSettle, Settle,
                Abandon, Age, OpenBudget, LockBudget, OpenCost, LockCostKey, LockCost, Reconcile, Refuse, SetActive, Cleanup, Midnight
  <2>2. job[m].client = c
    BY <1>1, <2>1 DEF SaveBudget, LedgerInv, TypeOK
  <2>3. job[m].basis = budget[job[m].client]
    BY <1>1, <2>1 DEF SaveBudget, LedgerInv, BudgetForms
  <2> QED
    BY <2>1, <2>2, <2>3 DEF SaveBudget
<1>2. LedgerInv /\ [Next]_vars => \A c \in Clients : budget'[c] # budget[c] =>
          \E m \in Admins : step[m] = "saving" /\ job[m].client = c /\ job[m].basis = budget[c]
  BY <1>1
<1>3. QED
  BY <1>2, AlwaysLedgerInv, PTL DEF SafeSpec, NoLostBudgetUpdate

-----------------------------------------------------------------------------
(***************************************************************************)
(* The budget query.  While an attempt holds the key of a client, what the *)
(* query would find for that client stands still: of the other attempts    *)
(* and the administrators none can write a production row of the client,   *)
(* and Cleanup, which holds no key, changes no amount.                     *)
(***************************************************************************)
IsProduction(b, c) == b \in Rows /\ costs[b].client = c /\ costs[b].kind = "production"

StandsStill(c) == \A b \in Attempts : IsProduction(b, c) \/ IsProduction(b, c)' =>
    /\ IsProduction(b, c) /\ IsProduction(b, c)'
    /\ costs'[b].day = costs[b].day /\ costs'[b].reserved = costs[b].reserved
    /\ costs'[b].valid = costs[b].valid /\ costs'[b].amount = costs[b].amount

LEMMA SomebodyElse ==
  ASSUME LedgerInv, [Next]_vars, NEW a \in Attempts, HoldsKey(a), ~ Insert(a), ~ Settle(a),
         NEW c, c = entry[a].client
  PROVE  StandsStill(c)
<1>h. keyLock[c] = a /\ a \notin Admins
  BY BoundsAssumption DEF LedgerInv, KeysHeld
<1>t. costs \in [Attempts -> Row \cup {NoRow}]
  BY DEF LedgerInv, TypeOK
<1>k. \A b \in Rows : Kept(b)
  BY Keeps
<1> SUFFICES ASSUME NEW b \in Attempts, IsProduction(b, c) \/ IsProduction(b, c)'
             PROVE  b \in Rows /\ costs'[b].amount = costs[b].amount
  BY <1>k DEF StandsStill, IsProduction, Kept
<1>0. b \in Rows => IsProduction(b, c)
  BY <1>k DEF IsProduction, Kept
<1>1. CASE costs'[b] = costs[b]
  BY <1>1 DEF IsProduction, Rows
<1>2. ASSUME NEW d \in Attempts, Insert(d) PROVE costs'[b] = costs[b]
  <2>1. PICK row \in Row : costs' = [costs EXCEPT ![d] = row] /\ row.client = entry[d].client /\ row.kind = entry[d].kind
    BY <1>2, InsertWrites
  <2>2. CASE b = d
    <3>1. costs[d] = NoRow /\ costs'[d] = row
      BY <1>2, <1>t, <2>1 DEF LedgerInv, Written, Insert
    <3>2. IsProduction(b, c)'
      BY <2>2, <3>1 DEF IsProduction, Rows
    <3>3. HoldsKey(d) /\ entry[d].client = c
      BY <1>2, <2>1, <2>2, <3>1, <3>2 DEF IsProduction, HoldsKey, Insert
    <3>4. d = a
      BY <1>h, <3>3 DEF LedgerInv, KeysHeld
    <3> QED
      BY <1>2, <3>4
  <2> QED
    BY <1>t, <2>1, <2>2
<1>3. ASSUME NEW d \in Attempts, Settle(d) PROVE costs'[b] = costs[b]
  <2>1. PICK row \in Row : costs' = [costs EXCEPT ![d] = row] /\ d \in Rows
    BY <1>3, SettleWrites
  <2>2. CASE b = d
    <3>1. costs[d].client = entry[d].client /\ costs[d].kind = entry[d].kind /\ pc[d] = "settling"
      BY <1>3 DEF LedgerInv, Written, Settle
    <3>2. HoldsKey(d) /\ entry[d].client = c
      BY <1>0, <2>1, <2>2, <3>1 DEF IsProduction, HoldsKey
    <3>3. d = a
      BY <1>h, <3>2 DEF LedgerInv, KeysHeld
    <3> QED
      BY <1>3, <3>3
  <2> QED
    BY <1>t, <2>1, <2>2
<1>4. ASSUME NEW m \in Admins, Reconcile(m) PROVE costs'[b] = costs[b]
  <2>1. PICK row \in Row : costs' = [costs EXCEPT ![job[m].cost] = row]
    BY <1>4, ReconcileWrites
  <2>2. CASE b = job[m].cost
    <3>1. b \in Rows /\ costs[b].client = c /\ costs[b].kind = "production" /\ step[m] = "adjusting"
      BY <1>0, <1>4, <2>2, ReconcileWrites DEF IsProduction, Reconcile
    <3>2. keyLock[c] = m
      BY <2>2, <3>1 DEF LedgerInv, KeysHeld
    <3> QED
      BY <1>h, <3>2
  <2> QED
    BY <1>t, <2>1, <2>2
<1>5. ASSUME Cleanup PROVE b \in Rows /\ costs'[b].amount = costs[b].amount
  <2>1. CASE b \in Rows /\ costs'[b] = [costs[b] EXCEPT !.status = "pending"]
    <3>1. costs[b] \in Row
      BY <1>t, <2>1, RowAssumption DEF Rows
    <3> QED
      BY <2>1, <3>1 DEF Row
  <2> QED
    BY <1>1, <1>5, <2>1, CleanupWrites
<1>6. QED
  BY <1>1, <1>2, <1>3, <1>4, <1>5, LedgerSteps

(* What a row counts for is an amount, and the rows of a query are finite. *)
LEMMA Counts ==
  ASSUME LedgerInv
  PROVE  /\ \A b \in Rows : Charged(costs[b]) \in Nat
         /\ \A c, D : Production(c, D) \subseteq Rows /\ IsFiniteSet(Production(c, D))
<1>1. \A b \in Rows : costs[b] \in Row
  BY Shapes DEF Shaped
<1>2. \A c, D : Production(c, D) \subseteq Rows /\ Rows \subseteq Attempts
  BY DEF Production, Rows
<1> QED
  BY <1>1, <1>2, BoundsAssumption, FS_Subset DEF Charged, Row

(* What stands still adds up to the same.                                  *)
LEMMA SumsStandStill ==
  ASSUME LedgerInv, LedgerInv', NEW c, NEW D, StandsStill(c)
  PROVE  Used(c, D)' = Used(c, D) /\ Unknown(c, D)' = Unknown(c, D)
<1> DEFINE S == Production(c, D)
           v == [b \in Rows' |-> Charged(costs'[b])]
           w == [b \in Rows |-> Charged(costs[b])]
<1>1. Production(c, D)' = S /\ S \subseteq Rows /\ S \subseteq Rows'
  BY DEF StandsStill, IsProduction, Production, Rows
<1>2. Unknown(c, D)' = Unknown(c, D)
  BY <1>1 DEF StandsStill, IsProduction, Production, Unknown, Rows
<1>3. IsFiniteSet(S) /\ \A b \in S : Charged(costs[b]) \in Int
  BY <1>1, Counts
<1>4. \A b \in S : v[b] \in Int /\ v[b] = w[b]
  <2>1. \A b \in S : costs'[b].amount = costs[b].amount /\ costs'[b].reserved = costs[b].reserved
    BY DEF StandsStill, IsProduction, Production, Rows
  <2> QED
    BY <1>1, <1>3, <2>1 DEF Charged
<1>5. SumFunctionOnSet(v, S) = SumFunctionOnSet(w, S)
  <2> HIDE DEF S, v, w
  <2> QED
    BY <1>3, <1>4, SumExtensional
<1> QED
  BY <1>1, <1>2, <1>5 DEF Used

(* An INSERT adds its reservation to the sums it counts in.                *)
LEMMA InsertAdds ==
  ASSUME LedgerInv, LedgerInv', NEW a \in Attempts, Insert(a), NEW c, NEW D, costs'[a].amount = NoAmount,
         costs'[a].client = c, costs'[a].kind = "production", costs'[a].day \in D, costs'[a].valid
  PROVE  Used(c, D)' = Used(c, D) + costs'[a].reserved /\ Unknown(c, D)' = Unknown(c, D)
<1> DEFINE S == Production(c, D)
           v == [b \in Rows' |-> Charged(costs'[b])]
           w == [b \in Rows |-> Charged(costs[b])]
<1>1. costs[a] = NoRow /\ costs'[a] \in Row /\ \A b \in Attempts \ {a} : costs'[b] = costs[b]
  <2>1. costs[a] = NoRow
    BY DEF LedgerInv, Written, Insert
  <2>2. PICK row \in Row : costs' = [costs EXCEPT ![a] = row]
    BY InsertWrites
  <2> QED
    BY <2>1, <2>2 DEF LedgerInv, TypeOK
<1>2. a \in Rows' /\ Rows' = Rows \cup {a} /\ a \notin Rows
  BY <1>1, RowAssumption DEF Rows
<1>3. Production(c, D)' = S \cup {a} /\ a \notin S /\ S \subseteq Rows
  <2>1. Production(c, D)' = {b \in Rows' : costs'[b].client = c /\ costs'[b].kind = "production" /\ costs'[b].day \in D}
    BY DEF Production
  <2>2. \A b \in Rows : costs'[b] = costs[b]
    BY <1>1, <1>2 DEF Rows
  <2> QED
    BY <1>2, <2>1, <2>2 DEF Production
<1>4. Unknown(c, D)' = Unknown(c, D)
  BY <1>1, <1>3 DEF Unknown, Rows
<1>5. IsFiniteSet(S) /\ \A b \in S : Charged(costs[b]) \in Int
  BY <1>3, Counts
<1>6. \A b \in S : v[b] \in Int /\ v[b] = w[b]
  <2>1. \A b \in S : b \in Rows' /\ costs'[b] = costs[b]
    BY <1>1, <1>2, <1>3 DEF Rows
  <2> QED
    BY <1>3, <1>5, <2>1
<1>7. v[a] = costs'[a].reserved /\ costs'[a].reserved \in Int
  BY <1>1, <1>2 DEF Charged, Row
<1>8. SumFunctionOnSet(v, S \cup {a}) = v[a] + SumFunctionOnSet(v, S) /\ SumFunctionOnSet(v, S) = SumFunctionOnSet(w, S)
      /\ SumFunctionOnSet(v, S) \in Int
  <2>1. v[a] \in Int
    BY <1>7
  <2> HIDE DEF S, v, w
  <2>2. SumFunctionOnSet(v, S \cup {a}) = v[a] + SumFunctionOnSet(v, S)
    BY <1>3, <1>5, <1>6, <2>1, SumAdds
  <2> QED
    BY <1>5, <1>6, <2>2, SumExtensional, SumType
<1>9. Used(c, D)' = SumFunctionOnSet(v, S \cup {a}) /\ Used(c, D) = SumFunctionOnSet(w, S)
  BY <1>3 DEF Used
<1> HIDE DEF S, v, w
<1> QED
  BY <1>4, <1>7, <1>8, <1>9

(* The sums of the budget query are amounts themselves.                    *)
LEMMA UsedType == LedgerInv => \A c, D : Used(c, D) \in Nat
<1> SUFFICES ASSUME LedgerInv, NEW c, NEW D PROVE Used(c, D) \in Nat
  OBVIOUS
<1> DEFINE S == Production(c, D)
           w == [b \in Rows |-> Charged(costs[b])]
<1>1. IsFiniteSet(S) /\ \A b \in S : w[b] \in Nat
  BY Counts
<1>2. SumFunctionOnSet(w, S) \in Nat
  <2> HIDE DEF S, w
  <2> QED
    BY <1>1, SumNat
<1> QED
  BY <1>2 DEF Used

(* What the budget query has found holds until the reservation is written. *)
LEMMA NextChecked == IInv /\ [Next]_vars => Checked'
<1> SUFFICES ASSUME LedgerInv, Checked, [Next]_vars, NEW a \in Attempts,
                    pc'[a] = "inserting", entry'[a].kind = "production", ~ entry'[a].cacheHit
             PROVE  Affordable(a)'
  BY DEF IInv, Checked
<1>i. LedgerInv' /\ TypeOK /\ Computed /\ KeysHeld
  BY NextLedgerInv DEF LedgerInv
<1>1. \/ CheckBudget(a)
      \/ pc[a] = "inserting" /\ entry'[a] = entry[a] /\ ~ Insert(a) /\ ~ Settle(a)
  <2> USE <1>i DEF TypeOK, attempt, admin, ledger, locks, Leave
  <2>1. ASSUME NEW b \in Attempts, Begin(b) PROVE pc[a] = "inserting" /\ entry'[a] = entry[a]
    <3>1. PICK e \in Entry : /\ entry' = [entry EXCEPT ![b] = e]
                             /\ pc' = [pc EXCEPT ![b] = IF e.kind = "production" THEN "locking" ELSE "inserting"]
      BY <2>1, BeginMakes
    <3> QED
      BY <3>1
  <2>2. ASSUME NEW b \in Attempts, Authorize(b) PROVE pc[a] = "inserting" /\ entry'[a] = entry[a]
    BY <2>2 DEF Authorize
  <2>3. ASSUME NEW b \in Attempts, CheckBudget(b) PROVE CheckBudget(a) \/ (pc[a] = "inserting" /\ entry'[a] = entry[a])
    BY <2>3 DEF CheckBudget
  <2>4. ASSUME NEW b \in Attempts, Insert(b) PROVE pc[a] = "inserting" /\ entry'[a] = entry[a]
    BY <2>4 DEF Insert
  <2>5. ASSUME NEW b \in Attempts, Send(b) PROVE pc[a] = "inserting" /\ entry'[a] = entry[a]
    BY <2>5 DEF Send
  <2>6. ASSUME NEW b \in Attempts, BeginSettle(b) PROVE pc[a] = "inserting" /\ entry'[a] = entry[a]
    BY <2>6 DEF BeginSettle
  <2>7. ASSUME NEW b \in Attempts, Settle(b) PROVE pc[a] = "inserting" /\ entry'[a] = entry[a]
    BY <2>7 DEF Settle
  <2>8. ASSUME NEW b \in Attempts, Abandon(b) PROVE pc[a] = "inserting" /\ entry'[a] = entry[a]
    BY <2>8 DEF Abandon
  <2>9. Insert(a) \/ Settle(a) => pc'[a] # "inserting"
    BY DEF Insert, Settle
  <2>10. CASE UNCHANGED <<pc, entry>>
    BY <2>9, <2>10
  <2> QED
    BY <2>1, <2>2, <2>3, <2>4, <2>5, <2>6, <2>7, <2>8, <2>9, <2>10
       DEF Next, vars, Reserve, Complete, Administer, Age, OpenBudget, LockBudget, SaveBudget, OpenCost, LockCostKey, LockCost,
           Reconcile, Refuse, SetActive, Cleanup, Midnight
<1>2. CASE CheckBudget(a)
  <2>1. UNCHANGED <<entry, budget, costs>> /\ Affordable(a)
    BY <1>2 DEF CheckBudget, Affordable, ledger
  <2> QED
    BY <2>1 DEF Affordable, Unknown, Within, Used, Production, Rows
<1>3. CASE pc[a] = "inserting" /\ entry'[a] = entry[a] /\ ~ Insert(a) /\ ~ Settle(a)
  <2>1. PICK c, d : c = entry[a].client /\ d = entry[a].day
    OBVIOUS
  <2>2. HoldsKey(a) /\ Affordable(a)
    BY <1>3 DEF HoldsKey, Checked
  <2>3. StandsStill(c)
    BY <1>3, <2>1, <2>2, SomebodyElse
  <2>4. c \in Clients /\ keyLock[c] = a /\ a \notin Admins
    BY <1>3, <1>i, <2>1, <2>2, BoundsAssumption DEF Computed, KeysHeld, Entry
  <2>5. budget'[c] = budget[c]
    <3>1. ASSUME NEW m \in Admins, SaveBudget(m) PROVE budget'[c] = budget[c]
      BY <1>i, <2>4, <3>1 DEF SaveBudget, KeysHeld, TypeOK
    <3> QED
      BY <3>1 DEF Next, vars, Reserve, Complete, Administer, Begin, Authorize, CheckBudget, Insert, Send, BeginSettle, Settle,
                Abandon, Age, OpenBudget, LockBudget, OpenCost, LockCostKey, LockCost, Reconcile, Refuse, SetActive, Cleanup, Midnight
  <2>6. /\ Used(c, {d})' = Used(c, {d}) /\ Used(c, MonthDays(d))' = Used(c, MonthDays(d))
        /\ Unknown(c, MonthDays(d))' = Unknown(c, MonthDays(d))
    BY <1>i, <2>3, SumsStandStill
  <2> QED
    BY <1>3, <2>1, <2>2, <2>5, <2>6 DEF Affordable, Within
<1> QED
  BY <1>1, <1>2, <1>3

LEMMA AlwaysIInv == SafeSpec => []IInv
<1>1. Init => IInv
  BY InitLedgerInv DEF Init, IInv, Checked
<1>2. IInv /\ [Next]_vars => IInv'
  BY NextLedgerInv, NextChecked DEF IInv
<1> QED
  BY <1>1, <1>2, PTL DEF SafeSpec

(***************************************************************************)
(* A reservation is only committed within the limits of its day and of its *)
(* month, itself included, whatever runs at the same time: ReserveCost     *)
(* holds the key of the client from the budget query to the COMMIT, and so *)
(* does everything else that counts (billing.go 118-161).                  *)
(***************************************************************************)
THEOREM LedgerBudgetHonoured == SafeSpec => BudgetHonoured
<1>1. ASSUME IInv, [Next]_vars, NEW a \in Attempts, NewReservation(a), costs'[a].status = "reserved"
      PROVE  WithinBudget(a)'
  <2>1. LedgerInv /\ LedgerInv' /\ Checked
    BY <1>1, NextLedgerInv DEF IInv
  <2>2. Insert(a)
    BY <1>1, <2>1, Appears DEF NewReservation
  <2>3. PICK row \in Row :
            /\ costs' = [costs EXCEPT ![a] = row]
            /\ row.client = entry[a].client /\ row.kind = entry[a].kind /\ row.day = entry[a].day
            /\ row.reserved = entry[a].reserved /\ row.valid = entry[a].valid
            /\ IF entry[a].cacheHit THEN row.status = "local_cache" /\ row.amount = 0
                                    ELSE row.status = "reserved" /\ row.amount = NoAmount
    BY <2>1, <2>2, InsertWrites
  <2>4. costs'[a] = row
    BY <2>1, <2>3 DEF LedgerInv, TypeOK
  <2>5. /\ entry[a].kind = "production" /\ ~ entry[a].cacheHit /\ pc[a] = "inserting"
        /\ row.amount = NoAmount /\ row.kind = "production"
    BY <1>1, <2>2, <2>3, <2>4 DEF NewReservation, Insert
  <2>6. Affordable(a) /\ budget' = budget
    BY <2>1, <2>2, <2>5 DEF Checked, Insert
  <2>7. PICK c, d : c = row.client /\ d = row.day
    OBVIOUS
  <2>8. d \in Days /\ row.reserved \in Nat /\ row.valid \in BOOLEAN
    BY <2>7 DEF Row
  <2> SUFFICES ASSUME budget[c].daily # NoLimit \/ budget[c].monthly # NoLimit
               PROVE  /\ Unknown(c, MonthDays(d))' = {}
                      /\ Within(budget[c].daily, c, {d}, 0)'
                      /\ Within(budget[c].monthly, c, MonthDays(d), 0)'
    BY <2>4, <2>6, <2>7 DEF WithinBudget, Within
  <2>9. /\ row.valid /\ Unknown(c, MonthDays(d)) = {}
        /\ Within(budget[c].daily, c, {d}, row.reserved) /\ Within(budget[c].monthly, c, MonthDays(d), row.reserved)
    BY <2>3, <2>6, <2>7 DEF Affordable
  <2>10. \A D : d \in D => Used(c, D)' = Used(c, D) + row.reserved /\ Unknown(c, D)' = Unknown(c, D)
    BY <2>1, <2>2, <2>4, <2>5, <2>7, <2>9, InsertAdds
  <2>11. d \in {d} /\ d \in MonthDays(d)
    BY <2>8 DEF MonthDays
  <2>12. Used(c, {d}) \in Nat /\ Used(c, MonthDays(d)) \in Nat
    BY <2>1, UsedType
  <2> QED
    BY <2>6, <2>8, <2>9, <2>10, <2>11, <2>12 DEF Within
<1>2. IInv /\ [Next]_vars => \A a \in Attempts : NewReservation(a) /\ costs'[a].status = "reserved" => WithinBudget(a)'
  BY <1>1
<1>3. QED
  BY <1>2, AlwaysIInv, PTL DEF SafeSpec, BudgetHonoured
=============================================================================
