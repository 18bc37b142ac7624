----------------------------- MODULE CostLedger -----------------------------
(***************************************************************************)
(* The cost ledger of billing.go: reservations against the budget of a     *)
(* client before a model is called, their settlement afterwards, and the   *)
(* administrators who change budgets and reconcile costs at the same time. *)
(*                                                                         *)
(* Transactions run at READ COMMITTED, so nothing but locks separates the  *)
(* statements of one from those of another: the row of the client's key is *)
(* locked FOR UPDATE by all of them, the row of a cost by reconcileCost.   *)
(* A transaction is a step for each lock it takes and one for its commit.  *)
(* Money is counted in small units, and a calendar day is a number that    *)
(* MonthOf puts in a month.  An attempt is one cost id: it is reserved and *)
(* settled at most once.                                                   *)
(***************************************************************************)
EXTENDS Integers, Sequences, FiniteSets, Functions

CONSTANTS Clients,      \* client keys
          Attempts,     \* cost ids, each with the goroutine that works for it
          Admins,       \* administrators' HTTP handlers
          MonthOf,      \* MonthOf[d]: the month of day d; its domain bounds the clock
          Kinds,        \* some of "production" and "test"
          Estimates,    \* amounts a call can be expected to cost
          Amounts,      \* amounts usage or a bill can come to
          Limits,       \* budget limits an administrator can set
          MaxRevision,  \* bound: budgets are saved this many times
          NoLimit, NoAmount, NoRow, NoEntry, NoJob, Nobody   \* the NULLs

Days == DOMAIN MonthOf

ASSUME MoneyAssumption ==
    /\ Estimates \in SUBSET Nat /\ Amounts \in SUBSET Nat
    /\ Limits \in SUBSET (Nat \cup {NoLimit})
    /\ NoLimit \notin Nat /\ NoAmount \notin Nat
ASSUME BoundsAssumption ==
    /\ MaxRevision \in Nat /\ Days \in SUBSET Nat /\ IsFiniteSet(Attempts)
    /\ Kinds \in SUBSET {"production", "test"}
    /\ Nobody \notin Attempts \cup Admins /\ Attempts \cap Admins = {}

VARIABLES
    today,        \* the date in Asia/Shanghai
    active,       \* client_api_keys.active of each client
    keyLock,      \* who has the row of the key locked, or Nobody
    budget,       \* client_budgets; revision 0 stands for no row
    costs,        \* audit_costs
    costLock,     \* who has the row of a cost locked by SELECT ... FOR UPDATE
    adjustments,  \* cost_adjustments: the corrections recorded for each cost id
    aged,         \* the cost rows that started more than two minutes ago
    pc, entry,    \* the attempts, and what each has computed of its CostReservation
    sent,         \* the attempts whose call was put on the wire
    step, job     \* the administrators

attempt == <<pc, entry, sent>>
admin == <<step, job>>
ledger == <<costs, adjustments, aged>>
locks == <<keyLock, costLock>>
vars == <<today, active, budget, locks, ledger, attempt, admin>>

Budget == [daily : Limits \cup {NoLimit}, monthly : Limits \cup {NoLimit}, revision : 0 .. MaxRevision]

Entry == [client : Clients, kind : {"production", "test"}, cacheHit : BOOLEAN, day : Days,
          priced : BOOLEAN, valid : BOOLEAN, reserved : Nat]

Row == [client : Clients, kind : {"production", "test"}, day : Days, reserved : Nat,
        amount : Nat \cup {NoAmount}, valid : BOOLEAN,
        status : {"reserved", "local_cache", "zero", "pending", "calculated", "estimated", "reconciled"}]

ASSUME RowAssumption == NoRow \notin Row

Init ==
    /\ today \in Days /\ \A d \in Days : today <= d
    /\ active = [c \in Clients |-> TRUE]
    /\ keyLock = [c \in Clients |-> Nobody]
    /\ budget = [c \in Clients |-> [daily |-> NoLimit, monthly |-> NoLimit, revision |-> 0]]
    /\ costs = [a \in Attempts |-> NoRow]
    /\ costLock = [a \in Attempts |-> Nobody]
    /\ adjustments = [a \in Attempts |-> <<>>]
    /\ aged = {}
    /\ pc = [a \in Attempts |-> "idle"]
    /\ entry = [a \in Attempts |-> NoEntry]
    /\ sent = [a \in Attempts |-> FALSE]
    /\ step = [m \in Admins |-> "idle"]
    /\ job = [m \in Admins |-> NoJob]

-----------------------------------------------------------------------------
Rows == {a \in Attempts : costs[a] # NoRow}

(***************************************************************************)
(* The sums of the budget query: COALESCE(amount_pico, reserved_pico) over *)
(* the production costs of a client on some days, and the costs nobody can *)
(* put an upper bound on yet.                                              *)
(***************************************************************************)
Charged(row) == IF row.amount = NoAmount THEN row.reserved ELSE row.amount

Production(c, D) == {a \in Rows : costs[a].client = c /\ costs[a].kind = "production" /\ costs[a].day \in D}

Used(c, D) == SumFunctionOnSet([a \in Rows |-> Charged(costs[a])], Production(c, D))

Unknown(c, D) == {a \in Production(c, D) : costs[a].amount = NoAmount /\ ~costs[a].valid}

MonthDays(d) == {e \in Days : MonthOf[e] = MonthOf[d]}

Within(limit, c, D, extra) == limit # NoLimit => Used(c, D) + extra <= limit

(***************************************************************************)
(* Taking and leaving the lock on the row of a client's key.               *)
(***************************************************************************)
LockKey(c, p) ==
    /\ keyLock[c] = Nobody
    /\ keyLock' = [keyLock EXCEPT ![c] = p]

Unlocked(p) == [c \in Clients |-> IF keyLock[c] = p THEN Nobody ELSE keyLock[c]]

-----------------------------------------------------------------------------
(***************************************************************************)
(* ReserveCost before its transaction: the date and the price are read,    *)
(* and the estimate is made.  A hit of the result cache costs nothing; a   *)
(* model without a price and a request with an image have no estimate.     *)
(***************************************************************************)
Begin(a) ==
    /\ pc[a] = "idle"
    /\ \E c \in Clients, kind \in Kinds, cacheHit, priced, image \in BOOLEAN, estimate \in Estimates :
          /\ cacheHit => kind = "production"
          /\ LET estimable == ~cacheHit /\ priced /\ ~image
             IN  entry' = [entry EXCEPT ![a] =
                   [client |-> c, kind |-> kind, cacheHit |-> cacheHit, day |-> today,
                    priced |-> priced /\ ~cacheHit, valid |-> cacheHit \/ estimable, reserved |-> IF estimable THEN estimate ELSE 0]]
          /\ pc' = [pc EXCEPT ![a] = IF kind = "production" THEN "locking" ELSE "inserting"]
    /\ UNCHANGED <<today, active, budget, locks, ledger, sent, admin>>

\* A variant that must fail: the key is read without FOR UPDATE.
AuthorizeUnlocked(a) ==
    /\ pc[a] = "locking"
    /\ active[entry[a].client]
    /\ pc' = [pc EXCEPT ![a] = IF entry[a].cacheHit THEN "inserting" ELSE "checking"]
    /\ UNCHANGED <<today, active, budget, locks, ledger, entry, sent, admin>>

(***************************************************************************)
(* SELECT active ... FOR UPDATE on the key.                                *)
(***************************************************************************)
Authorize(a) ==
    /\ pc[a] = "locking"
    /\ LockKey(entry[a].client, a)
    /\ active[entry[a].client]
    /\ pc' = [pc EXCEPT ![a] = IF entry[a].cacheHit THEN "inserting" ELSE "checking"]
    /\ UNCHANGED <<today, active, budget, costLock, ledger, entry, sent, admin>>

(***************************************************************************)
(* The budget and the sums, read under the lock of the key.                *)
(***************************************************************************)
CheckBudget(a) ==
    /\ pc[a] = "checking"
    /\ LET e == entry[a]
           b == budget[e.client]
       IN  b.daily # NoLimit \/ b.monthly # NoLimit =>
              /\ e.valid
              /\ Unknown(e.client, MonthDays(e.day)) = {}
              /\ Within(b.daily, e.client, {e.day}, e.reserved)
              /\ Within(b.monthly, e.client, MonthDays(e.day), e.reserved)
    /\ pc' = [pc EXCEPT ![a] = "inserting"]
    /\ UNCHANGED <<today, active, budget, locks, ledger, entry, sent, admin>>

Leave(a) ==
    /\ pc' = [pc EXCEPT ![a] = "gone"]
    /\ entry' = [entry EXCEPT ![a] = NoEntry]

(***************************************************************************)
(* INSERT and COMMIT.  The commit may take effect although its caller gets *)
(* an error or the process ends first: then nobody works for the row.      *)
(***************************************************************************)
Insert(a) ==
    /\ pc[a] = "inserting"
    /\ LET e == entry[a]
       IN  costs' = [costs EXCEPT ![a] =
             [client |-> e.client, kind |-> e.kind, day |-> e.day, reserved |-> e.reserved,
              valid |-> e.valid, amount |-> IF e.cacheHit THEN 0 ELSE NoAmount,
              status |-> IF e.cacheHit THEN "local_cache" ELSE "reserved"]]
    /\ keyLock' = Unlocked(a)
    /\ \/ pc' = [pc EXCEPT ![a] = "reserved"] /\ UNCHANGED entry
       \/ Leave(a)
    /\ UNCHANGED <<today, active, budget, costLock, adjustments, aged, sent, admin>>

(***************************************************************************)
(* Assess puts the call on the wire.                                       *)
(***************************************************************************)
Send(a) ==
    /\ pc[a] = "reserved"
    /\ ~entry[a].cacheHit /\ ~sent[a]
    /\ sent' = [sent EXCEPT ![a] = TRUE]
    /\ UNCHANGED <<today, active, budget, locks, ledger, pc, entry, admin>>

(***************************************************************************)
(* SettleCost: what the call came to, and the key locked again.            *)
(***************************************************************************)
BeginSettle(a) ==
    /\ pc[a] = "reserved"
    /\ IF entry[a].kind = "production" THEN LockKey(entry[a].client, a) ELSE UNCHANGED keyLock
    /\ pc' = [pc EXCEPT ![a] = "settling"]
    /\ UNCHANGED <<today, active, budget, costLock, ledger, entry, sent, admin>>

\* A variant that must fail: usage the provider did not report counts as none.
SettlementsUnreportedFree(a) ==
    IF entry[a].cacheHit THEN {[status |-> "local_cache", amount |-> 0]}
    ELSE {[status |-> "zero", amount |-> 0]}
         \cup IF entry[a].priced THEN [status : {"calculated", "estimated"}, amount : Amounts] ELSE {}

Settlements(a) ==
    IF entry[a].cacheHit THEN {[status |-> "local_cache", amount |-> 0]}
    ELSE IF ~sent[a] THEN {[status |-> "zero", amount |-> 0]}
    ELSE {[status |-> "pending", amount |-> NoAmount]}
         \cup IF entry[a].priced THEN [status : {"calculated", "estimated"}, amount : Amounts] ELSE {}

\* A variant that must fail: UPDATE ... WHERE id=$6 and nothing else.
OpenAlways(a) == a \in Rows

(***************************************************************************)
(* The UPDATE only touches a row that is still open.                       *)
(***************************************************************************)
Open(a) == costs[a].status \in {"reserved", "local_cache"}

Settle(a) ==
    /\ pc[a] = "settling"
    /\ Open(a) => costLock[a] = Nobody
    /\ \E s \in Settlements(a) :
          costs' = IF Open(a) THEN [costs EXCEPT ![a].status = s.status, ![a].amount = s.amount]
                   ELSE costs
    /\ keyLock' = Unlocked(a)
    /\ Leave(a)
    /\ UNCHANGED <<today, active, budget, costLock, adjustments, aged, sent, admin>>

(***************************************************************************)
(* The end of an attempt anywhere before its commit: a key that is not     *)
(* active, not authorised or expired, a budget that is exceeded, a timeout *)
(* of the database, the end of the process.  The transaction rolls back.   *)
(***************************************************************************)
Abandon(a) ==
    /\ pc[a] \notin {"idle", "gone"}
    /\ keyLock' = Unlocked(a)
    /\ Leave(a)
    /\ UNCHANGED <<today, active, budget, costLock, ledger, sent, admin>>

-----------------------------------------------------------------------------
(***************************************************************************)
(* saveBudget: the form shows a budget, the handler compares its revision  *)
(* under the lock of the key and writes.                                   *)
(***************************************************************************)
OpenBudget(m) ==
    /\ step[m] = "idle"
    /\ \E c \in Clients, daily, monthly \in Limits :
          job' = [job EXCEPT ![m] = [client |-> c, basis |-> budget[c], daily |-> daily, monthly |-> monthly]]
    /\ step' = [step EXCEPT ![m] = "editing"]
    /\ UNCHANGED <<today, active, budget, locks, ledger, attempt>>

LockBudget(m) ==
    /\ step[m] = "editing"
    /\ LockKey(job[m].client, m)
    /\ step' = [step EXCEPT ![m] = "saving"]
    /\ UNCHANGED <<today, active, budget, costLock, ledger, attempt, job>>

\* A variant that must fail: expected_revision is not compared.
SaveBudgetUnconditional(m) ==
    /\ step[m] = "saving"
    /\ LET c == job[m].client
       IN  /\ budget[c].revision < MaxRevision
           /\ budget' = [budget EXCEPT ![c] =
                 [daily |-> job[m].daily, monthly |-> job[m].monthly, revision |-> @.revision + 1]]
    /\ keyLock' = Unlocked(m)
    /\ step' = [step EXCEPT ![m] = "idle"]
    /\ job' = [job EXCEPT ![m] = NoJob]
    /\ UNCHANGED <<today, active, costLock, ledger, attempt>>

SaveBudget(m) ==
    /\ step[m] = "saving"
    /\ LET c == job[m].client
       IN  /\ budget[c].revision = job[m].basis.revision
           /\ budget[c].revision < MaxRevision
           /\ budget' = [budget EXCEPT ![c] =
                 [daily |-> job[m].daily, monthly |-> job[m].monthly, revision |-> @.revision + 1]]
    /\ keyLock' = Unlocked(m)
    /\ step' = [step EXCEPT ![m] = "idle"]
    /\ job' = [job EXCEPT ![m] = NoJob]
    /\ UNCHANGED <<today, active, costLock, ledger, attempt>>

(***************************************************************************)
(* RevokeKey, DeleteKey and UpdateKey wait for the row and write it.       *)
(***************************************************************************)
SetActive(c, on) ==
    /\ keyLock[c] = Nobody
    /\ active' = [active EXCEPT ![c] = on]
    /\ UNCHANGED <<today, budget, locks, ledger, attempt, admin>>

(***************************************************************************)
(* reconcileCost: find the cost, lock the key of a production cost, lock   *)
(* the cost and look at its status, record the adjustment.                 *)
(***************************************************************************)
OpenCost(m) ==
    /\ step[m] = "idle"
    /\ \E a \in Rows, amount \in Amounts : job' = [job EXCEPT ![m] = [cost |-> a, amount |-> amount]]
    /\ step' = [step EXCEPT ![m] = "reconciling"]
    /\ UNCHANGED <<today, active, budget, locks, ledger, attempt>>

LockCostKey(m) ==
    /\ step[m] = "reconciling"
    /\ LET row == costs[job[m].cost]
       IN  IF row.kind = "production" THEN LockKey(row.client, m) ELSE UNCHANGED keyLock
    /\ step' = [step EXCEPT ![m] = "keyed"]
    /\ UNCHANGED <<today, active, budget, costLock, ledger, attempt, job>>

\* Variants that must fail: the cost is read without FOR UPDATE, or without
\* a look at its status.
LockCostUnlocked(m) ==
    /\ step[m] = "keyed"
    /\ costs[job[m].cost].status \in {"pending", "estimated"}
    /\ step' = [step EXCEPT ![m] = "adjusting"]
    /\ UNCHANGED <<today, active, budget, locks, ledger, attempt, job>>

LockCost(m) ==
    /\ step[m] = "keyed"
    /\ LET a == job[m].cost
       IN  /\ costLock[a] = Nobody
           /\ costs[a].status \in {"pending", "estimated"}
           /\ costLock' = [costLock EXCEPT ![a] = m]
    /\ step' = [step EXCEPT ![m] = "adjusting"]
    /\ UNCHANGED <<today, active, budget, keyLock, ledger, attempt, job>>

ReleasedCost(m) == [a \in Attempts |-> IF costLock[a] = m THEN Nobody ELSE costLock[a]]

Reconcile(m) ==
    /\ step[m] = "adjusting"
    /\ LET a == job[m].cost
       IN  /\ costs' = [costs EXCEPT ![a].status = "reconciled", ![a].amount = job[m].amount]
           /\ adjustments' = [adjustments EXCEPT ![a] =
                 Append(@, [previous |-> costs[a].status, amount |-> job[m].amount])]
    /\ keyLock' = Unlocked(m)
    /\ costLock' = ReleasedCost(m)
    /\ step' = [step EXCEPT ![m] = "idle"]
    /\ job' = [job EXCEPT ![m] = NoJob]
    /\ UNCHANGED <<today, active, budget, aged, attempt>>

(***************************************************************************)
(* A conflict, a cost that is settled already, an error: roll back.        *)
(***************************************************************************)
Refuse(m) ==
    /\ step[m] # "idle"
    /\ keyLock' = Unlocked(m)
    /\ costLock' = ReleasedCost(m)
    /\ step' = [step EXCEPT ![m] = "idle"]
    /\ job' = [job EXCEPT ![m] = NoJob]
    /\ UNCHANGED <<today, active, budget, ledger, attempt>>

-----------------------------------------------------------------------------
(***************************************************************************)
(* Two minutes pass.  No live request takes that long, but started_at is   *)
(* the process's clock and NOW() the database's.                           *)
(***************************************************************************)
Age(a) ==
    /\ a \in Rows \ aged
    /\ aged' = aged \cup {a}
    /\ UNCHANGED <<today, active, budget, locks, costs, adjustments, attempt, admin>>

\* A variant that must fail: only production costs are looked after.
AbandonedProduction == {a \in aged : costs[a].status = "reserved" /\ costs[a].kind = "production"}

(***************************************************************************)
(* The statement of Cleanup that gives up on old reservations.             *)
(***************************************************************************)
Abandoned == {a \in aged : costs[a].status = "reserved"}

Cleanup ==
    /\ Abandoned # {}
    /\ \A a \in Abandoned : costLock[a] = Nobody
    /\ costs' = [a \in Attempts |-> IF a \in Abandoned THEN [costs[a] EXCEPT !.status = "pending"] ELSE costs[a]]
    /\ UNCHANGED <<today, active, budget, locks, adjustments, aged, attempt, admin>>

Midnight ==
    /\ today + 1 \in Days
    /\ today' = today + 1
    /\ UNCHANGED <<active, budget, locks, ledger, attempt, admin>>

Reserve(a) == Begin(a) \/ Authorize(a) \/ CheckBudget(a) \/ Insert(a)

Complete(a) == Send(a) \/ BeginSettle(a) \/ Settle(a) \/ Abandon(a)

Administer(m) ==
    \/ OpenBudget(m) \/ LockBudget(m) \/ SaveBudget(m)
    \/ OpenCost(m) \/ LockCostKey(m) \/ LockCost(m) \/ Reconcile(m)
    \/ Refuse(m)

Next ==
    \/ \E a \in Attempts : Reserve(a) \/ Complete(a) \/ Age(a)
    \/ \E m \in Admins : Administer(m)
    \/ \E c \in Clients, on \in BOOLEAN : SetActive(c, on)
    \/ Cleanup
    \/ Midnight

SafeSpec == Init /\ [][Next]_vars

(***************************************************************************)
(* Time passes, and CleanupLoop runs once a minute for as long as the      *)
(* service does.  Nobody else has to do anything.                          *)
(***************************************************************************)
Spec == SafeSpec /\ WF_vars(Cleanup) /\ \A a \in Attempts : WF_vars(Age(a))

-----------------------------------------------------------------------------
Job == [client : Clients, basis : Budget, daily : Limits, monthly : Limits]
         \cup [cost : Attempts, amount : Amounts]

TypeOK ==
    /\ today \in Days
    /\ active \in [Clients -> BOOLEAN]
    /\ keyLock \in [Clients -> Attempts \cup Admins \cup {Nobody}]
    /\ budget \in [Clients -> Budget]
    /\ costs \in [Attempts -> Row \cup {NoRow}]
    /\ costLock \in [Attempts -> Admins \cup {Nobody}]
    /\ adjustments \in [Attempts -> Seq([previous : {"pending", "estimated"}, amount : Amounts])]
    /\ aged \in SUBSET Rows
    /\ pc \in [Attempts -> {"idle", "locking", "checking", "inserting", "reserved", "settling", "gone"}]
    /\ entry \in [Attempts -> Entry \cup {NoEntry}]
    /\ sent \in [Attempts -> BOOLEAN]
    /\ step \in [Admins -> {"idle", "editing", "saving", "reconciling", "keyed", "adjusting"}]
    /\ job \in [Admins -> Job \cup {NoJob}]

(***************************************************************************)
(* When a reservation is committed, what the client has used and reserved  *)
(* that day and that month, this reservation included, is within the       *)
(* limits in force at that moment, and nothing without an upper bound is   *)
(* open in the month: whatever requests, settlements, reconciliations and  *)
(* changes of the budget run at the same time                              *)
(* (COSTS_AND_OPTIMIZATION.md 55-57; billing.go 118-161).                  *)
(***************************************************************************)
NewReservation(a) ==
    /\ costs[a] = NoRow
    /\ costs'[a] # NoRow
    /\ costs'[a].kind = "production"

WithinBudget(a) ==
    LET c == costs[a].client
        d == costs[a].day
        b == budget[c]
    IN  b.daily # NoLimit \/ b.monthly # NoLimit =>
           /\ Unknown(c, MonthDays(d)) = {}
           /\ Within(b.daily, c, {d}, 0)
           /\ Within(b.monthly, c, MonthDays(d), 0)

BudgetHonoured ==
    [][\A a \in Attempts : NewReservation(a) /\ costs'[a].status = "reserved" => WithinBudget(a)']_vars

(***************************************************************************)
(* Once the administrator's revocation of a key has returned, no call is   *)
(* reserved for it any more, cached or not, even by a request that was     *)
(* admitted before (billing.go 120-134).                                   *)
(***************************************************************************)
NothingAfterRevocation ==
    [][\A a \in Attempts : NewReservation(a) => active[costs'[a].client]]_vars

(***************************************************************************)
(* What is settled stays settled.  A row leaves "reserved" once; only an   *)
(* administrator changes it after that, only if it is pending or           *)
(* estimated, and only once: a late settlement overwrites neither the      *)
(* cleanup's verdict nor a reconciliation (billing.go 239, 554).           *)
(***************************************************************************)
Successors(status) ==
    CASE status = "reserved" -> {"zero", "pending", "calculated", "estimated"}
      [] status \in {"pending", "estimated"} -> {"reconciled"}
      [] OTHER -> {}

SettledOnce ==
    [][\A a \in Rows : costs'[a] # costs[a] =>
          /\ costs'[a].status \in Successors(costs[a].status)
          /\ costs'[a] = [costs[a] EXCEPT !.status = costs'[a].status, !.amount = costs'[a].amount]]_vars

(***************************************************************************)
(* A cost is reconciled exactly when one adjustment explains it, made by   *)
(* one administrator from the status it replaced, and the adjustment and   *)
(* the row agree about the amount (billing.go 551-560).                    *)
(***************************************************************************)
ReconciledOnce ==
    \A a \in Attempts :
        /\ Len(adjustments[a]) = IF a \in Rows /\ costs[a].status = "reconciled" THEN 1 ELSE 0
        /\ \A i \in DOMAIN adjustments[a] :
              /\ adjustments[a][i].previous \in {"pending", "estimated"}
              /\ adjustments[a][i].amount = costs[a].amount

(***************************************************************************)
(* A call that was put on the wire is never booked as free: it has a row,  *)
(* and the row is neither "zero" nor a cache hit                           *)
(* (COSTS_AND_OPTIMIZATION.md 39-49).                                      *)
(***************************************************************************)
NoFreeCalls ==
    \A a \in Attempts : sent[a] =>
        a \in Rows /\ costs[a].status \notin {"zero", "local_cache"}

(***************************************************************************)
(* A budget is only replaced by an administrator who saw it: two that edit *)
(* the same form do not undo each other (billing.go 343-351).              *)
(***************************************************************************)
NoLostBudgetUpdate ==
    [][\A c \in Clients : budget'[c] # budget[c] =>
          \E m \in Admins : step[m] = "saving" /\ job[m].client = c /\ job[m].basis = budget[c]]_vars

(***************************************************************************)
(* A reservation nobody works for any more does not stay "reserved": it is *)
(* settled or comes up for reconciliation (store.go 632).                  *)
(***************************************************************************)
Outstanding(a) == a \in Rows /\ costs[a].status = "reserved"

ReservationsEnd ==
    \A a \in Attempts : Outstanding(a) ~> ~Outstanding(a)
=============================================================================
