--------------------------- MODULE EvaluationRuns ---------------------------
(***************************************************************************)
(* Batch evaluations, evaluation_runs.go: handlers that create and cancel  *)
(* runs, the worker goroutine of each run, the cleanup of every minute,    *)
(* and the end and restart of the process.                                 *)
(*                                                                         *)
(* Every statement or transaction on the database is one step, since each  *)
(* works on the rows of one run, in one statement or after locking the row *)
(* of the run.  Creation is three steps, as it looks at all runs under an  *)
(* advisory lock.  What a worker does between two statements is part of    *)
(* the step that ends with the second one.  A run is one row of            *)
(* evaluation_runs with its rows of evaluation_results, called trials.     *)
(***************************************************************************)
EXTENDS Integers, FiniteSets

CONSTANTS Runs,        \* identifiers of runs; one can be used again when its row is gone
          Trials,      \* 0 .. N-1: samples x targets x iterations, in the order of the loops
          Retries,     \* plan.Retries
          MaxCost,     \* plan.MaxCost
          Estimate,    \* what estimateEvaluationTrial returns
          Charges,     \* what the books show after a call: settled or still reserved
          MaxRestarts, \* bound: the process is stopped or crashes this often
          NoRun

ASSUME PlanAssumption ==
    /\ Trials = 0 .. Cardinality(Trials) - 1 /\ IsFiniteSet(Trials) /\ Trials # {}
    /\ Retries \in Nat /\ MaxCost \in Nat /\ Estimate \in Nat /\ Charges \in SUBSET Nat
    /\ MaxRestarts \in Nat /\ NoRun \notin Runs

VARIABLES
    status, trial, completed,   \* evaluation_runs.status and completed, evaluation_results.status
    age,          \* 0; 1 past the deadline of the run; 2 past it by five minutes more
    createLock,   \* who holds the advisory lock 846274906
    creator,      \* createEvaluationRun of each run
    canceller,    \* cancelEvaluation of each run, after its transaction
    worker,       \* executeEvaluation of each run; a worker is in evaluationCancels while it is there
    ctxDone,      \* the context of the worker is cancelled or past its deadline
    proc,         \* "up", "closing" after Close has begun, "down"
    restarts,
    booked,       \* history: what the books show for the calls of the worker
    answered      \* history: cancelEvaluation has answered 200

rows == <<status, trial, completed>>
history == <<booked, answered>>
process == <<proc, restarts>>
vars == <<rows, age, createLock, creator, canceller, worker, ctxDone, process, history>>

Active == {"queued", "running"}
Ended == {"completed", "budget_exhausted", "interrupted", "cancelled"}

NotCalled == [kind |-> "ok", known |-> 0, held |-> 0]
Idle == [at |-> "none", seq |-> 0, retry |-> 0, spent |-> 0, result |-> NotCalled, goal |-> "completed"]

NoTrials == [i \in Trials |-> "pending"]

Init ==
    /\ status = [e \in Runs |-> "none"]
    /\ trial = [e \in Runs |-> NoTrials]
    /\ completed = [e \in Runs |-> 0]
    /\ age = [e \in Runs |-> 0]
    /\ createLock = NoRun
    /\ creator = [e \in Runs |-> "none"]
    /\ canceller = [e \in Runs |-> "none"]
    /\ worker = [e \in Runs |-> Idle]
    /\ ctxDone = [e \in Runs |-> FALSE]
    /\ proc = "up" /\ restarts = 0
    /\ booked = [e \in Runs |-> 0]
    /\ answered = [e \in Runs |-> FALSE]

(***************************************************************************)
(* The rows of a run when it ends: what was being called is interrupted,   *)
(* what was not begun is skipped, and completed is counted again.          *)
(***************************************************************************)
Closed(t) == [i \in Trials |-> CASE t[i] = "running" -> "interrupted"
                                 [] t[i] = "pending" -> "skipped"
                                 [] OTHER -> t[i]]

Counted(t) == Cardinality({i \in Trials : t[i] \in {"completed", "error", "interrupted"}})

\* A variant that must fail: completed is left as the worker wrote it.
EndRowsUncounted(e, s) ==
    /\ status' = [status EXCEPT ![e] = s]
    /\ trial' = [trial EXCEPT ![e] = Closed(trial[e])]
    /\ UNCHANGED completed

EndRows(e, s) ==
    /\ status' = [status EXCEPT ![e] = s]
    /\ trial' = [trial EXCEPT ![e] = Closed(trial[e])]
    /\ completed' = [completed EXCEPT ![e] = Counted(Closed(trial[e]))]

\* finishEvaluation, or its failure, which is only logged
Finish(e, s) ==
    \/ EndRows(e, IF status[e] = "cancelled" THEN "cancelled" ELSE s)
    \/ UNCHANGED rows

-----------------------------------------------------------------------------
(***************************************************************************)
(* createEvaluationRun.  Everything before the transaction reads or fails. *)
(***************************************************************************)
\* A variant that must fail: the check for active runs is not serialised.
TakeLockShared(e) ==
    /\ proc = "up" /\ creator[e] = "none" /\ status[e] = "none"
    /\ createLock' = e
    /\ creator' = [creator EXCEPT ![e] = "locked"]
    /\ UNCHANGED <<rows, age, canceller, worker, ctxDone, process, history>>

TakeLock(e) ==
    /\ proc = "up" /\ creator[e] = "none" /\ status[e] = "none"
    /\ createLock = NoRun
    /\ createLock' = e
    /\ creator' = [creator EXCEPT ![e] = "locked"]
    /\ UNCHANGED <<rows, age, canceller, worker, ctxDone, process, history>>

\* the policy is archived or gone, a run is active, or the database fails
Refuse(e) ==
    /\ creator[e] \in {"locked", "inserted"}
    /\ createLock' = NoRun
    /\ creator' = [creator EXCEPT ![e] = "none"]
    /\ UNCHANGED <<rows, age, canceller, worker, ctxDone, process, history>>

Insert(e) ==
    /\ creator[e] = "locked"
    /\ \A f \in Runs : status[f] \notin Active
    /\ creator' = [creator EXCEPT ![e] = "inserted"]
    /\ UNCHANGED <<rows, age, createLock, canceller, worker, ctxDone, process, history>>

\* the handler may not learn that its transaction has committed
CommitRun(e) ==
    /\ creator[e] = "inserted"
    /\ status' = [status EXCEPT ![e] = "queued"]
    /\ createLock' = NoRun
    /\ \E c \in {"created", "none"} : creator' = [creator EXCEPT ![e] = c]
    /\ UNCHANGED <<trial, completed, age, canceller, worker, ctxDone, process, history>>

\* launchEvaluation, under evaluationMu
Launch(e) ==
    /\ creator[e] = "created" /\ proc = "up"
    /\ creator' = [creator EXCEPT ![e] = "none"]
    /\ worker' = [worker EXCEPT ![e] = [Idle EXCEPT !.at = "start"]]
    /\ ctxDone' = [ctxDone EXCEPT ![e] = FALSE]
    /\ UNCHANGED <<rows, age, createLock, canceller, process, history>>

LaunchRefused(e) ==
    /\ creator[e] = "created" /\ proc = "closing"
    /\ creator' = [creator EXCEPT ![e] = "none"]
    /\ Finish(e, "interrupted")
    /\ UNCHANGED <<age, createLock, canceller, worker, ctxDone, process, history>>

-----------------------------------------------------------------------------
(***************************************************************************)
(* cancelEvaluation: its transaction; then cancel(), if the worker is in   *)
(* evaluationCancels, or else the end of the rows.                         *)
(***************************************************************************)
Cancel(e) ==
    /\ proc # "down" /\ status[e] \in Active
    /\ status' = [status EXCEPT ![e] = "cancelled"]
    /\ \E c \in {"committed", "none"} : canceller' = [canceller EXCEPT ![e] = c]
    /\ UNCHANGED <<trial, completed, age, createLock, creator, worker, ctxDone, process, history>>

Registered(e) == worker[e].at # "none"

CancelWorker(e) ==
    /\ canceller[e] = "committed" /\ Registered(e)
    /\ ctxDone' = [ctxDone EXCEPT ![e] = TRUE]
    /\ canceller' = [canceller EXCEPT ![e] = "none"]
    /\ answered' = [answered EXCEPT ![e] = TRUE]
    /\ UNCHANGED <<rows, age, createLock, creator, worker, process, booked>>

CancelIdle(e) ==
    /\ canceller[e] = "committed" /\ ~Registered(e)
    /\ canceller' = [canceller EXCEPT ![e] = "finishing"]
    /\ UNCHANGED <<rows, age, createLock, creator, worker, ctxDone, process, history>>

CancelFinish(e) ==
    /\ canceller[e] = "finishing"
    /\ Finish(e, "cancelled")
    /\ canceller' = [canceller EXCEPT ![e] = "none"]
    /\ answered' = [answered EXCEPT ![e] = TRUE]
    /\ UNCHANGED <<age, createLock, creator, worker, ctxDone, process, booked>>

-----------------------------------------------------------------------------
(***************************************************************************)
(* executeEvaluation.  Goto and Stop move a worker on; every statement but *)
(* the write of a result uses its context and fails once that is done.  A  *)
(* statement that fails may have taken effect.                             *)
(***************************************************************************)
Goto(e, w, at) == worker' = [worker EXCEPT ![e] = [w EXCEPT !.at = at]]
Stop(e, s) == worker' = [worker EXCEPT ![e] = [Idle EXCEPT !.at = "finish", !.goal = s]]

others == <<age, createLock, creator, canceller, ctxDone, process>>

Begin(e) ==
    /\ worker[e].at = "start"
    /\ \/ /\ ~ctxDone[e]
          /\ status' = [status EXCEPT ![e] = IF @ = "queued" THEN "running" ELSE @]
          /\ Goto(e, worker[e], "check") \/ Stop(e, "interrupted")
       \/ UNCHANGED status /\ Stop(e, "interrupted")
    /\ UNCHANGED <<trial, completed, others, history>>

\* A variant that must fail: the worker trusts its context alone.
CheckContext(e) ==
    /\ worker[e].at = "check"
    /\ \/ Stop(e, "interrupted")
       \/ /\ ~ctxDone[e]
          /\ IF worker[e].spent + Estimate > MaxCost
               THEN Stop(e, "budget_exhausted")
               ELSE Goto(e, worker[e], "wait")
    /\ UNCHANGED <<rows, others, history>>

\* the head of the retry loop, up to the reservation of the budget
Check(e) ==
    /\ worker[e].at = "check"
    /\ \/ Stop(e, "interrupted")
       \/ /\ ~ctxDone[e] /\ status[e] # "running"
          /\ Stop(e, status[e])
       \/ /\ ~ctxDone[e] /\ status[e] = "running"
          /\ IF worker[e].spent + Estimate > MaxCost
               THEN Stop(e, "budget_exhausted")
               ELSE Goto(e, worker[e], "wait")
    /\ UNCHANGED <<rows, others, history>>

\* the rate limit and the pacing have let the call through; it is recorded
Mark(e) ==
    /\ worker[e].at = "wait"
    /\ \/ /\ ~ctxDone[e]
          /\ trial' = [trial EXCEPT ![e][worker[e].seq] = "running"]
          /\ Goto(e, worker[e], "marked") \/ Stop(e, "interrupted")
       \/ UNCHANGED trial /\ Stop(e, "interrupted")
    /\ UNCHANGED <<status, completed, others, history>>

\* runAudit puts a call on the wire, unless its context has ended before; it
\* returns a verdict, an error, or the error that its books cannot be written
Send(e) ==
    /\ worker[e].at = "marked" /\ ~ctxDone[e]
    /\ Goto(e, worker[e], "calling")
    /\ UNCHANGED <<rows, others, history>>

Return(e) ==
    /\ worker[e].at \in {"marked", "calling"}
    /\ \E kind \in {"ok", "failed", "unbooked"}, open \in BOOLEAN,
          c \in IF worker[e].at = "calling" THEN Charges ELSE {0} :
         /\ Goto(e, [worker[e] EXCEPT !.result = [kind |-> kind, known |-> IF open THEN 0 ELSE c,
                                                 held |-> IF open THEN c ELSE 0]], "write")
         /\ booked' = [booked EXCEPT ![e] = @ + c]
    /\ UNCHANGED <<rows, others, answered>>

\* A variant that must fail: one retry more than the plan has.
LastTryLate(w) == w.result.kind = "ok" \/ w.retry > Retries

LastTry(w) == w.result.kind = "ok" \/ w.retry = Retries

\* the transaction that stores a result, under a context of its own
Write(e) ==
    LET w == worker[e] IN
    /\ w.at = "write"
    /\ \/ /\ trial' = [trial EXCEPT ![e][w.seq] = IF w.result.kind = "ok" THEN "completed" ELSE "error"]
          /\ completed' = [completed EXCEPT ![e] = IF LastTry(w) THEN w.seq + 1 ELSE w.seq]
          /\ Goto(e, w, "costs") \/ Stop(e, "interrupted")
       \/ UNCHANGED <<trial, completed>> /\ Stop(e, "interrupted")
    /\ UNCHANGED <<status, others, history>>

\* A variant that must fail: charges still open do not count.
ChargedKnown(w) == w.spent + w.result.known

Charged(w) == w.spent + w.result.known + w.result.held

NextTry(w) ==
    [w EXCEPT !.spent = Charged(w), !.result = NotCalled,
              !.seq = IF LastTry(w) THEN @ + 1 ELSE @,
              !.retry = IF LastTry(w) THEN 0 ELSE @ + 1]

Costs(e) ==
    LET w == worker[e] IN
    /\ w.at = "costs"
    /\ \/ Stop(e, "interrupted")
       \/ /\ ~ctxDone[e]
          /\ CASE Charged(w) > MaxCost -> Stop(e, "budget_exhausted")
               [] Charged(w) <= MaxCost /\ w.result.kind = "unbooked" -> Stop(e, "interrupted")
               [] OTHER -> IF NextTry(w).seq \in Trials
                             THEN Goto(e, NextTry(w), "check")
                             ELSE Stop(e, "completed")
    /\ UNCHANGED <<rows, others, history>>

FinishRun(e) ==
    /\ worker[e].at = "finish"
    /\ Finish(e, worker[e].goal)
    /\ Goto(e, Idle, "exit")
    /\ UNCHANGED <<others, history>>

\* A variant that must fail: Done is not deferred.
ExitUndone(e) == worker[e].at = "exit" /\ UNCHANGED vars

\* the deferred functions: cancel, delete from evaluationCancels, Done
Exit(e) ==
    /\ worker[e].at = "exit"
    /\ worker' = [worker EXCEPT ![e] = Idle]
    /\ ctxDone' = [ctxDone EXCEPT ![e] = FALSE]
    /\ booked' = [booked EXCEPT ![e] = 0]
    /\ UNCHANGED <<rows, age, createLock, creator, canceller, process, answered>>

Work(e) == \/ Begin(e) \/ Check(e) \/ Mark(e) \/ Send(e) \/ Return(e) \/ Write(e)
           \/ Costs(e) \/ FinishRun(e) \/ Exit(e)

-----------------------------------------------------------------------------
(***************************************************************************)
(* Time.  The deadline of a run ends the context of its worker.  The five  *)
(* minutes that cleanupEvaluations waits after it are longer than anything *)
(* a worker or handler does without its context, and begin for them here   *)
(* when these are gone.                                                    *)
(***************************************************************************)
Deadline(e) ==
    /\ status[e] # "none" /\ age[e] = 0 /\ creator[e] = "none"
    /\ age' = [age EXCEPT ![e] = 1]
    /\ ctxDone' = [ctxDone EXCEPT ![e] = Registered(e)]
    /\ UNCHANGED <<rows, createLock, creator, canceller, worker, process, history>>

Overdue(e) ==
    /\ age[e] = 1
    /\ worker[e].at = "none" /\ creator[e] = "none" /\ canceller[e] = "none"
    /\ age' = [age EXCEPT ![e] = 2]
    /\ UNCHANGED <<rows, createLock, creator, canceller, worker, ctxDone, process, history>>

\* cleanupEvaluations
Cleanup(e) ==
    /\ proc # "down" /\ age[e] = 2 /\ status[e] \in Active
    /\ EndRows(e, "interrupted")
    /\ UNCHANGED <<others, worker, history>>

\* Store.Cleanup deletes ended runs of 90 days before; their trials go with them
Forget(e) ==
    /\ proc # "down" /\ age[e] = 2 /\ status[e] \in Ended
    /\ canceller[e] = "none"
    /\ status' = [status EXCEPT ![e] = "none"]
    /\ trial' = [trial EXCEPT ![e] = NoTrials]
    /\ completed' = [completed EXCEPT ![e] = 0]
    /\ age' = [age EXCEPT ![e] = 0]
    /\ answered' = [answered EXCEPT ![e] = FALSE]
    /\ UNCHANGED <<createLock, creator, canceller, worker, ctxDone, process, booked>>

-----------------------------------------------------------------------------
(***************************************************************************)
(* The process.  Close refuses new workers, ends the contexts of those     *)
(* there are and waits for them.  What is left of handlers ends with the   *)
(* process, and RecoverEvaluations runs before the next one serves.        *)
(***************************************************************************)
Close ==
    /\ proc = "up" /\ restarts < MaxRestarts
    /\ proc' = "closing"
    /\ ctxDone' = [e \in Runs |-> Registered(e)]
    /\ UNCHANGED <<rows, age, createLock, creator, canceller, worker, restarts, history>>

Vanish ==
    /\ proc' = "down" /\ restarts' = restarts + 1
    /\ createLock' = NoRun
    /\ creator' = [e \in Runs |-> "none"]
    /\ canceller' = [e \in Runs |-> "none"]
    /\ worker' = [e \in Runs |-> Idle]
    /\ ctxDone' = [e \in Runs |-> FALSE]
    /\ booked' = [e \in Runs |-> 0]
    /\ UNCHANGED <<rows, age, answered>>

Stopped == proc = "closing" /\ (\A e \in Runs : worker[e].at = "none") /\ Vanish

Crash == proc # "down" /\ restarts < MaxRestarts /\ Vanish

\* RecoverEvaluations: one transaction over all runs
Recover ==
    LET T(e) == IF status[e] \in Active \cup {"cancelled"} THEN Closed(trial[e]) ELSE trial[e] IN
    /\ proc = "down"
    /\ proc' = "up"
    /\ trial' = [e \in Runs |-> T(e)]
    /\ completed' = [e \in Runs |-> IF status[e] \in Active \cup {"cancelled"}
                                      THEN Counted(T(e)) ELSE completed[e]]
    /\ status' = [e \in Runs |-> IF status[e] \in Active THEN "interrupted" ELSE status[e]]
    /\ UNCHANGED <<age, createLock, creator, canceller, worker, ctxDone, restarts, history>>

-----------------------------------------------------------------------------
Handler(e) ==
    \/ TakeLock(e) \/ Refuse(e) \/ Insert(e) \/ CommitRun(e) \/ Launch(e) \/ LaunchRefused(e)
    \/ Cancel(e) \/ CancelWorker(e) \/ CancelIdle(e) \/ CancelFinish(e)

Next ==
    \/ \E e \in Runs : Handler(e) \/ Work(e) \/ Deadline(e) \/ Overdue(e) \/ Cleanup(e) \/ Forget(e)
    \/ Close \/ Stopped \/ Crash \/ Recover

(***************************************************************************)
(* A goroutine goes on, a handler that has begun comes to its end, time    *)
(* passes, the cleanup runs every minute, Close returns once the workers   *)
(* are gone, and a service that is down is started again.                  *)
(***************************************************************************)
Fairness ==
    /\ \A e \in Runs :
         /\ WF_vars(Work(e))
         /\ WF_vars(Refuse(e) \/ CommitRun(e) \/ Launch(e) \/ LaunchRefused(e))
         /\ WF_vars(CancelWorker(e) \/ CancelIdle(e) \/ CancelFinish(e))
         /\ WF_vars(Deadline(e)) /\ WF_vars(Overdue(e)) /\ WF_vars(Cleanup(e))
    /\ WF_vars(Stopped) /\ WF_vars(Recover)

SafeSpec == Init /\ [][Next]_vars

Spec == SafeSpec /\ Fairness

-----------------------------------------------------------------------------
Places == {"none", "start", "check", "wait", "marked", "calling", "write", "costs", "finish", "exit"}

Worker == [at : Places, seq : Trials, retry : 0 .. Retries, spent : Nat, goal : Ended,
           result : [kind : {"ok", "failed", "unbooked"}, known : Nat, held : Nat]]

(***************************************************************************)
(* Types.  A retry is one of 0 .. Retries and a position one of the trials *)
(* of the plan, and a handler holds the lock while it is in a transaction. *)
(***************************************************************************)
TypeOK ==
    /\ status \in [Runs -> {"none"} \cup Active \cup Ended]
    /\ trial \in [Runs -> [Trials -> {"pending", "running", "completed", "error",
                                     "interrupted", "skipped"}]]
    /\ completed \in [Runs -> 0 .. Cardinality(Trials)]
    /\ age \in [Runs -> 0 .. 2]
    /\ createLock \in Runs \cup {NoRun}
    /\ creator \in [Runs -> {"none", "locked", "inserted", "created"}]
    /\ \A e \in Runs : creator[e] \in {"locked", "inserted"} <=> createLock = e
    /\ canceller \in [Runs -> {"none", "committed", "finishing"}]
    /\ worker \in [Runs -> Worker]
    /\ ctxDone \in [Runs -> BOOLEAN]
    /\ proc \in {"up", "closing", "down"} /\ restarts \in 0 .. MaxRestarts
    /\ proc = "closing" => restarts < MaxRestarts
    /\ booked \in [Runs -> Nat]
    /\ answered \in [Runs -> BOOLEAN]

(***************************************************************************)
(* A run that has ended for another reason than a cancellation shows what  *)
(* happened: no trial is left as pending or running, and completed is the  *)
(* number of trials that were called (finishEvaluation, cleanup, restart). *)
(***************************************************************************)
Tallied == \A e \in Runs : status[e] \in Ended \ {"cancelled"} =>
    /\ \A i \in Trials : trial[e][i] \notin {"pending", "running"}
    /\ completed[e] = Counted(trial[e])

Sends(e) == worker[e].at = "marked" /\ worker'[e].at = "calling"

(***************************************************************************)
(* Once an administrator has been told that a run is cancelled it puts no  *)
(* call on the wire any more: its worker either is found and its context   *)
(* ended, or has not begun and will look at the status first.              *)
(***************************************************************************)
NoCallAfterCancel == [][\A e \in Runs : answered[e] => ~Sends(e)]_vars

(***************************************************************************)
(* A call is only sent while the estimate fits into what the calls of the  *)
(* run before it, retries and charges still open included, have left of    *)
(* its budget.                                                             *)
(***************************************************************************)
WithinBudget == [][\A e \in Runs : Sends(e) => booked[e] + Estimate <= MaxCost]_vars

(***************************************************************************)
(* Close returns: every worker sees the end of its context or of its work. *)
(***************************************************************************)
CloseEnds == proc = "closing" ~> proc = "down"

(***************************************************************************)
(* Runs appear one at a time, every one ends, whatever of workers,         *)
(* handlers, the database and the process fails, and the way it ended      *)
(* stays (the conditions on status of every statement on evaluation_runs). *)
(***************************************************************************)
Register == INSTANCE RunRegister
ImplementsRegister == Register!Spec
=============================================================================
