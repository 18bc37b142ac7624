------------------------ MODULE EvaluationRunsProofs ------------------------
(***************************************************************************)
(* Proofs about EvaluationRuns for any number of runs, trials and retries, *)
(* any budget and any charges.                                             *)
(*                                                                         *)
(* What the statements on evaluation_runs do not look at is carried by     *)
(* where the worker and the handlers of a run are: a worker that still     *)
(* writes belongs to a run that is active or cancelled (Phase), nobody is  *)
(* told of a cancellation while the worker can still send under a living   *)
(* context (Told), and what a worker has spent is what the books show      *)
(* (Books).                                                                *)
(***************************************************************************)
EXTENDS EvaluationRuns, FiniteSetTheorems, TLAPS

Working == {"check", "wait", "marked", "calling", "write", "costs"}

(***************************************************************************)
(* Who can be there in which status and age of the run.                    *)
(***************************************************************************)
Phase(e) ==
    /\ status[e] = "none" => age[e] = 0 /\ worker[e].at = "none" /\ canceller[e] = "none"
    /\ creator[e] # "none" => age[e] = 0 /\ worker[e].at = "none"
    /\ creator[e] \in {"locked", "inserted"} => status[e] = "none"
    /\ creator[e] = "created" => status[e] \in {"queued", "cancelled"}
    /\ canceller[e] # "none" => status[e] = "cancelled"
    /\ worker[e].at \notin {"none", "exit"} => status[e] \in Active \cup {"cancelled"}
    /\ worker[e].at \in Working => status[e] # "queued"
    /\ worker[e].at # "none" => age[e] # 2

(***************************************************************************)
(* One active run, and none while a creation is past its check.            *)
(***************************************************************************)
Alone ==
    /\ \A e, f \in Runs : status[e] \in Active /\ status[f] \in Active => e = f
    /\ \A e, f \in Runs : creator[e] = "inserted" => status[f] \notin Active

(***************************************************************************)
(* A process that is down has no goroutines.                               *)
(***************************************************************************)
Quiet == proc = "down" =>
    \A e \in Runs : creator[e] = "none" /\ canceller[e] = "none" /\ worker[e].at = "none"

Lifecycle == TypeOK /\ (\A e \in Runs : Phase(e)) /\ Alone /\ Quiet

(***************************************************************************)
(* Whoever has been told, or is about to be told without having found the  *)
(* worker, leaves no worker that can send.                                 *)
(***************************************************************************)
Told(e) == canceller[e] = "finishing" \/ answered[e] =>
    /\ status[e] = "cancelled"
    /\ worker[e].at \in {"wait", "marked"} => ctxDone[e]

(***************************************************************************)
(* What the worker believes to have spent is what the books show.          *)
(***************************************************************************)
Books(e) ==
    /\ worker[e].at = "none" => booked[e] = 0
    /\ worker[e].at \in {"start", "check", "wait", "marked", "calling"} => booked[e] = worker[e].spent
    /\ worker[e].at \in {"write", "costs"} => booked[e] = Charged(worker[e])
    /\ worker[e].at \in {"wait", "marked"} => booked[e] + Estimate <= MaxCost

TrialStatus == {"pending", "running", "completed", "error", "interrupted", "skipped"}

RowsOK ==
    /\ status \in [Runs -> {"none"} \cup Active \cup Ended]
    /\ trial \in [Runs -> [Trials -> TrialStatus]]
    /\ completed \in [Runs -> 0 .. Cardinality(Trials)]

Tally(e) == status[e] \in Ended \ {"cancelled"} =>
    /\ \A i \in Trials : trial[e][i] \notin {"pending", "running"}
    /\ completed[e] = Counted(trial[e])

-----------------------------------------------------------------------------
(***************************************************************************)
(* The rows of a run when it ends.                                         *)
(***************************************************************************)
LEMMA TrialsFinite ==
    /\ IsFiniteSet(Trials) /\ Cardinality(Trials) \in Nat
    /\ \A i \in Trials : i \in Nat /\ i + 1 \in 0 .. Cardinality(Trials)
    /\ 0 \in Trials
  <1>1. IsFiniteSet(Trials) /\ Trials # {} /\ Trials = 0 .. Cardinality(Trials) - 1
    BY PlanAssumption
  <1>2. Cardinality(Trials) \in Nat
    BY <1>1, FS_CardinalityType
  <1>3. QED
    BY <1>1, <1>2

LEMMA CountedType == \A t : Counted(t) \in 0 .. Cardinality(Trials)
  <1>1. SUFFICES ASSUME NEW t PROVE Counted(t) \in 0 .. Cardinality(Trials)
    OBVIOUS
  <1> DEFINE S == {i \in Trials : t[i] \in {"completed", "error", "interrupted"}}
  <1>2. IsFiniteSet(S) /\ Cardinality(S) <= Cardinality(Trials)
    BY TrialsFinite, FS_Subset
  <1>3. Cardinality(S) \in Nat
    BY <1>2, FS_CardinalityType
  <1>4. QED
    BY <1>2, <1>3, TrialsFinite DEF Counted

LEMMA ClosedType ==
    ASSUME NEW t \in [Trials -> TrialStatus]
    PROVE  /\ Closed(t) \in [Trials -> TrialStatus]
           /\ \A i \in Trials : Closed(t)[i] \notin {"pending", "running"}
  <1>1. \A i \in Trials : t[i] \in TrialStatus
    OBVIOUS
  <1>2. \A i \in Trials : Closed(t)[i] = IF t[i] = "running" THEN "interrupted"
                                        ELSE IF t[i] = "pending" THEN "skipped" ELSE t[i]
    BY DEF Closed
  <1>3. QED
    BY <1>1, <1>2 DEF Closed, TrialStatus

(***************************************************************************)
(* Ending the rows of one run: types stay, the run is tallied, and nothing *)
(* else changes.                                                           *)
(***************************************************************************)
LEMMA EndRowsEffect ==
    ASSUME RowsOK, NEW e \in Runs, NEW s \in Ended, EndRows(e, s)
    PROVE  /\ RowsOK' /\ Tally(e)'
           /\ status' = [status EXCEPT ![e] = s]
           /\ \A f \in Runs \ {e} : trial'[f] = trial[f] /\ completed'[f] = completed[f]
  <1>1. /\ status' = [status EXCEPT ![e] = s]
        /\ trial' = [trial EXCEPT ![e] = Closed(trial[e])]
        /\ completed' = [completed EXCEPT ![e] = Counted(Closed(trial[e]))]
    BY DEF EndRows
  <1>2. trial[e] \in [Trials -> TrialStatus]
    BY DEF RowsOK
  <1>3. /\ Closed(trial[e]) \in [Trials -> TrialStatus]
        /\ \A i \in Trials : Closed(trial[e])[i] \notin {"pending", "running"}
    BY <1>2, ClosedType
  <1>4. RowsOK'
    BY <1>1, <1>3, CountedType DEF RowsOK
  <1>5. trial'[e] = Closed(trial[e]) /\ completed'[e] = Counted(trial'[e])
    BY <1>1 DEF RowsOK
  <1>6. Tally(e)'
    BY <1>3, <1>5 DEF Tally, Counted
  <1>7. QED
    BY <1>1, <1>4, <1>6 DEF RowsOK

LEMMA FinishEffect ==
    ASSUME RowsOK, NEW e \in Runs, NEW s \in Ended, Finish(e, s)
    PROVE  /\ RowsOK' /\ (Tally(e) => Tally(e)')
           /\ \A f \in Runs \ {e} : trial'[f] = trial[f] /\ completed'[f] = completed[f]
           /\ \/ status' = status
              \/ /\ status[e] # "cancelled"
                 /\ status' = [status EXCEPT ![e] = s]
  <1> DEFINE g == IF status[e] = "cancelled" THEN "cancelled" ELSE s
  <1>1. CASE EndRows(e, g)
    <2>1. g \in Ended
      BY DEF Ended
    <2>2. /\ RowsOK' /\ Tally(e)'
          /\ status' = [status EXCEPT ![e] = g]
          /\ \A f \in Runs \ {e} : trial'[f] = trial[f] /\ completed'[f] = completed[f]
      BY <1>1, <2>1, EndRowsEffect
    <2>3. status[e] = "cancelled" => status' = status
      BY <2>2 DEF RowsOK
    <2>4. QED
      BY <2>2, <2>3
  <1>2. CASE UNCHANGED rows
    BY <1>2 DEF rows, RowsOK, Tally, Counted
  <1>3. QED
    BY <1>1, <1>2 DEF Finish

-----------------------------------------------------------------------------
(***************************************************************************)
(* How a worker moves.                                                     *)
(***************************************************************************)
LEMMA GotoEffect ==
    ASSUME worker \in [Runs -> Worker], NEW e \in Runs, NEW w \in Worker, NEW at \in Places,
           Goto(e, w, at)
    PROVE  /\ worker' \in [Runs -> Worker]
           /\ worker'[e].at = at /\ worker'[e].seq = w.seq /\ worker'[e].retry = w.retry
           /\ worker'[e].spent = w.spent /\ worker'[e].result = w.result /\ worker'[e].goal = w.goal
           /\ \A f \in Runs \ {e} : worker'[f] = worker[f]
  <1>1. [w EXCEPT !.at = at] \in Worker
    BY DEF Worker
  <1>2. worker' = [worker EXCEPT ![e] = [w EXCEPT !.at = at]]
    BY DEF Goto
  <1>3. QED
    BY <1>1, <1>2 DEF Worker

LEMMA IdleType == Idle \in Worker
  BY PlanAssumption, TrialsFinite DEF Idle, NotCalled, Worker, Places, Ended

LEMMA StopEffect ==
    ASSUME worker \in [Runs -> Worker], NEW e \in Runs, NEW s \in Ended, Stop(e, s)
    PROVE  /\ worker' \in [Runs -> Worker]
           /\ worker'[e].at = "finish" /\ worker'[e].goal = s
           /\ \A f \in Runs \ {e} : worker'[f] = worker[f]
  <1> DEFINE w == [Idle EXCEPT !.at = "finish", !.goal = s]
  <1>1. w \in Worker /\ w.at = "finish" /\ w.goal = s
    BY IdleType DEF Worker, Places
  <1>2. worker' = [worker EXCEPT ![e] = w]
    BY DEF Stop
  <1>3. QED
    BY <1>1, <1>2

-----------------------------------------------------------------------------
(***************************************************************************)
(* Types.                                                                  *)
(***************************************************************************)
LEMMA InitTypes == Init => TypeOK
  <1> SUFFICES ASSUME Init PROVE TypeOK
    OBVIOUS
  <1>1. NoTrials \in [Trials -> TrialStatus] /\ 0 \in 0 .. Cardinality(Trials)
    BY TrialsFinite DEF NoTrials, TrialStatus
  <1>2. worker \in [Runs -> Worker]
    BY IdleType DEF Init
  <1>3. QED
    BY <1>1, <1>2, PlanAssumption DEF Init, TypeOK, TrialStatus

LEMMA SameTypes == ASSUME TypeOK, UNCHANGED vars PROVE TypeOK'
  BY DEF TypeOK, vars, rows, process, history

\* the transaction of a handler and its lock
LEMMA HandlerTypes == ASSUME TypeOK, NEW e \in Runs, Handler(e) PROVE TypeOK'
  <1>1. CASE TakeLock(e) \/ Refuse(e) \/ Insert(e)
    <2>1. UNCHANGED <<rows, age, canceller, worker, ctxDone, process, history>>
      BY <1>1 DEF TakeLock, Refuse, Insert
    <2>2. /\ creator' \in [Runs -> {"none", "locked", "inserted", "created"}]
          /\ createLock' \in Runs \cup {NoRun}
      BY <1>1 DEF TakeLock, Refuse, Insert, TypeOK
    <2>3. \A f \in Runs : creator'[f] \in {"locked", "inserted"} <=> createLock' = f
      BY <1>1, PlanAssumption DEF TakeLock, Refuse, Insert, TypeOK
    <2>4. QED
      BY <2>1, <2>2, <2>3 DEF TypeOK, rows, process, history
  <1>2. CASE CommitRun(e)
    <2>1. /\ creator[e] = "inserted" /\ createLock' = NoRun
          /\ status' = [status EXCEPT ![e] = "queued"]
          /\ UNCHANGED <<trial, completed, age, canceller, worker, ctxDone, process, history>>
      BY <1>2 DEF CommitRun
    <2>2. PICK c \in {"created", "none"} : creator' = [creator EXCEPT ![e] = c]
      BY <1>2 DEF CommitRun
    <2>3. \A f \in Runs : creator'[f] \in {"locked", "inserted"} <=> createLock' = f
      BY <2>1, <2>2, PlanAssumption DEF TypeOK
    <2>4. QED
      BY <2>1, <2>2, <2>3 DEF TypeOK, process, history, Active
  <1>3. CASE Launch(e)
    <2>1. [Idle EXCEPT !.at = "start"] \in Worker
      BY IdleType DEF Worker, Places
    <2>2. worker' \in [Runs -> Worker]
      BY <1>3, <2>1 DEF Launch, TypeOK
    <2>3. /\ creator' \in [Runs -> {"none", "locked", "inserted", "created"}]
          /\ \A f \in Runs : creator'[f] \in {"locked", "inserted"} <=> createLock' = f
      BY <1>3 DEF Launch, TypeOK
    <2>4. ctxDone' \in [Runs -> BOOLEAN]
      BY <1>3 DEF Launch, TypeOK
    <2>5. UNCHANGED <<rows, age, createLock, canceller, process, history>>
      BY <1>3 DEF Launch
    <2>6. QED
      BY <2>2, <2>3, <2>4, <2>5 DEF TypeOK, rows, process, history
  <1>4. CASE LaunchRefused(e)
    <2>1. RowsOK'
      BY <1>4, FinishEffect DEF LaunchRefused, TypeOK, RowsOK, TrialStatus, Ended
    <2>2. /\ creator' \in [Runs -> {"none", "locked", "inserted", "created"}]
          /\ \A f \in Runs : creator'[f] \in {"locked", "inserted"} <=> createLock' = f
      BY <1>4 DEF LaunchRefused, TypeOK
    <2>3. UNCHANGED <<age, createLock, canceller, worker, ctxDone, process, history>>
      BY <1>4 DEF LaunchRefused
    <2>4. QED
      BY <2>1, <2>2, <2>3 DEF TypeOK, RowsOK, TrialStatus, process, history
  <1>5. CASE Cancel(e)
    <2>1. /\ status' = [status EXCEPT ![e] = "cancelled"]
          /\ UNCHANGED <<trial, completed, age, createLock, creator, worker, ctxDone, process, history>>
      BY <1>5 DEF Cancel
    <2>2. canceller' \in [Runs -> {"none", "committed", "finishing"}]
      BY <1>5 DEF Cancel, TypeOK
    <2>3. QED
      BY <2>1, <2>2 DEF TypeOK, process, history, Ended
  <1>6. CASE CancelWorker(e) \/ CancelIdle(e)
    <2>1. /\ canceller' \in [Runs -> {"none", "committed", "finishing"}]
          /\ ctxDone' \in [Runs -> BOOLEAN] /\ answered' \in [Runs -> BOOLEAN]
      BY <1>6 DEF CancelWorker, CancelIdle, TypeOK, history
    <2>2. UNCHANGED <<rows, age, createLock, creator, worker, process, booked>>
      BY <1>6 DEF CancelWorker, CancelIdle, history
    <2>3. QED
      BY <2>1, <2>2 DEF TypeOK, rows, process
  <1>7. CASE CancelFinish(e)
    <2>1. RowsOK'
      BY <1>7, FinishEffect DEF CancelFinish, TypeOK, RowsOK, TrialStatus, Ended
    <2>2. /\ canceller' \in [Runs -> {"none", "committed", "finishing"}]
          /\ answered' \in [Runs -> BOOLEAN]
          /\ UNCHANGED <<age, createLock, creator, worker, ctxDone, process, booked>>
      BY <1>7 DEF CancelFinish, TypeOK
    <2>3. QED
      BY <2>1, <2>2 DEF TypeOK, RowsOK, TrialStatus, process
  <1>8. QED
    BY <1>1, <1>2, <1>3, <1>4, <1>5, <1>6, <1>7 DEF Handler

(***************************************************************************)
(* A step of a worker touches the worker and the rows of its own run only. *)
(***************************************************************************)
WorkerOnly(e) ==
    /\ worker' \in [Runs -> Worker]
    /\ \A f \in Runs \ {e} : worker'[f] = worker[f]

LEMMA BeginEffect ==
    ASSUME TypeOK, NEW e \in Runs, Begin(e)
    PROVE  /\ TypeOK' /\ WorkerOnly(e)
           /\ worker[e].at = "start"
           /\ \/ /\ status' = [status EXCEPT ![e] = IF @ = "queued" THEN "running" ELSE @]
                 /\ worker'[e].at \in {"check", "finish"}
              \/ status' = status /\ worker'[e].at = "finish"
           /\ worker'[e].at = "check" => worker'[e].spent = worker[e].spent /\ ~ctxDone[e]
           /\ UNCHANGED <<trial, completed, others, history>>
  <1>1. worker \in [Runs -> Worker] /\ worker[e] \in Worker
    BY DEF TypeOK
  <1>2. /\ Goto(e, worker[e], "check") \/ Stop(e, "interrupted")
        /\ worker[e].at = "start" /\ UNCHANGED <<trial, completed, others, history>>
        /\ \/ /\ status' = [status EXCEPT ![e] = IF @ = "queued" THEN "running" ELSE @]
              /\ ~ctxDone[e]
           \/ status' = status /\ Stop(e, "interrupted")
    BY DEF Begin
  <1>3. CASE Goto(e, worker[e], "check") /\ ~Stop(e, "interrupted")
    <2>1. /\ worker' \in [Runs -> Worker] /\ worker'[e].at = "check"
          /\ worker'[e].spent = worker[e].spent
          /\ \A f \in Runs \ {e} : worker'[f] = worker[f]
      BY <1>1, <1>3, GotoEffect DEF Places
    <2>2. TypeOK'
      BY <1>2, <1>3, <2>1 DEF TypeOK, Active, others, process, history
    <2>3. QED
      BY <1>2, <1>3, <2>1, <2>2 DEF WorkerOnly
  <1>4. CASE Stop(e, "interrupted")
    <2>1. /\ worker' \in [Runs -> Worker] /\ worker'[e].at = "finish"
          /\ \A f \in Runs \ {e} : worker'[f] = worker[f]
      BY <1>1, <1>4, StopEffect DEF Ended
    <2>2. TypeOK'
      BY <1>2, <2>1 DEF TypeOK, Active, others, process, history
    <2>3. QED
      BY <1>2, <2>1, <2>2 DEF WorkerOnly
  <1>5. QED
    BY <1>2, <1>3, <1>4

LEMMA CheckEffect ==
    ASSUME TypeOK, NEW e \in Runs, Check(e), status[e] \notin {"none", "queued"}
    PROVE  /\ TypeOK' /\ WorkerOnly(e)
           /\ worker[e].at = "check"
           /\ \/ worker'[e].at = "finish"
              \/ /\ worker'[e].at = "wait" /\ worker'[e].spent = worker[e].spent
                 /\ status[e] = "running" /\ worker[e].spent + Estimate <= MaxCost
           /\ UNCHANGED <<rows, others, history>>
  <1>1. worker \in [Runs -> Worker] /\ worker[e] \in Worker /\ worker[e].spent \in Nat
    BY DEF TypeOK, Worker
  <1>2. worker[e].at = "check" /\ UNCHANGED <<rows, others, history>>
    BY DEF Check
  <1>3. \/ \E s \in Ended : Stop(e, s)
        \/ /\ Goto(e, worker[e], "wait") /\ status[e] = "running"
           /\ worker[e].spent + Estimate <= MaxCost
    <2>1. status[e] # "running" => status[e] \in Ended
      BY DEF TypeOK, Active, Ended
    <2>2. ~(worker[e].spent + Estimate > MaxCost) => worker[e].spent + Estimate <= MaxCost
      BY <1>1, PlanAssumption
    <2>3. QED
      BY <2>1, <2>2 DEF Check, Ended
  <1>4. CASE \E s \in Ended : Stop(e, s)
    <2>1. WorkerOnly(e) /\ worker'[e].at = "finish"
      BY <1>1, <1>4, StopEffect DEF WorkerOnly
    <2>2. QED
      BY <1>2, <2>1 DEF TypeOK, WorkerOnly, rows, others, process, history
  <1>5. CASE /\ Goto(e, worker[e], "wait") /\ status[e] = "running"
             /\ worker[e].spent + Estimate <= MaxCost
    <2>1. WorkerOnly(e) /\ worker'[e].at = "wait" /\ worker'[e].spent = worker[e].spent
      BY <1>1, <1>5, GotoEffect DEF WorkerOnly, Places
    <2>2. QED
      BY <1>2, <1>5, <2>1 DEF TypeOK, WorkerOnly, rows, others, process, history
  <1>6. QED
    BY <1>3, <1>4, <1>5

(***************************************************************************)
(* A worker writes the status of one trial of its run.                     *)
(***************************************************************************)
LEMMA TrialWritten ==
    ASSUME trial \in [Runs -> [Trials -> TrialStatus]], NEW e \in Runs, NEW i \in Trials,
           NEW x \in TrialStatus, trial' = [trial EXCEPT ![e][i] = x]
    PROVE  /\ trial' \in [Runs -> [Trials -> TrialStatus]]
           /\ \A f \in Runs \ {e} : trial'[f] = trial[f]
  <1> DEFINE t == [trial[e] EXCEPT ![i] = x]
  <1>1. trial[e] \in [Trials -> TrialStatus]
    OBVIOUS
  <1>2. t \in [Trials -> TrialStatus]
    BY <1>1
  <1>3. trial' = [trial EXCEPT ![e] = t]
    OBVIOUS
  <1> HIDE DEF t
  <1>4. QED
    BY <1>2, <1>3

LEMMA MarkEffect ==
    ASSUME TypeOK, NEW e \in Runs, Mark(e)
    PROVE  /\ TypeOK' /\ WorkerOnly(e)
           /\ worker[e].at = "wait"
           /\ \/ worker'[e].at = "finish"
              \/ /\ worker'[e].at = "marked" /\ worker'[e].spent = worker[e].spent
                 /\ ~ctxDone[e]
           /\ \A f \in Runs \ {e} : trial'[f] = trial[f]
           /\ UNCHANGED <<status, completed, others, history>>
  <1>1. worker \in [Runs -> Worker] /\ worker[e] \in Worker /\ worker[e].seq \in Trials
    BY DEF TypeOK, Worker
  <1>2. /\ worker[e].at = "wait" /\ UNCHANGED <<status, completed, others, history>>
        /\ \/ Goto(e, worker[e], "marked") /\ ~ctxDone[e]
           \/ Stop(e, "interrupted")
        /\ trial' = [trial EXCEPT ![e][worker[e].seq] = "running"] \/ trial' = trial
    BY DEF Mark
  <1>3. /\ trial' \in [Runs -> [Trials -> TrialStatus]]
        /\ \A f \in Runs \ {e} : trial'[f] = trial[f]
    <2>1. trial \in [Runs -> [Trials -> TrialStatus]] /\ "running" \in TrialStatus
      BY DEF TypeOK, TrialStatus
    <2>2. QED
      BY <1>1, <1>2, <2>1, TrialWritten
  <1>4. CASE Goto(e, worker[e], "marked") /\ ~ctxDone[e]
    <2>1. WorkerOnly(e) /\ worker'[e].at = "marked" /\ worker'[e].spent = worker[e].spent
      BY <1>1, <1>4, GotoEffect DEF WorkerOnly, Places
    <2>2. QED
      BY <1>2, <1>3, <1>4, <2>1 DEF TypeOK, WorkerOnly, others, process, history, TrialStatus
  <1>5. CASE Stop(e, "interrupted")
    <2>1. WorkerOnly(e) /\ worker'[e].at = "finish"
      BY <1>1, <1>5, StopEffect DEF WorkerOnly, Ended
    <2>2. QED
      BY <1>2, <1>3, <2>1 DEF TypeOK, WorkerOnly, others, process, history, TrialStatus
  <1>6. QED
    BY <1>2, <1>4, <1>5

LEMMA SendEffect ==
    ASSUME TypeOK, NEW e \in Runs, Send(e)
    PROVE  /\ TypeOK' /\ WorkerOnly(e)
           /\ worker[e].at = "marked" /\ worker'[e].at = "calling" /\ ~ctxDone[e]
           /\ worker'[e].spent = worker[e].spent
           /\ UNCHANGED <<rows, others, history>>
  <1>1. worker \in [Runs -> Worker] /\ worker[e] \in Worker
    BY DEF TypeOK
  <1>2. WorkerOnly(e) /\ worker'[e].at = "calling" /\ worker'[e].spent = worker[e].spent
    BY <1>1, GotoEffect DEF Send, WorkerOnly, Places
  <1>3. QED
    BY <1>2 DEF Send, TypeOK, WorkerOnly, rows, others, process, history

LEMMA ReturnEffect ==
    ASSUME TypeOK, NEW e \in Runs, Return(e)
    PROVE  /\ TypeOK' /\ WorkerOnly(e)
           /\ worker[e].at \in {"marked", "calling"} /\ worker'[e].at = "write"
           /\ Charged(worker'[e]) - worker[e].spent = booked'[e] - booked[e]
           /\ \A f \in Runs \ {e} : booked'[f] = booked[f]
           /\ UNCHANGED <<rows, others, answered>>
  <1>1. worker \in [Runs -> Worker] /\ worker[e] \in Worker
    BY DEF TypeOK
  <1>2. PICK kind \in {"ok", "failed", "unbooked"}, open \in BOOLEAN,
             c \in IF worker[e].at = "calling" THEN Charges ELSE {0} :
          /\ Goto(e, [worker[e] EXCEPT !.result = [kind |-> kind, known |-> IF open THEN 0 ELSE c,
                                                 held |-> IF open THEN c ELSE 0]], "write")
          /\ booked' = [booked EXCEPT ![e] = @ + c]
    BY DEF Return
  <1> DEFINE r == [kind |-> kind, known |-> IF open THEN 0 ELSE c, held |-> IF open THEN c ELSE 0]
             w == [worker[e] EXCEPT !.result = r]
  <1>3. c \in Nat
    BY PlanAssumption
  <1>4. /\ r \in [kind : {"ok", "failed", "unbooked"}, known : Nat, held : Nat]
        /\ r.known + r.held = c /\ r.known \in Nat /\ r.held \in Nat
    BY <1>3
  <1>5. w \in Worker /\ w.result = r /\ w.spent = worker[e].spent /\ w.spent \in Nat
    BY <1>1, <1>4 DEF Worker
  <1>6. /\ WorkerOnly(e) /\ worker'[e].at = "write"
        /\ worker'[e].spent = w.spent /\ worker'[e].result = r
    BY <1>1, <1>2, <1>5, GotoEffect DEF WorkerOnly, Places
  <1>7. /\ booked' \in [Runs -> Nat] /\ booked'[e] = booked[e] + c /\ booked[e] \in Nat
        /\ \A f \in Runs \ {e} : booked'[f] = booked[f]
    BY <1>2, <1>3 DEF TypeOK
  <1>8. Charged(worker'[e]) - worker[e].spent = booked'[e] - booked[e]
    BY <1>4, <1>5, <1>6, <1>7 DEF Charged
  <1>9. UNCHANGED <<rows, others, answered>> /\ worker[e].at \in {"marked", "calling"}
    BY DEF Return
  <1>10. TypeOK'
    BY <1>6, <1>7, <1>9 DEF TypeOK, WorkerOnly, rows, others, process
  <1>11. QED
    BY <1>6, <1>7, <1>8, <1>9, <1>10

LEMMA WriteEffect ==
    ASSUME TypeOK, NEW e \in Runs, Write(e)
    PROVE  /\ TypeOK' /\ WorkerOnly(e)
           /\ worker[e].at = "write"
           /\ \/ worker'[e].at = "finish"
              \/ worker'[e].at = "costs" /\ Charged(worker'[e]) = Charged(worker[e])
           /\ \A f \in Runs \ {e} : trial'[f] = trial[f] /\ completed'[f] = completed[f]
           /\ UNCHANGED <<status, others, history>>
  <1>1. worker \in [Runs -> Worker] /\ worker[e] \in Worker /\ worker[e].seq \in Trials
    BY DEF TypeOK, Worker
  <1>2. worker[e].seq \in Nat /\ worker[e].seq + 1 \in 0 .. Cardinality(Trials)
    BY <1>1, TrialsFinite
  <1>3. worker[e].seq \in 0 .. Cardinality(Trials)
    BY <1>2, TrialsFinite
  <1>4. /\ worker[e].at = "write" /\ UNCHANGED <<status, others, history>>
        /\ Goto(e, worker[e], "costs") \/ Stop(e, "interrupted")
        /\ \/ /\ trial' = [trial EXCEPT ![e][worker[e].seq] =
                            IF worker[e].result.kind = "ok" THEN "completed" ELSE "error"]
              /\ completed' = [completed EXCEPT ![e] =
                                IF LastTry(worker[e]) THEN worker[e].seq + 1 ELSE worker[e].seq]
           \/ UNCHANGED <<trial, completed>>
    BY DEF Write
  <1>5. /\ trial' \in [Runs -> [Trials -> TrialStatus]]
        /\ completed' \in [Runs -> 0 .. Cardinality(Trials)]
        /\ \A f \in Runs \ {e} : trial'[f] = trial[f] /\ completed'[f] = completed[f]
    <2> DEFINE x == IF worker[e].result.kind = "ok" THEN "completed" ELSE "error"
               n == IF LastTry(worker[e]) THEN worker[e].seq + 1 ELSE worker[e].seq
    <2>1. /\ trial \in [Runs -> [Trials -> TrialStatus]] /\ x \in TrialStatus
          /\ completed \in [Runs -> 0 .. Cardinality(Trials)]
      BY DEF TypeOK, TrialStatus
    <2>2. n \in 0 .. Cardinality(Trials)
      BY <1>2, <1>3
    <2>3. \/ trial' = [trial EXCEPT ![e][worker[e].seq] = x] /\ completed' = [completed EXCEPT ![e] = n]
          \/ UNCHANGED <<trial, completed>>
      BY <1>4
    <2> HIDE DEF x, n
    <2>4. /\ trial' \in [Runs -> [Trials -> TrialStatus]]
          /\ \A f \in Runs \ {e} : trial'[f] = trial[f]
      BY <1>1, <2>1, <2>3, TrialWritten
    <2>5. /\ completed' \in [Runs -> 0 .. Cardinality(Trials)]
          /\ \A f \in Runs \ {e} : completed'[f] = completed[f]
      BY <2>1, <2>2, <2>3
    <2>6. QED
      BY <2>4, <2>5
  <1>6. CASE Goto(e, worker[e], "costs")
    <2>1. /\ WorkerOnly(e) /\ worker'[e].at = "costs"
          /\ worker'[e].spent = worker[e].spent /\ worker'[e].result = worker[e].result
      BY <1>1, <1>6, GotoEffect DEF WorkerOnly, Places
    <2>2. QED
      BY <1>4, <1>5, <2>1 DEF TypeOK, WorkerOnly, others, process, history, TrialStatus, Charged
  <1>7. CASE Stop(e, "interrupted")
    <2>1. WorkerOnly(e) /\ worker'[e].at = "finish"
      BY <1>1, <1>7, StopEffect DEF WorkerOnly, Ended
    <2>2. QED
      BY <1>4, <1>5, <2>1 DEF TypeOK, WorkerOnly, others, process, history, TrialStatus
  <1>8. QED
    BY <1>4, <1>6, <1>7

LEMMA NextTryType ==
    ASSUME NEW w \in Worker, NextTry(w).seq \in Trials
    PROVE  NextTry(w) \in Worker /\ NextTry(w).spent = Charged(w)
  <1>1. /\ w.spent \in Nat /\ w.result.known \in Nat /\ w.result.held \in Nat
        /\ w.retry \in 0 .. Retries /\ w.seq \in Trials
    BY DEF Worker
  <1>2. Charged(w) \in Nat
    BY <1>1 DEF Charged
  <1>3. (IF LastTry(w) THEN 0 ELSE w.retry + 1) \in 0 .. Retries
    BY <1>1, PlanAssumption DEF LastTry
  <1>4. NotCalled \in [kind : {"ok", "failed", "unbooked"}, known : Nat, held : Nat]
    BY DEF NotCalled
  <1> DEFINE s == IF LastTry(w) THEN w.seq + 1 ELSE w.seq
             n == IF LastTry(w) THEN 0 ELSE w.retry + 1
             c == Charged(w)
             r == NotCalled
  <1>5. NextTry(w) = [w EXCEPT !.spent = c, !.result = r, !.seq = s, !.retry = n]
    BY DEF NextTry, Worker
  <1>6. s \in Trials /\ c \in Nat /\ n \in 0 .. Retries
    BY <1>2, <1>3, <1>5 DEF Worker
  <1>7. r \in [kind : {"ok", "failed", "unbooked"}, known : Nat, held : Nat]
    BY <1>4
  <1> HIDE DEF s, n, c, r
  <1>8. NextTry(w) \in Worker /\ NextTry(w).spent = c
    BY <1>5, <1>6, <1>7 DEF Worker
  <1>9. QED
    BY <1>8 DEF c

LEMMA CostsEffect ==
    ASSUME TypeOK, NEW e \in Runs, Costs(e)
    PROVE  /\ TypeOK' /\ WorkerOnly(e)
           /\ worker[e].at = "costs"
           /\ \/ worker'[e].at = "finish"
              \/ worker'[e].at = "check" /\ worker'[e].spent = Charged(worker[e])
           /\ UNCHANGED <<rows, others, history>>
  <1> DEFINE w == worker[e]
  <1>1. worker \in [Runs -> Worker] /\ w \in Worker
    BY DEF TypeOK
  <1>2. w.at = "costs" /\ UNCHANGED <<rows, others, history>>
    BY DEF Costs
  <1>3. \/ \E s \in Ended : Stop(e, s)
        \/ Goto(e, NextTry(w), "check") /\ NextTry(w).seq \in Trials
    <2>1. \/ Stop(e, "interrupted")
          \/ CASE Charged(w) > MaxCost -> Stop(e, "budget_exhausted")
               [] Charged(w) <= MaxCost /\ w.result.kind = "unbooked" -> Stop(e, "interrupted")
               [] OTHER -> IF NextTry(w).seq \in Trials
                             THEN Goto(e, NextTry(w), "check")
                             ELSE Stop(e, "completed")
      BY DEF Costs
    <2>2. \/ Stop(e, "interrupted") \/ Stop(e, "budget_exhausted") \/ Stop(e, "completed")
          \/ Goto(e, NextTry(w), "check") /\ NextTry(w).seq \in Trials
      BY <2>1
    <2>3. QED
      BY <2>2 DEF Ended
  <1>4. CASE \E s \in Ended : Stop(e, s)
    <2>1. WorkerOnly(e) /\ worker'[e].at = "finish"
      BY <1>1, <1>4, StopEffect DEF WorkerOnly
    <2>2. QED
      BY <1>2, <2>1 DEF TypeOK, WorkerOnly, rows, others, process, history
  <1>5. CASE Goto(e, NextTry(w), "check") /\ NextTry(w).seq \in Trials
    <2>1. NextTry(w) \in Worker /\ NextTry(w).spent = Charged(w)
      BY <1>1, <1>5, NextTryType
    <2>2. WorkerOnly(e) /\ worker'[e].at = "check" /\ worker'[e].spent = Charged(w)
      BY <1>1, <1>5, <2>1, GotoEffect DEF WorkerOnly, Places
    <2>3. QED
      BY <1>2, <2>2 DEF TypeOK, WorkerOnly, rows, others, process, history
  <1>6. QED
    BY <1>3, <1>4, <1>5

LEMMA FinishRunEffect ==
    ASSUME TypeOK, NEW e \in Runs, FinishRun(e)
    PROVE  /\ TypeOK' /\ WorkerOnly(e)
           /\ worker[e].at = "finish" /\ worker'[e].at = "exit"
           /\ \E s \in Ended : Finish(e, s)
           /\ UNCHANGED <<others, history>>
  <1>1. worker \in [Runs -> Worker] /\ worker[e].goal \in Ended
    BY DEF TypeOK, Worker
  <1>2. /\ worker[e].at = "finish" /\ Finish(e, worker[e].goal)
        /\ Goto(e, Idle, "exit") /\ UNCHANGED <<others, history>>
    BY DEF FinishRun
  <1>3. WorkerOnly(e) /\ worker'[e].at = "exit"
    BY <1>1, <1>2, IdleType, GotoEffect DEF WorkerOnly, Places
  <1>4. RowsOK'
    BY <1>1, <1>2, FinishEffect DEF TypeOK, RowsOK, TrialStatus
  <1>5. TypeOK'
    BY <1>2, <1>3, <1>4 DEF TypeOK, RowsOK, TrialStatus, WorkerOnly, others, process, history
  <1>6. QED
    BY <1>1, <1>2, <1>3, <1>5

LEMMA ExitEffect ==
    ASSUME TypeOK, NEW e \in Runs, Exit(e)
    PROVE  /\ TypeOK' /\ WorkerOnly(e)
           /\ worker[e].at = "exit" /\ worker'[e].at = "none"
           /\ booked' = [booked EXCEPT ![e] = 0] /\ ctxDone' = [ctxDone EXCEPT ![e] = FALSE]
           /\ UNCHANGED <<rows, age, createLock, creator, canceller, process, answered>>
  <1>1. worker' = [worker EXCEPT ![e] = Idle] /\ Idle.at = "none"
    BY DEF Exit, Idle
  <1>2. WorkerOnly(e) /\ worker'[e].at = "none"
    BY <1>1, IdleType DEF TypeOK, WorkerOnly
  <1>3. /\ booked' = [booked EXCEPT ![e] = 0] /\ ctxDone' = [ctxDone EXCEPT ![e] = FALSE]
        /\ UNCHANGED <<rows, age, createLock, creator, canceller, process, answered>>
        /\ worker[e].at = "exit"
    BY DEF Exit
  <1>4. booked' \in [Runs -> Nat] /\ ctxDone' \in [Runs -> BOOLEAN]
    BY <1>3 DEF TypeOK
  <1>5. TypeOK'
    BY <1>2, <1>3, <1>4 DEF TypeOK, WorkerOnly, rows, process
  <1>6. QED
    BY <1>2, <1>3, <1>5

(***************************************************************************)
(* Time, cleanup and the process.                                          *)
(***************************************************************************)
Ambient == \/ \E e \in Runs : Deadline(e) \/ Overdue(e) \/ Cleanup(e) \/ Forget(e)
           \/ Close \/ Stopped \/ Crash \/ Recover

LEMMA AmbientTypes == ASSUME TypeOK, Ambient PROVE TypeOK'
  <1>1. ASSUME NEW e \in Runs, Deadline(e) \/ Overdue(e) PROVE TypeOK'
    <2>1. age' \in [Runs -> 0 .. 2]
      BY <1>1 DEF Deadline, Overdue, TypeOK
    <2>0. ctxDone' \in [Runs -> BOOLEAN]
      <3>1. \/ ctxDone' = [ctxDone EXCEPT ![e] = (worker[e].at # "none")]
            \/ ctxDone' = ctxDone
        BY <1>1 DEF Deadline, Overdue, Registered
      <3>2. QED
        BY <3>1 DEF TypeOK
    <2>2. UNCHANGED <<rows, createLock, creator, canceller, worker, process, history>>
      BY <1>1 DEF Deadline, Overdue
    <2>3. QED
      BY <2>0, <2>1, <2>2 DEF TypeOK, rows, process, history
  <1>2. ASSUME NEW e \in Runs, Cleanup(e) PROVE TypeOK'
    <2>1. EndRows(e, "interrupted") /\ UNCHANGED <<others, worker, history>>
      BY <1>2 DEF Cleanup
    <2>2. RowsOK /\ "interrupted" \in Ended
      BY DEF TypeOK, RowsOK, TrialStatus, Ended
    <2>3. RowsOK'
      BY <2>1, <2>2, EndRowsEffect
    <2>4. QED
      BY <2>1, <2>3 DEF TypeOK, RowsOK, TrialStatus, others, process, history
  <1>3. ASSUME NEW e \in Runs, Forget(e) PROVE TypeOK'
    <2>1. NoTrials \in [Trials -> TrialStatus] /\ 0 \in 0 .. Cardinality(Trials)
      BY TrialsFinite DEF NoTrials, TrialStatus
    <2>2. /\ status' \in [Runs -> {"none"} \cup Active \cup Ended]
          /\ trial' \in [Runs -> [Trials -> TrialStatus]]
          /\ completed' \in [Runs -> 0 .. Cardinality(Trials)]
          /\ age' \in [Runs -> 0 .. 2] /\ answered' \in [Runs -> BOOLEAN]
      BY <1>3, <2>1 DEF Forget, TypeOK, TrialStatus
    <2>3. UNCHANGED <<createLock, creator, canceller, worker, ctxDone, process, booked>>
      BY <1>3 DEF Forget
    <2>4. QED
      BY <2>2, <2>3 DEF TypeOK, process, TrialStatus
  <1>4. ASSUME Close PROVE TypeOK'
    BY <1>4 DEF Close, Registered, TypeOK, rows, history
  <1>5. ASSUME Stopped \/ Crash PROVE TypeOK'
    <2>1. restarts < MaxRestarts /\ Vanish
      BY <1>5 DEF Stopped, Crash, TypeOK
    <2>2. worker' \in [Runs -> Worker]
      BY <2>1, IdleType DEF Vanish
    <2>3. restarts' \in 0 .. MaxRestarts
      BY <2>1, PlanAssumption DEF Vanish, TypeOK
    <2>4. QED
      BY <2>1, <2>2, <2>3, PlanAssumption DEF Vanish, TypeOK, rows
  <1>6. ASSUME Recover PROVE TypeOK'
    <2> DEFINE T(e) == IF status[e] \in Active \cup {"cancelled"} THEN Closed(trial[e]) ELSE trial[e]
    <2>1. /\ trial' = [e \in Runs |-> T(e)]
          /\ completed' = [e \in Runs |-> IF status[e] \in Active \cup {"cancelled"}
                                            THEN Counted(T(e)) ELSE completed[e]]
          /\ status' = [e \in Runs |-> IF status[e] \in Active THEN "interrupted" ELSE status[e]]
          /\ proc' = "up"
          /\ UNCHANGED <<age, createLock, creator, canceller, worker, ctxDone, restarts, history>>
      BY <1>6 DEF Recover
    <2>2. \A e \in Runs : T(e) \in [Trials -> TrialStatus]
      BY ClosedType DEF TypeOK, TrialStatus
    <2> HIDE DEF T
    <2>3. trial' \in [Runs -> [Trials -> TrialStatus]]
      BY <2>1, <2>2
    <2>4. completed' \in [Runs -> 0 .. Cardinality(Trials)]
      <3>1. \A e \in Runs : (IF status[e] \in Active \cup {"cancelled"}
                              THEN Counted(T(e)) ELSE completed[e]) \in 0 .. Cardinality(Trials)
        BY CountedType DEF TypeOK
      <3>2. QED
        BY <2>1, <3>1
    <2>5. status' \in [Runs -> {"none"} \cup Active \cup Ended]
      BY <2>1 DEF TypeOK, Active, Ended
    <2>6. QED
      BY <2>1, <2>3, <2>4, <2>5 DEF TypeOK, TrialStatus, history
  <1>7. QED
    BY <1>1, <1>2, <1>3, <1>4, <1>5, <1>6 DEF Ambient

-----------------------------------------------------------------------------
(***************************************************************************)
(* What all steps of a worker have in common.                              *)
(***************************************************************************)
WorkStep(e) ==
    /\ TypeOK' /\ WorkerOnly(e)
    /\ worker[e].at # "none"
    /\ UNCHANGED <<age, createLock, creator, canceller, process>>
    /\ \A f \in Runs \ {e} : status'[f] = status[f]
    /\ \/ status' = status
       \/ status[e] = "queued" /\ status'[e] = "running"
       \/ status[e] # "cancelled" /\ status'[e] \in Ended /\ worker'[e].at = "exit"
    /\ worker[e].at = "exit" => worker'[e].at = "none"
    /\ worker'[e].at \in Working => status'[e] # "queued"

LEMMA WorkStepEffect == ASSUME Lifecycle, NEW e \in Runs, Work(e) PROVE WorkStep(e)
  <1>1. TypeOK /\ Phase(e) /\ status \in [Runs -> {"none"} \cup Active \cup Ended]
    BY DEF Lifecycle, TypeOK
  <1>2. CASE Begin(e)
    <2>1. /\ TypeOK' /\ WorkerOnly(e) /\ worker[e].at = "start"
          /\ \/ /\ status' = [status EXCEPT ![e] = IF @ = "queued" THEN "running" ELSE @]
                /\ worker'[e].at \in {"check", "finish"}
             \/ status' = status /\ worker'[e].at = "finish"
          /\ UNCHANGED others
      BY <1>1, <1>2, BeginEffect
    <2>2. /\ \A f \in Runs \ {e} : status'[f] = status[f]
          /\ status' = status \/ (status[e] = "queued" /\ status'[e] = "running")
          /\ worker'[e].at # "finish" => status'[e] # "queued"
      <3>1. CASE status[e] = "queued"
        BY <1>1, <2>1, <3>1
      <3>2. CASE status[e] # "queued"
        <4>1. status' = status
          BY <1>1, <2>1, <3>2
        <4>2. QED
          BY <3>2, <4>1
      <3>3. QED
        BY <3>1, <3>2
    <2>3. QED
      BY <2>1, <2>2 DEF WorkStep, others, Working
  <1>3. CASE Check(e)
    <2>1. status[e] \notin {"none", "queued"}
      BY <1>1, <1>3 DEF Check, Phase, Working, Active
    <2>2. /\ TypeOK' /\ WorkerOnly(e) /\ worker[e].at = "check"
          /\ worker'[e].at \in {"finish", "wait"} /\ UNCHANGED <<rows, others>>
      BY <1>1, <1>3, <2>1, CheckEffect
    <2>3. QED
      BY <2>1, <2>2 DEF WorkStep, rows, others, Working
  <1>4. CASE Mark(e) \/ Send(e) \/ Return(e) \/ Write(e) \/ Costs(e)
    <2>1. /\ TypeOK' /\ WorkerOnly(e) /\ worker[e].at \in Working
          /\ worker'[e].at \notin {"none", "exit"} /\ UNCHANGED <<status, others>>
      <3>1. CASE Mark(e)
        BY <1>1, <3>1, MarkEffect DEF Working
      <3>2. CASE Send(e)
        BY <1>1, <3>2, SendEffect DEF Working, rows
      <3>3. CASE Return(e)
        BY <1>1, <3>3, ReturnEffect DEF Working, rows
      <3>4. CASE Write(e)
        BY <1>1, <3>4, WriteEffect DEF Working
      <3>5. CASE Costs(e)
        BY <1>1, <3>5, CostsEffect DEF Working, rows
      <3>6. QED
        BY <1>4, <3>1, <3>2, <3>3, <3>4, <3>5
    <2>2. status[e] # "queued"
      BY <1>1, <2>1 DEF Phase
    <2>3. QED
      BY <2>1, <2>2 DEF WorkStep, others, Working
  <1>5. CASE FinishRun(e)
    <2>1. /\ TypeOK' /\ WorkerOnly(e) /\ worker[e].at = "finish" /\ worker'[e].at = "exit"
          /\ UNCHANGED <<others, history>>
      BY <1>1, <1>5, FinishRunEffect
    <2>2. PICK s \in Ended : Finish(e, s)
      BY <1>1, <1>5, FinishRunEffect
    <2>3. \/ status' = status
          \/ status[e] # "cancelled" /\ status' = [status EXCEPT ![e] = s]
      BY <1>1, <2>2, FinishEffect DEF TypeOK, RowsOK, TrialStatus
    <2>4. QED
      BY <1>1, <2>1, <2>3 DEF WorkStep, others, Working
  <1>6. CASE Exit(e)
    BY <1>1, <1>6, ExitEffect DEF WorkStep, rows, Working
  <1>7. QED
    BY <1>2, <1>3, <1>4, <1>5, <1>6 DEF Work

(***************************************************************************)
(* Where everybody is, action by action.                                   *)
(***************************************************************************)
LEMMA WorkLifecycle == ASSUME Lifecycle, NEW e \in Runs, Work(e) PROVE Lifecycle'
  <1>1. WorkStep(e) /\ TypeOK
    BY WorkStepEffect DEF Lifecycle
  <1>2. Phase(e) /\ Alone /\ Quiet /\ \A f \in Runs : Phase(f)
    BY DEF Lifecycle
  <1>3. ASSUME NEW f \in Runs, f # e PROVE Phase(f)'
    BY <1>1, <1>2, <1>3 DEF Phase, WorkStep, WorkerOnly
  <1>4. Phase(e)'
    <2>1. status[e] # "none" /\ creator[e] = "none" /\ age[e] # 2
      BY <1>1, <1>2 DEF WorkStep, Phase
    <2>2. status'[e] # "none" /\ creator'[e] = "none" /\ age'[e] # 2
      BY <1>1, <2>1 DEF WorkStep, Ended
    <2>3. canceller'[e] # "none" => status'[e] = "cancelled"
      BY <1>1, <1>2 DEF WorkStep, Phase
    <2>4. worker'[e].at \notin {"none", "exit"} => status'[e] \in Active \cup {"cancelled"}
      BY <1>1, <1>2 DEF WorkStep, Phase, Active
    <2>5. QED
      BY <1>1, <2>2, <2>3, <2>4 DEF Phase, WorkStep
  <1>5. Alone'
    <2>1. \A f \in Runs : status'[f] \in Active => status[f] \in Active
      BY <1>1 DEF WorkStep, Active, Ended
    <2>2. QED
      BY <1>1, <1>2, <2>1 DEF Alone, WorkStep
  <1>6. Quiet'
    BY <1>1, <1>2 DEF Quiet, WorkStep, process
  <1>7. QED
    BY <1>1, <1>3, <1>4, <1>5, <1>6 DEF Lifecycle, WorkStep

\* one run changes, in what Phase looks at
OnlyRun(e) == \A f \in Runs \ {e} :
    /\ status'[f] = status[f] /\ age'[f] = age[f] /\ worker'[f] = worker[f]
    /\ creator'[f] = creator[f] /\ canceller'[f] = canceller[f]

LEMMA OnlyRunPhase ==
    ASSUME NEW e \in Runs, OnlyRun(e), \A f \in Runs : Phase(f), Phase(e)'
    PROVE  \A f \in Runs : Phase(f)'
  BY DEF OnlyRun, Phase

LEMMA HandlerLifecycle == ASSUME Lifecycle, NEW e \in Runs, Handler(e) PROVE Lifecycle'
  <1>1. TypeOK /\ TypeOK' /\ Alone /\ Quiet /\ Phase(e) /\ \A f \in Runs : Phase(f)
    BY HandlerTypes DEF Lifecycle
  <1>2. CASE TakeLock(e) \/ Refuse(e) \/ Insert(e)
    <2>1. /\ UNCHANGED <<status, age, canceller, worker, proc>>
          /\ creator[e] # "none" \/ proc = "up"
          /\ \/ creator' = [creator EXCEPT ![e] = "locked"] /\ status[e] = "none"
             \/ creator' = [creator EXCEPT ![e] = "none"] /\ creator[e] \in {"locked", "inserted"}
             \/ /\ creator' = [creator EXCEPT ![e] = "inserted"] /\ status[e] = "none"
                /\ \A f \in Runs : status[f] \notin Active
      BY <1>1, <1>2 DEF TakeLock, Refuse, Insert, rows, process, Phase
    <2>2. OnlyRun(e) /\ Phase(e)'
      BY <1>1, <2>1 DEF OnlyRun, Phase, TypeOK
    <2>3. Alone' /\ Quiet'
      BY <1>1, <2>1 DEF Alone, Quiet, TypeOK
    <2>4. QED
      BY <1>1, <2>2, <2>3, OnlyRunPhase DEF Lifecycle
  <1>3. CASE CommitRun(e)
    <2>1. /\ UNCHANGED <<age, canceller, worker, proc>> /\ creator[e] = "inserted"
          /\ status' = [status EXCEPT ![e] = "queued"]
          /\ \E c \in {"created", "none"} : creator' = [creator EXCEPT ![e] = c]
      BY <1>3 DEF CommitRun, process
    <2>2. OnlyRun(e) /\ Phase(e)'
      BY <1>1, <2>1 DEF OnlyRun, Phase, TypeOK, Active, Working
    <2>3. Alone'
      <3>1. \A f \in Runs : status[f] \notin Active /\ (f # e => status'[f] \notin Active)
        BY <1>1, <2>1 DEF Alone, TypeOK
      <3>2. \A f \in Runs : creator'[f] # "inserted"
        BY <1>1, <2>1 DEF TypeOK
      <3>3. QED
        BY <3>1, <3>2 DEF Alone
    <2>4. Quiet'
      BY <1>1, <2>1 DEF Quiet
    <2>5. QED
      BY <1>1, <2>2, <2>3, <2>4, OnlyRunPhase DEF Lifecycle
  <1>4. CASE Launch(e)
    <2>1. /\ UNCHANGED <<status, age, canceller, proc>> /\ creator[e] = "created" /\ proc = "up"
          /\ creator' = [creator EXCEPT ![e] = "none"]
          /\ worker' = [worker EXCEPT ![e] = [Idle EXCEPT !.at = "start"]]
      BY <1>4 DEF Launch, rows, process
    <2>2. worker'[e].at = "start" /\ \A f \in Runs \ {e} : worker'[f] = worker[f]
      BY <1>1, <2>1 DEF TypeOK, Idle
    <2>3. OnlyRun(e) /\ Phase(e)'
      BY <1>1, <2>1, <2>2 DEF OnlyRun, Phase, TypeOK, Active, Working
    <2>4. Alone' /\ Quiet'
      BY <1>1, <2>1 DEF Alone, Quiet, TypeOK
    <2>5. QED
      BY <1>1, <2>3, <2>4, OnlyRunPhase DEF Lifecycle
  <1>5. CASE LaunchRefused(e) \/ CancelFinish(e)
    <2>1. PICK s \in Ended : Finish(e, s)
      BY <1>5 DEF LaunchRefused, CancelFinish, Ended
    <2>2. /\ UNCHANGED <<age, worker, proc>>
          /\ \/ /\ creator[e] = "created" /\ creator' = [creator EXCEPT ![e] = "none"]
                /\ canceller' = canceller
             \/ /\ canceller[e] = "finishing" /\ canceller' = [canceller EXCEPT ![e] = "none"]
                /\ creator' = creator
      BY <1>5 DEF LaunchRefused, CancelFinish, process
    <2>3. \/ status' = status
          \/ status[e] # "cancelled" /\ status' = [status EXCEPT ![e] = s]
      BY <1>1, <2>1, FinishEffect DEF TypeOK, RowsOK, TrialStatus
    <2>4. /\ \A f \in Runs \ {e} : status'[f] = status[f]
          /\ \/ status'[e] = status[e]
             \/ status[e] = "queued" /\ status'[e] \in Ended /\ creator[e] = "created"
      <3>1. status[e] = "cancelled" \/ (status[e] = "queued" /\ creator[e] = "created")
        BY <1>1, <2>2 DEF Phase
      <3>2. status \in [Runs -> {"none"} \cup Active \cup Ended] /\ s \in Ended
        BY <1>1 DEF TypeOK
      <3>3. QED
        BY <2>3, <3>1, <3>2
    <2>5. OnlyRun(e) /\ Phase(e)'
      BY <1>1, <2>2, <2>4 DEF OnlyRun, Phase, TypeOK, Ended
    <2>6. Alone'
      <3>1. \A f \in Runs : status'[f] \in Active => status[f] \in Active
        BY <2>4 DEF Active, Ended
      <3>2. \A f \in Runs : creator'[f] = "inserted" => creator[f] = "inserted"
        BY <1>1, <2>2 DEF TypeOK
      <3>3. QED
        BY <1>1, <3>1, <3>2 DEF Alone
    <2>7. Quiet'
      BY <1>1, <2>2 DEF Quiet
    <2>8. QED
      BY <1>1, <2>5, <2>6, <2>7, OnlyRunPhase DEF Lifecycle
  <1>6. CASE Cancel(e)
    <2>1. /\ UNCHANGED <<age, creator, worker, proc>> /\ proc # "down" /\ status[e] \in Active
          /\ status' = [status EXCEPT ![e] = "cancelled"]
          /\ \E c \in {"committed", "none"} : canceller' = [canceller EXCEPT ![e] = c]
      BY <1>6 DEF Cancel, process
    <2>2. /\ \A f \in Runs \ {e} : status'[f] = status[f] /\ canceller'[f] = canceller[f]
          /\ status'[e] = "cancelled"
      BY <1>1, <2>1 DEF TypeOK
    <2>3. OnlyRun(e) /\ Phase(e)'
      BY <1>1, <2>1, <2>2 DEF OnlyRun, Phase, Active
    <2>4. Alone' /\ Quiet'
      BY <1>1, <2>1, <2>2 DEF Alone, Quiet, Active
    <2>5. QED
      BY <1>1, <2>3, <2>4, OnlyRunPhase DEF Lifecycle
  <1>7. CASE CancelWorker(e) \/ CancelIdle(e)
    <2>1. /\ UNCHANGED <<status, age, creator, worker, proc>> /\ canceller[e] = "committed"
          /\ \E c \in {"finishing", "none"} : canceller' = [canceller EXCEPT ![e] = c]
      BY <1>7 DEF CancelWorker, CancelIdle, rows, process
    <2>2. OnlyRun(e) /\ Phase(e)'
      BY <1>1, <2>1 DEF OnlyRun, Phase, TypeOK
    <2>3. Alone' /\ Quiet'
      BY <1>1, <2>1 DEF Alone, Quiet
    <2>4. QED
      BY <1>1, <2>2, <2>3, OnlyRunPhase DEF Lifecycle
  <1>8. QED
    BY <1>2, <1>3, <1>4, <1>5, <1>6, <1>7 DEF Handler

LEMMA AmbientLifecycle == ASSUME Lifecycle, Ambient PROVE Lifecycle'
  <1>1. TypeOK /\ TypeOK' /\ Alone /\ Quiet /\ \A f \in Runs : Phase(f)
    BY AmbientTypes DEF Lifecycle
  <1>2. ASSUME NEW e \in Runs, Deadline(e) \/ Overdue(e) PROVE Lifecycle'
    <2>1. /\ UNCHANGED <<status, creator, canceller, worker, proc>>
          /\ status[e] # "none" /\ creator[e] = "none"
          /\ \/ age' = [age EXCEPT ![e] = 1]
             \/ age' = [age EXCEPT ![e] = 2] /\ worker[e].at = "none"
      BY <1>1, <1>2 DEF Deadline, Overdue, rows, process, Phase
    <2>2. OnlyRun(e) /\ Phase(e)'
      BY <1>1, <2>1 DEF OnlyRun, Phase, TypeOK
    <2>3. Alone' /\ Quiet'
      BY <1>1, <2>1 DEF Alone, Quiet
    <2>4. QED
      BY <1>1, <2>2, <2>3, OnlyRunPhase DEF Lifecycle
  <1>3. ASSUME NEW e \in Runs, Cleanup(e) \/ Forget(e) PROVE Lifecycle'
    <2>1. /\ UNCHANGED <<creator, canceller, worker, proc>> /\ age[e] = 2
          /\ \/ status[e] \in Active /\ status' = [status EXCEPT ![e] = "interrupted"] /\ age' = age
             \/ /\ canceller[e] = "none"
                /\ status' = [status EXCEPT ![e] = "none"] /\ age' = [age EXCEPT ![e] = 0]
      BY <1>3 DEF Cleanup, Forget, EndRows, others, process
    <2>2. worker[e].at = "none" /\ creator[e] = "none" /\ canceller[e] = "none"
      BY <1>1, <2>1 DEF Phase, Active
    <2>3. OnlyRun(e) /\ Phase(e)'
      BY <1>1, <2>1, <2>2 DEF OnlyRun, Phase, TypeOK, Working
    <2>4. \A f \in Runs : status'[f] \in Active => status[f] \in Active
      BY <1>1, <2>1 DEF TypeOK, Active
    <2>5. Alone' /\ Quiet'
      BY <1>1, <2>1, <2>4 DEF Alone, Quiet
    <2>6. QED
      BY <1>1, <2>3, <2>5, OnlyRunPhase DEF Lifecycle
  <1>4. ASSUME Close PROVE Lifecycle'
    BY <1>1, <1>4 DEF Lifecycle, Close, Phase, Alone, Quiet, rows
  <1>5. ASSUME Stopped \/ Crash PROVE Lifecycle'
    <2>1. /\ UNCHANGED <<status, age>>
          /\ \A e \in Runs : creator'[e] = "none" /\ canceller'[e] = "none" /\ worker'[e].at = "none"
      BY <1>5 DEF Stopped, Crash, Vanish, rows, Idle
    <2>2. QED
      BY <1>1, <2>1 DEF Lifecycle, Phase, Alone, Quiet, Working
  <1>6. ASSUME Recover PROVE Lifecycle'
    <2>1. /\ UNCHANGED <<age, creator, canceller, worker>> /\ proc' = "up" /\ proc = "down"
          /\ \A e \in Runs : status'[e] = IF status[e] \in Active THEN "interrupted" ELSE status[e]
      BY <1>6 DEF Recover
    <2>2. \A e \in Runs : creator[e] = "none" /\ canceller[e] = "none" /\ worker[e].at = "none"
      BY <1>1, <2>1 DEF Quiet
    <2>3. \A e \in Runs : status'[e] \notin Active /\ (status'[e] = "none" => status[e] = "none")
      BY <2>1 DEF Active
    <2>4. QED
      BY <1>1, <2>1, <2>2, <2>3 DEF Lifecycle, Phase, Alone, Quiet, Working
  <1>7. QED
    BY <1>2, <1>3, <1>4, <1>5, <1>6 DEF Ambient

LEMMA NextSplit == Next <=> (\E e \in Runs : Handler(e) \/ Work(e)) \/ Ambient
  BY DEF Next, Ambient

LEMMA NextLifecycle == Lifecycle /\ [Next]_vars => Lifecycle'
  <1>1. ASSUME Lifecycle, UNCHANGED vars PROVE Lifecycle'
    <2>1. TypeOK'
      BY <1>1, SameTypes DEF Lifecycle
    <2>2. QED
      BY <1>1, <2>1 DEF Lifecycle, Phase, Alone, Quiet, vars, rows, process
  <1>2. QED
    BY <1>1, NextSplit, HandlerLifecycle, WorkLifecycle, AmbientLifecycle

LEMMA InitLifecycle == Init => Lifecycle
  BY InitTypes DEF Init, Lifecycle, Phase, Alone, Quiet, Active, Idle, Working

(***************************************************************************)
(* TypeOK holds in every reachable state: a worker never points past its   *)
(* last trial or retry, and completed never past the number of trials.     *)
(***************************************************************************)
THEOREM EvaluationTypeCorrect == SafeSpec => []TypeOK
  <1>1. Lifecycle => TypeOK
    BY DEF Lifecycle
  <1>2. QED
    BY <1>1, InitLifecycle, NextLifecycle, PTL DEF SafeSpec

-----------------------------------------------------------------------------
(***************************************************************************)
(* The tally of a run: either its rows stay, or it has not ended or was    *)
(* cancelled, or the step has just counted it.                             *)
(***************************************************************************)
RowsKept(e) == status'[e] = status[e] /\ trial'[e] = trial[e] /\ completed'[e] = completed[e]

LEMMA RowsKeptTally == ASSUME NEW e \in Runs, Tally(e), RowsKept(e) PROVE Tally(e)'
  BY DEF Tally, RowsKept, Counted

LEMMA UntalliedTally ==
    ASSUME NEW e \in Runs, status'[e] \in {"none", "cancelled"} \cup Active PROVE Tally(e)'
  BY DEF Tally, Active, Ended

LEMMA FinishTally ==
    ASSUME TypeOK, Tallied, NEW e \in Runs, NEW s \in Ended, Finish(e, s)
    PROVE  Tallied'
  <1>1. RowsOK /\ \A f \in Runs : Tally(f)
    BY DEF TypeOK, RowsOK, TrialStatus, Tallied, Tally
  <1>2. /\ Tally(e)'
        /\ status' = status \/ status' = [status EXCEPT ![e] = s]
        /\ \A f \in Runs \ {e} : trial'[f] = trial[f] /\ completed'[f] = completed[f]
    BY <1>1, FinishEffect
  <1>3. \A f \in Runs \ {e} : RowsKept(f)
    BY <1>1, <1>2 DEF RowsKept, RowsOK
  <1>4. QED
    BY <1>1, <1>2, <1>3, RowsKeptTally DEF Tallied, Tally

LEMMA HandlerTally == ASSUME Lifecycle, Tallied, NEW e \in Runs, Handler(e) PROVE Tallied'
  <1>1. TypeOK /\ \A f \in Runs : Tally(f)
    BY DEF Lifecycle, Tallied, Tally
  <1>2. CASE \E s \in Ended : Finish(e, s)
    BY <1>1, <1>2, FinishTally
  <1>3. CASE UNCHANGED rows
    <2>1. \A f \in Runs : RowsKept(f)
      BY <1>3 DEF RowsKept, rows
    <2>2. QED
      BY <1>1, <2>1, RowsKeptTally DEF Tallied, Tally
  <1>4. CASE /\ status' = [status EXCEPT ![e] = "queued"] \/ status' = [status EXCEPT ![e] = "cancelled"]
             /\ UNCHANGED <<trial, completed>>
    <2>1. status'[e] \in {"none", "cancelled"} \cup Active
      BY <1>1, <1>4 DEF TypeOK, Active
    <2>2. \A f \in Runs \ {e} : RowsKept(f)
      BY <1>1, <1>4 DEF RowsKept, TypeOK
    <2>3. QED
      BY <1>1, <2>1, <2>2, RowsKeptTally, UntalliedTally DEF Tallied, Tally
  <1>5. \/ \E s \in Ended : Finish(e, s)
        \/ UNCHANGED rows
        \/ /\ status' = [status EXCEPT ![e] = "queued"] \/ status' = [status EXCEPT ![e] = "cancelled"]
           /\ UNCHANGED <<trial, completed>>
    <2>1. "interrupted" \in Ended /\ "cancelled" \in Ended
      BY DEF Ended
    <2>2. QED
      BY <2>1 DEF Handler, TakeLock, Refuse, Insert, CommitRun, Launch, LaunchRefused,
                  Cancel, CancelWorker, CancelIdle, CancelFinish
  <1>6. QED
    BY <1>2, <1>3, <1>4, <1>5

LEMMA WorkTally == ASSUME Lifecycle, Tallied, NEW e \in Runs, Work(e) PROVE Tallied'
  <1>1. TypeOK /\ Phase(e) /\ \A f \in Runs : Tally(f)
    BY DEF Lifecycle, Tallied, Tally
  <1>2. CASE FinishRun(e)
    <2>1. \E s \in Ended : Finish(e, s)
      BY <1>1, <1>2, FinishRunEffect
    <2>2. QED
      BY <1>1, <2>1, FinishTally
  <1>3. CASE Check(e) \/ Send(e) \/ Return(e) \/ Costs(e) \/ Exit(e)
    <2>1. \A f \in Runs : RowsKept(f)
      BY <1>3 DEF Check, Send, Return, Costs, Exit, RowsKept, rows
    <2>2. QED
      BY <1>1, <2>1, RowsKeptTally DEF Tallied, Tally
  <1>4. CASE Begin(e) \/ Mark(e) \/ Write(e)
    <2>1. status[e] \in Active \cup {"cancelled"}
      BY <1>1, <1>4 DEF Begin, Mark, Write, Phase
    <2>2. status'[e] \in {"none", "cancelled"} \cup Active
      BY <1>1, <1>4, <2>1 DEF Begin, Mark, Write, TypeOK, Active
    <2>3. \A f \in Runs \ {e} : trial'[f] = trial[f] /\ completed'[f] = completed[f]
      BY <1>1, <1>4, BeginEffect, MarkEffect, WriteEffect
    <2>4. \A f \in Runs \ {e} : status'[f] = status[f]
      BY WorkStepEffect DEF WorkStep
    <2>5. QED
      BY <1>1, <2>2, <2>3, <2>4, RowsKeptTally, UntalliedTally DEF Tallied, Tally, RowsKept
  <1>5. QED
    BY <1>2, <1>3, <1>4 DEF Work

LEMMA AmbientTally == ASSUME Lifecycle, Tallied, Ambient PROVE Tallied'
  <1>1. TypeOK /\ RowsOK /\ \A f \in Runs : Tally(f)
    BY DEF Lifecycle, Tallied, Tally, TypeOK, RowsOK, TrialStatus
  <1>2. CASE UNCHANGED rows
    <2>1. \A f \in Runs : RowsKept(f)
      BY <1>2 DEF RowsKept, rows
    <2>2. QED
      BY <1>1, <2>1, RowsKeptTally DEF Tallied, Tally
  <1>3. ASSUME NEW e \in Runs, Cleanup(e) PROVE Tallied'
    <2>1. EndRows(e, "interrupted") /\ "interrupted" \in Ended
      BY <1>3 DEF Cleanup, Ended
    <2>2. /\ Tally(e)' /\ status' = [status EXCEPT ![e] = "interrupted"]
          /\ \A f \in Runs \ {e} : trial'[f] = trial[f] /\ completed'[f] = completed[f]
      BY <1>1, <2>1, EndRowsEffect
    <2>3. \A f \in Runs \ {e} : RowsKept(f)
      BY <2>2 DEF RowsKept
    <2>4. QED
      BY <1>1, <2>2, <2>3, RowsKeptTally DEF Tallied, Tally
  <1>4. ASSUME NEW e \in Runs, Forget(e) PROVE Tallied'
    <2>1. status'[e] \in {"none", "cancelled"} \cup Active /\ \A f \in Runs \ {e} : RowsKept(f)
      BY <1>1, <1>4 DEF Forget, RowsKept, RowsOK
    <2>2. QED
      BY <1>1, <2>1, RowsKeptTally, UntalliedTally DEF Tallied, Tally
  <1>5. ASSUME Recover PROVE Tallied'
    <2>1. SUFFICES ASSUME NEW e \in Runs PROVE Tally(e)'
      BY DEF Tallied, Tally
    <2>2. CASE status[e] \in Active
      <3>1. /\ status'[e] = "interrupted" /\ trial'[e] = Closed(trial[e])
            /\ completed'[e] = Counted(Closed(trial[e]))
        BY <1>5, <2>2 DEF Recover
      <3>2. \A i \in Trials : Closed(trial[e])[i] \notin {"pending", "running"}
        BY <1>1, ClosedType DEF RowsOK
      <3>3. QED
        BY <3>1, <3>2 DEF Tally, Counted
    <2>3. CASE status[e] = "cancelled"
      <3>1. status'[e] = "cancelled"
        BY <1>5, <2>3 DEF Recover, Active
      <3>2. QED
        BY <3>1, UntalliedTally
    <2>4. CASE status[e] \notin Active \cup {"cancelled"}
      <3>1. RowsKept(e)
        BY <1>5, <2>4 DEF Recover, RowsKept
      <3>2. QED
        BY <1>1, <3>1, RowsKeptTally
    <2>5. QED
      BY <2>2, <2>3, <2>4
  <1>6. ASSUME NEW e \in Runs, Deadline(e) \/ Overdue(e) PROVE UNCHANGED rows
    BY <1>6 DEF Deadline, Overdue
  <1>7. ASSUME Close \/ Stopped \/ Crash PROVE UNCHANGED rows
    BY <1>7 DEF Close, Stopped, Crash, Vanish
  <1>8. QED
    BY <1>2, <1>3, <1>4, <1>5, <1>6, <1>7 DEF Ambient

(***************************************************************************)
(* A run that has ended for another reason than a cancellation has no      *)
(* trial left open and the number of those called (finishEvaluation,       *)
(* cleanupEvaluations, RecoverEvaluations).                                *)
(***************************************************************************)
THEOREM EvaluationTallied == SafeSpec => []Tallied
  <1>1. Init => Tallied
    BY DEF Init, Tallied, Ended
  <1>2. Lifecycle /\ Tallied /\ [Next]_vars => Tallied'
    <2>1. ASSUME Tallied, UNCHANGED vars PROVE Tallied'
      BY <2>1 DEF Tallied, Counted, vars, rows
    <2>2. QED
      BY <2>1, NextSplit, HandlerTally, WorkTally, AmbientTally
  <1>3. QED
    BY <1>1, <1>2, InitLifecycle, NextLifecycle, PTL DEF SafeSpec

-----------------------------------------------------------------------------
(***************************************************************************)
(* Who has been told, and what has been spent.                             *)
(***************************************************************************)
SafeSends == \A e \in Runs : Told(e) /\ Books(e)

\* one run changes, in what Told and Books look at
OnlySends(e) == \A f \in Runs \ {e} :
    /\ status'[f] = status[f] /\ worker'[f] = worker[f] /\ canceller'[f] = canceller[f]
    /\ answered'[f] = answered[f] /\ ctxDone'[f] = ctxDone[f] /\ booked'[f] = booked[f]

LEMMA OnlySendsSafe ==
    ASSUME NEW e \in Runs, OnlySends(e), SafeSends, Told(e)', Books(e)'
    PROVE  SafeSends'
  BY DEF OnlySends, SafeSends, Told, Books, Charged

LEMMA HandlerSends == ASSUME Lifecycle, SafeSends, NEW e \in Runs, Handler(e) PROVE SafeSends'
  <1>1. TypeOK /\ Phase(e) /\ Told(e) /\ Books(e)
    BY DEF Lifecycle, SafeSends
  <1>2. CASE TakeLock(e) \/ Refuse(e) \/ Insert(e)
    <2>1. UNCHANGED <<status, worker, canceller, answered, ctxDone, booked>>
      BY <1>2 DEF TakeLock, Refuse, Insert, rows, history
    <2>2. QED
      BY <2>1 DEF SafeSends, Told, Books, Charged
  <1>3. CASE CommitRun(e)
    <2>1. /\ UNCHANGED <<worker, canceller, answered, ctxDone, booked>>
          /\ status[e] = "none" /\ status' = [status EXCEPT ![e] = "queued"]
      BY <1>1, <1>3 DEF CommitRun, Phase, history
    <2>2. ~(canceller[e] = "finishing" \/ answered[e])
      BY <1>1, <2>1 DEF Told
    <2>3. OnlySends(e) /\ Told(e)' /\ Books(e)'
      BY <1>1, <2>1, <2>2 DEF OnlySends, Told, Books, Charged, TypeOK
    <2>4. QED
      BY <2>3, OnlySendsSafe
  <1>4. CASE Launch(e)
    <2>1. /\ UNCHANGED <<status, canceller, answered, booked>>
          /\ ctxDone' = [ctxDone EXCEPT ![e] = FALSE]
          /\ worker' = [worker EXCEPT ![e] = [Idle EXCEPT !.at = "start"]]
          /\ worker[e].at = "none"
      BY <1>1, <1>4 DEF Launch, Phase, rows, history
    <2>2. worker'[e].at = "start" /\ worker'[e].spent = 0
      BY <1>1, <2>1 DEF TypeOK, Idle
    <2>3. OnlySends(e) /\ Told(e)' /\ Books(e)'
      BY <1>1, <2>1, <2>2 DEF OnlySends, Told, Books, TypeOK
    <2>4. QED
      BY <2>3, OnlySendsSafe
  <1>5. CASE LaunchRefused(e)
    <2>1. /\ UNCHANGED <<canceller, worker, answered, ctxDone, booked>> /\ worker[e].at = "none"
          /\ Finish(e, "interrupted") /\ "interrupted" \in Ended
      BY <1>1, <1>5 DEF LaunchRefused, Phase, history, Ended
    <2>2. \/ status' = status
          \/ status[e] # "cancelled" /\ status' = [status EXCEPT ![e] = "interrupted"]
      BY <1>1, <2>1, FinishEffect DEF TypeOK, RowsOK, TrialStatus
    <2>3. OnlySends(e) /\ Told(e)' /\ Books(e)'
      BY <1>1, <2>1, <2>2 DEF OnlySends, Told, Books, Charged, TypeOK
    <2>4. QED
      BY <2>3, OnlySendsSafe
  <1>6. CASE Cancel(e)
    <2>1. /\ UNCHANGED <<worker, answered, ctxDone, booked>> /\ status[e] \in Active
          /\ status' = [status EXCEPT ![e] = "cancelled"]
          /\ \E c \in {"committed", "none"} : canceller' = [canceller EXCEPT ![e] = c]
      BY <1>6 DEF Cancel, history
    <2>2. ~answered[e]
      BY <1>1, <2>1 DEF Told, Active
    <2>3. OnlySends(e) /\ Told(e)' /\ Books(e)'
      BY <1>1, <2>1, <2>2 DEF OnlySends, Told, Books, Charged, TypeOK
    <2>4. QED
      BY <2>3, OnlySendsSafe
  <1>7. CASE CancelWorker(e)
    <2>1. /\ UNCHANGED <<status, worker, booked>> /\ status[e] = "cancelled"
          /\ ctxDone' = [ctxDone EXCEPT ![e] = TRUE]
          /\ canceller' = [canceller EXCEPT ![e] = "none"]
          /\ answered' = [answered EXCEPT ![e] = TRUE]
      BY <1>1, <1>7 DEF CancelWorker, Phase, rows
    <2>2. OnlySends(e) /\ Told(e)' /\ Books(e)'
      BY <1>1, <2>1 DEF OnlySends, Told, Books, Charged, TypeOK
    <2>3. QED
      BY <2>2, OnlySendsSafe
  <1>8. CASE CancelIdle(e)
    <2>1. /\ UNCHANGED <<status, worker, ctxDone, answered, booked>>
          /\ status[e] = "cancelled" /\ worker[e].at = "none"
          /\ canceller' = [canceller EXCEPT ![e] = "finishing"]
      BY <1>1, <1>8 DEF CancelIdle, Registered, Phase, rows, history
    <2>2. OnlySends(e) /\ Told(e)' /\ Books(e)'
      BY <1>1, <2>1 DEF OnlySends, Told, Books, Charged, TypeOK
    <2>3. QED
      BY <2>2, OnlySendsSafe
  <1>9. CASE CancelFinish(e)
    <2>1. /\ UNCHANGED <<worker, ctxDone, booked>> /\ canceller[e] = "finishing"
          /\ canceller' = [canceller EXCEPT ![e] = "none"]
          /\ answered' = [answered EXCEPT ![e] = TRUE]
          /\ Finish(e, "cancelled") /\ "cancelled" \in Ended
      BY <1>9 DEF CancelFinish, Ended
    <2>2. status[e] = "cancelled" /\ (worker[e].at \in {"wait", "marked"} => ctxDone[e])
      BY <1>1, <2>1 DEF Told
    <2>3. status' = status
      BY <1>1, <2>1, <2>2, FinishEffect DEF TypeOK, RowsOK, TrialStatus
    <2>4. OnlySends(e) /\ Told(e)' /\ Books(e)'
      BY <1>1, <2>1, <2>2, <2>3 DEF OnlySends, Told, Books, Charged, TypeOK
    <2>5. QED
      BY <2>4, OnlySendsSafe
  <1>10. QED
    BY <1>2, <1>3, <1>4, <1>5, <1>6, <1>7, <1>8, <1>9 DEF Handler

LEMMA WorkSends == ASSUME Lifecycle, SafeSends, NEW e \in Runs, Work(e) PROVE SafeSends'
  <1>1. TypeOK /\ Phase(e) /\ Told(e) /\ Books(e) /\ worker[e] \in Worker /\ WorkStep(e)
    BY WorkStepEffect DEF Lifecycle, SafeSends, TypeOK
  <1>2. status[e] = "cancelled" => status'[e] = "cancelled"
    BY <1>1 DEF WorkStep
  <1>3. CASE Begin(e) \/ Check(e) \/ Mark(e) \/ Send(e) \/ Write(e) \/ Costs(e) \/ FinishRun(e)
    <2>1. UNCHANGED <<canceller, ctxDone, history>>
      BY <1>3 DEF Begin, Check, Mark, Send, Write, Costs, FinishRun, others
    <2>2. OnlySends(e)
      BY <1>1, <2>1 DEF OnlySends, WorkStep, WorkerOnly, history
    <2>3. Told(e)'
      <3>1. worker'[e].at \in {"wait", "marked"} =>
             status[e] = "running" \/ (~ctxDone[e] /\ worker[e].at = "wait")
        <4>1. CASE Begin(e)
          BY <1>1, <4>1, BeginEffect
        <4>2. CASE Check(e)
          <5>1. status[e] \notin {"none", "queued"}
            BY <1>1, <4>2 DEF Check, Phase, Working, Active
          <5>2. QED
            BY <1>1, <4>2, <5>1, CheckEffect
        <4>3. CASE Mark(e)
          BY <1>1, <4>3, MarkEffect
        <4>4. CASE Send(e)
          BY <1>1, <4>4, SendEffect
        <4>5. CASE Write(e)
          BY <1>1, <4>5, WriteEffect
        <4>6. CASE Costs(e)
          BY <1>1, <4>6, CostsEffect
        <4>7. CASE FinishRun(e)
          BY <1>1, <4>7, FinishRunEffect
        <4>8. QED
          BY <1>3, <4>1, <4>2, <4>3, <4>4, <4>5, <4>6, <4>7
      <3>2. QED
        BY <1>1, <1>2, <2>1, <3>1 DEF Told, history
    <2>4. Books(e)'
      <3>1. CASE Begin(e)
        BY <1>1, <2>1, <3>1, BeginEffect DEF Books, history
      <3>2. CASE Check(e)
        <4>1. status[e] \notin {"none", "queued"}
          BY <1>1, <3>2 DEF Check, Phase, Working, Active
        <4>2. QED
          BY <1>1, <2>1, <3>2, <4>1, CheckEffect DEF Books, history
      <3>3. CASE Mark(e)
        BY <1>1, <2>1, <3>3, MarkEffect DEF Books, history
      <3>4. CASE Send(e)
        BY <1>1, <2>1, <3>4, SendEffect DEF Books, history
      <3>5. CASE Write(e)
        BY <1>1, <2>1, <3>5, WriteEffect DEF Books, history
      <3>6. CASE Costs(e)
        BY <1>1, <2>1, <3>6, CostsEffect DEF Books, history
      <3>7. CASE FinishRun(e)
        BY <1>1, <2>1, <3>7, FinishRunEffect DEF Books, history
      <3>8. QED
        BY <1>3, <3>1, <3>2, <3>3, <3>4, <3>5, <3>6, <3>7
    <2>5. QED
      BY <2>2, <2>3, <2>4, OnlySendsSafe
  <1>4. CASE Return(e)
    <2>1. /\ worker[e].at \in {"marked", "calling"} /\ worker'[e].at = "write"
          /\ Charged(worker'[e]) - worker[e].spent = booked'[e] - booked[e]
          /\ \A f \in Runs \ {e} : booked'[f] = booked[f]
          /\ UNCHANGED <<rows, others, answered>> /\ TypeOK'
      BY <1>1, <1>4, ReturnEffect
    <2>2. OnlySends(e)
      BY <1>1, <2>1 DEF OnlySends, WorkStep, WorkerOnly, rows, others
    <2>3. Told(e)'
      BY <1>1, <1>2, <2>1 DEF Told, others
    <2>4. /\ worker[e].spent \in Nat /\ booked[e] \in Nat /\ booked'[e] \in Nat
          /\ Charged(worker'[e]) \in Nat
      <3>1. worker'[e] \in Worker /\ booked'[e] \in Nat /\ booked[e] \in Nat
        BY <1>1, <2>1 DEF TypeOK
      <3>2. QED
        BY <1>1, <3>1 DEF Worker, Charged
    <2>5. booked'[e] = Charged(worker'[e])
      BY <1>1, <2>1, <2>4 DEF Books
    <2>6. Books(e)'
      BY <2>1, <2>5 DEF Books
    <2>7. QED
      BY <2>2, <2>3, <2>6, OnlySendsSafe
  <1>5. CASE Exit(e)
    <2>1. /\ worker'[e].at = "none" /\ booked' = [booked EXCEPT ![e] = 0]
          /\ ctxDone' = [ctxDone EXCEPT ![e] = FALSE]
          /\ UNCHANGED <<rows, canceller, answered>>
      BY <1>1, <1>5, ExitEffect
    <2>2. OnlySends(e) /\ Told(e)' /\ Books(e)'
      BY <1>1, <1>2, <2>1 DEF OnlySends, WorkStep, WorkerOnly, Told, Books, TypeOK
    <2>3. QED
      BY <2>2, OnlySendsSafe
  <1>6. QED
    BY <1>3, <1>4, <1>5 DEF Work

LEMMA AmbientSends == ASSUME Lifecycle, SafeSends, Ambient PROVE SafeSends'
  <1>1. TypeOK /\ Quiet /\ \A f \in Runs : Phase(f) /\ Told(f) /\ Books(f)
    BY DEF Lifecycle, SafeSends
  <1>2. ASSUME NEW e \in Runs, Deadline(e) \/ Overdue(e) PROVE SafeSends'
    <2>1. /\ UNCHANGED <<status, worker, canceller, answered, booked>>
          /\ \/ ctxDone' = ctxDone
             \/ ctxDone' = [ctxDone EXCEPT ![e] = (worker[e].at # "none")]
      BY <1>2 DEF Deadline, Overdue, Registered, rows, history
    <2>2. OnlySends(e) /\ Told(e)' /\ Books(e)'
      BY <1>1, <2>1 DEF OnlySends, Told, Books, Charged, TypeOK
    <2>3. QED
      BY <2>2, OnlySendsSafe
  <1>3. ASSUME NEW e \in Runs, Cleanup(e) PROVE SafeSends'
    <2>1. /\ UNCHANGED <<worker, canceller, ctxDone, answered, booked>> /\ status[e] \in Active
          /\ status' = [status EXCEPT ![e] = "interrupted"]
      BY <1>3 DEF Cleanup, EndRows, others, history
    <2>2. ~(canceller[e] = "finishing" \/ answered[e])
      BY <1>1, <2>1 DEF Told, Active
    <2>3. OnlySends(e) /\ Told(e)' /\ Books(e)'
      BY <1>1, <2>1, <2>2 DEF OnlySends, Told, Books, Charged, TypeOK
    <2>4. QED
      BY <2>3, OnlySendsSafe
  <1>4. ASSUME NEW e \in Runs, Forget(e) PROVE SafeSends'
    <2>1. /\ UNCHANGED <<worker, canceller, ctxDone, booked>> /\ canceller[e] = "none"
          /\ status' = [status EXCEPT ![e] = "none"]
          /\ answered' = [answered EXCEPT ![e] = FALSE]
      BY <1>4 DEF Forget
    <2>2. OnlySends(e) /\ Told(e)' /\ Books(e)'
      BY <1>1, <2>1 DEF OnlySends, Told, Books, Charged, TypeOK
    <2>3. QED
      BY <2>2, OnlySendsSafe
  <1>5. ASSUME Close PROVE SafeSends'
    <2>1. /\ UNCHANGED <<status, worker, canceller, answered, booked>>
          /\ \A e \in Runs : ctxDone'[e] = (worker[e].at # "none")
      BY <1>5 DEF Close, Registered, rows, history
    <2>2. QED
      BY <1>1, <2>1 DEF SafeSends, Told, Books, Charged
  <1>6. ASSUME Stopped \/ Crash PROVE SafeSends'
    <2>1. /\ UNCHANGED <<status, answered>>
          /\ \A e \in Runs : canceller'[e] = "none" /\ worker'[e].at = "none" /\ booked'[e] = 0
      BY <1>6 DEF Stopped, Crash, Vanish, rows, Idle
    <2>2. QED
      BY <1>1, <2>1 DEF SafeSends, Told, Books
  <1>7. ASSUME Recover PROVE SafeSends'
    <2>1. /\ UNCHANGED <<canceller, worker, ctxDone, booked, answered>> /\ proc = "down"
          /\ \A e \in Runs : status'[e] = IF status[e] \in Active THEN "interrupted" ELSE status[e]
      BY <1>7 DEF Recover, history
    <2>2. \A e \in Runs : status[e] = "cancelled" => status'[e] = "cancelled"
      BY <2>1 DEF Active
    <2>3. QED
      BY <1>1, <2>1, <2>2 DEF SafeSends, Told, Books, Charged
  <1>8. QED
    BY <1>2, <1>3, <1>4, <1>5, <1>6, <1>7 DEF Ambient

LEMMA NextSends == Lifecycle /\ SafeSends /\ [Next]_vars => SafeSends'
  <1>1. ASSUME SafeSends, UNCHANGED vars PROVE SafeSends'
    BY <1>1 DEF SafeSends, Told, Books, Charged, vars, rows, process, history
  <1>2. QED
    BY <1>1, NextSplit, HandlerSends, WorkSends, AmbientSends

LEMMA InitSends == Init => SafeSends
  BY DEF Init, SafeSends, Told, Books, Idle

(***************************************************************************)
(* Only a worker that is at the call, in a context still open, sends it.   *)
(***************************************************************************)
LEMMA Senders ==
    ASSUME Lifecycle, [Next]_vars, NEW e \in Runs, Sends(e)
    PROVE  worker[e].at = "marked" /\ ~ctxDone[e]
  <1>1. TypeOK /\ Phase(e)
    BY DEF Lifecycle
  <1>2. worker[e].at = "marked" /\ worker'[e].at = "calling"
    BY DEF Sends
  <1>3. ASSUME NEW f \in Runs, Work(f) PROVE ~ctxDone[e]
    <2>1. f = e
      BY <1>2, <1>3, WorkStepEffect DEF WorkStep, WorkerOnly
    <2>2. Send(e) \/ Return(e)
      BY <1>2, <1>3, <2>1 DEF Work, Begin, Check, Mark, Write, Costs, FinishRun, Exit
    <2>3. ~Return(e)
      BY <1>1, <1>2, ReturnEffect
    <2>4. QED
      BY <2>2, <2>3 DEF Send
  <1>4. ASSUME NEW f \in Runs, Handler(f) PROVE FALSE
    <2>1. worker'[e] = worker[e] \/ worker'[e].at = "start"
      <3>1. CASE Launch(f)
        BY <1>1, <3>1 DEF Launch, TypeOK, Idle
      <3>2. CASE ~Launch(f)
        BY <1>4, <3>2 DEF Handler, TakeLock, Refuse, Insert, CommitRun, LaunchRefused,
                           Cancel, CancelWorker, CancelIdle, CancelFinish
      <3>3. QED
        BY <3>1, <3>2
    <2>2. QED
      BY <1>2, <2>1
  <1>5. ASSUME Ambient PROVE FALSE
    <2>1. worker'[e] = worker[e] \/ worker'[e].at = "none"
      <3>1. CASE Stopped \/ Crash
        BY <3>1 DEF Stopped, Crash, Vanish, Idle
      <3>2. CASE ~(Stopped \/ Crash)
        BY <1>5, <3>2 DEF Ambient, Deadline, Overdue, Cleanup, Forget, Close, Recover
      <3>3. QED
        BY <3>1, <3>2
    <2>2. QED
      BY <1>2, <2>1
  <1>6. ASSUME UNCHANGED vars PROVE FALSE
    BY <1>2, <1>6 DEF vars
  <1>7. QED
    BY <1>2, <1>3, <1>4, <1>5, <1>6, NextSplit

(***************************************************************************)
(* No call of a run is put on the wire after the answer that the run is    *)
(* cancelled (cancelEvaluation against executeEvaluation and Close).       *)
(***************************************************************************)
THEOREM EvaluationNoCallAfterCancel == SafeSpec => NoCallAfterCancel
  <1>1. Lifecycle /\ SafeSends /\ [Next]_vars =>
          [\A e \in Runs : answered[e] => ~Sends(e)]_vars
    BY Senders DEF SafeSends, Told
  <1>2. QED
    BY <1>1, InitLifecycle, NextLifecycle, InitSends, NextSends, PTL DEF SafeSpec, NoCallAfterCancel

(***************************************************************************)
(* A call is only sent while its estimate fits into what the books leave   *)
(* of the budget of the run (executeEvaluation, evaluationCosts).          *)
(***************************************************************************)
THEOREM EvaluationWithinBudget == SafeSpec => WithinBudget
  <1>1. Lifecycle /\ SafeSends /\ [Next]_vars =>
          [\A e \in Runs : Sends(e) => booked[e] + Estimate <= MaxCost]_vars
    BY Senders DEF SafeSends, Books
  <1>2. QED
    BY <1>1, InitLifecycle, NextLifecycle, InitSends, NextSends, PTL DEF SafeSpec, WithinBudget

-----------------------------------------------------------------------------
(***************************************************************************)
(* Every step of a run is one of RunRegister or leaves the status alone.   *)
(***************************************************************************)
LEMMA EndStep ==
    ASSUME NEW e \in Runs, NEW s \in Ended, status[e] \in Active, status' = [status EXCEPT ![e] = s]
    PROVE  Register!Next
  BY DEF Register!Next, Register!End, Register!Active, Register!Ended, Active, Ended

LEMMA HandlerRegister ==
    ASSUME Lifecycle, NEW e \in Runs, Handler(e) PROVE [Register!Next]_status
  <1>1. TypeOK /\ Phase(e) /\ Alone
    BY DEF Lifecycle
  <1>2. CASE CommitRun(e)
    <2>1. status[e] = "none" /\ \A f \in Runs : status[f] \notin Active
      BY <1>1, <1>2 DEF CommitRun, Phase, Alone
    <2>2. status' = [status EXCEPT ![e] = "queued"]
      BY <1>2 DEF CommitRun
    <2>3. QED
      BY <2>1, <2>2 DEF Register!Next, Register!Register, Register!Active, Active
  <1>3. CASE LaunchRefused(e) \/ CancelFinish(e)
    <2>1. PICK s \in Ended : Finish(e, s)
      BY <1>3 DEF LaunchRefused, CancelFinish, Ended
    <2>2. \/ status' = status
          \/ status[e] # "cancelled" /\ status' = [status EXCEPT ![e] = s]
      BY <1>1, <2>1, FinishEffect DEF TypeOK, RowsOK, TrialStatus
    <2>3. status[e] \in Active \cup {"cancelled"}
      BY <1>1, <1>3 DEF LaunchRefused, CancelFinish, Phase, Active
    <2>4. QED
      BY <2>2, <2>3, EndStep
  <1>4. CASE Cancel(e)
    BY <1>4, EndStep DEF Cancel, Ended
  <1>5. QED
    BY <1>2, <1>3, <1>4 DEF Handler, TakeLock, Refuse, Insert, Launch, CancelWorker, CancelIdle, rows

LEMMA WorkRegister ==
    ASSUME Lifecycle, NEW e \in Runs, Work(e) PROVE [Register!Next]_status
  <1>1. TypeOK /\ Phase(e)
    BY DEF Lifecycle
  <1>2. CASE Begin(e)
    <2>1. \/ status' = [status EXCEPT ![e] = IF @ = "queued" THEN "running" ELSE @]
          \/ status' = status
      BY <1>2 DEF Begin
    <2>2. CASE status[e] = "queued"
      BY <2>1, <2>2 DEF Register!Next, Register!Start
    <2>3. CASE status[e] # "queued"
      BY <1>1, <2>1, <2>3 DEF TypeOK
    <2>4. QED
      BY <2>2, <2>3
  <1>3. CASE FinishRun(e)
    <2>1. PICK s \in Ended : Finish(e, s)
      BY <1>1, <1>3, FinishRunEffect
    <2>2. \/ status' = status
          \/ status[e] # "cancelled" /\ status' = [status EXCEPT ![e] = s]
      BY <1>1, <2>1, FinishEffect DEF TypeOK, RowsOK, TrialStatus
    <2>3. status[e] \in Active \cup {"cancelled"}
      BY <1>1, <1>3 DEF FinishRun, Phase
    <2>4. QED
      BY <2>2, <2>3, EndStep
  <1>4. QED
    BY <1>2, <1>3 DEF Work, Check, Mark, Send, Return, Write, Costs, Exit, rows

LEMMA AmbientRegister == ASSUME Lifecycle, Ambient PROVE [Register!Next]_status
  <1>1. TypeOK /\ Alone
    BY DEF Lifecycle
  <1>2. ASSUME NEW e \in Runs, Deadline(e) \/ Overdue(e) PROVE UNCHANGED status
    BY <1>2 DEF Deadline, Overdue, rows
  <1>3. ASSUME Close \/ Stopped \/ Crash PROVE UNCHANGED status
    BY <1>3 DEF Close, Stopped, Crash, Vanish, rows
  <1>4. ASSUME NEW e \in Runs, Cleanup(e) PROVE Register!Next
    BY <1>4, EndStep DEF Cleanup, EndRows, Ended
  <1>5. ASSUME NEW e \in Runs, Forget(e) PROVE Register!Next
    BY <1>5 DEF Forget, Ended, Register!Next, Register!Forget, Register!Ended
  <1>6. ASSUME Recover PROVE [Register!Next]_status
    <2>1. status' = [e \in Runs |-> IF status[e] \in Active THEN "interrupted" ELSE status[e]]
      BY <1>6 DEF Recover
    <2>2. CASE \A e \in Runs : status[e] \notin Active
      BY <1>1, <2>1, <2>2 DEF TypeOK
    <2>3. ASSUME NEW e \in Runs, status[e] \in Active PROVE Register!Next
      <3>1. \A f \in Runs \ {e} : status[f] \notin Active
        BY <1>1, <2>3 DEF Alone
      <3>2. status' = [status EXCEPT ![e] = "interrupted"]
        BY <1>1, <2>1, <2>3, <3>1 DEF TypeOK
      <3>3. QED
        BY <2>3, <3>2, EndStep DEF Ended
    <2>4. QED
      BY <2>2, <2>3
  <1>7. QED
    BY <1>2, <1>3, <1>4, <1>5, <1>6 DEF Ambient

(***************************************************************************)
(* Runs appear one at a time, and how a run ended is never rewritten: the  *)
(* safety half of ImplementsRegister.                                      *)
(***************************************************************************)
THEOREM EvaluationRegisterSteps == SafeSpec => Register!Init /\ [][Register!Next]_status
  <1>1. Init => Register!Init
    BY DEF Init, Register!Init
  <1>2. Lifecycle /\ [Next]_vars => [Register!Next]_status
    BY NextSplit, HandlerRegister, WorkRegister, AmbientRegister DEF vars, rows
  <1>3. QED
    BY <1>1, <1>2, InitLifecycle, NextLifecycle, PTL DEF SafeSpec
=============================================================================
