----------------------------- MODULE EmailQueue -----------------------------
(***************************************************************************)
(* The queue of hit mails: the statement that records a flagged request    *)
(* together with its notification (store.go), the workers that deliver     *)
(* notifications (email.go), and the administrators who change the SMTP    *)
(* settings or switch the mails off (email_settings.go).                   *)
(*                                                                         *)
(* There is a worker per server process; two processes overlap while one   *)
(* replaces the other.  A statement of a worker is a step.  The settings   *)
(* are one row: recording locks it FOR SHARE, saving FOR UPDATE, and what  *)
(* saveEmailSettings does under its lock is one step with its commit,      *)
(* because every other transaction that could tell waits for that lock.    *)
(* Of next_attempt_at the model keeps whether it has come, and if not,     *)
(* whether a claim (two minutes) or a failure (attempts^2 minutes) set it; *)
(* a lease can end while SMTP is still answering, as it does when the      *)
(* process is stalled for long enough.  A host with a user name is an      *)
(* account, and a password is the account it was typed in for.             *)
(***************************************************************************)
EXTENDS Naturals, FiniteSets

CONSTANTS Records,      \* requests that are flagged: the ones that ask for a mail
          Workers,      \* the mail workers, one per process
          Accounts,     \* pairs of host and user name
          Anonymous,    \* the accounts without a user name
          MaxAttempts,  \* tries of a notification: 5 in the code
          MaxRevision,  \* bound: settings are saved until they have this revision
          MaxCrashes,   \* bound: processes that end
          NoPassword, NoNote, NoJob

ASSUME QueueAssumption ==
    /\ MaxAttempts \in Nat \ {0} /\ MaxRevision \in Nat /\ MaxCrashes \in Nat
    /\ Anonymous \subseteq Accounts /\ NoPassword \notin Accounts

VARIABLES
    config,    \* the row of email_settings
    saving,    \* a transaction of saveEmailSettings has it locked FOR UPDATE
    recorder,  \* Record of each request: where it is
    notified,  \* the recorders that hold the row FOR SHARE and will add a notification
    note,      \* email_notifications
    expired,   \* the records whose expires_at has passed
    at,        \* where each worker is
    held,      \* the settings it has read
    job,       \* the notification it has claimed, and as which attempt
    crashes

rows == <<note, expired>>
work == <<at, held, job>>
mailVars == <<config, saving, recorder, notified, rows, work, crashes>>

Settings == [enabled : BOOLEAN, account : Accounts, password : Accounts \cup {NoPassword},
             revision : 1 .. MaxRevision]
Note == [attempts : 0 .. MaxAttempts, sent : BOOLEAN, error : BOOLEAN, wait : {"due", "lease", "backoff"}]
SettingsForm == [enabled : BOOLEAN, account : Accounts, password : {"keep", "clear", "new"},
                 basis : 1 .. MaxRevision]

Rows == {r \in Records : note[r] # NoNote}
Unsent == {r \in Rows : ~note[r].sent}
InFlight == {w \in Workers : at[w] \in {"sending", "accepted", "refused"}}

MailInit ==
    /\ config \in {c \in Settings : c.revision = 1 /\ ~c.enabled /\ c.account \in Anonymous /\ c.password = NoPassword}
    /\ saving = FALSE
    /\ recorder = [r \in Records |-> "idle"]
    /\ notified = {}
    /\ note = [r \in Records |-> NoNote]
    /\ expired = {}
    /\ at = [w \in Workers |-> "idle"]
    /\ held = [w \in Workers |-> NoJob]
    /\ job = [w \in Workers |-> NoJob]
    /\ crashes = 0

-----------------------------------------------------------------------------
(* Store.Record: one statement.  Its snapshot says whether mails are       *)
(* enabled; if they are it locks the row, and PostgreSQL evaluates the     *)
(* condition again on the version it locked.                               *)
Snapshot(r) ==
    /\ recorder[r] = "idle"
    /\ recorder' = [recorder EXCEPT ![r] = IF config.enabled THEN "locking" ELSE "inserting"]
    /\ UNCHANGED <<config, saving, notified, rows, work, crashes>>

(* A variant that must fail: Record without FOR SHARE. *)
LockSettingsUnshared(r) ==
    /\ recorder[r] = "locking"
    /\ recorder' = [recorder EXCEPT ![r] = "notifying"]
    /\ UNCHANGED <<config, saving, notified, rows, work, crashes>>

LockSettings(r) ==
    /\ recorder[r] = "locking" /\ ~saving
    /\ recorder' = [recorder EXCEPT ![r] = IF config.enabled THEN "notifying" ELSE "inserting"]
    /\ notified' = IF config.enabled THEN notified \cup {r} ELSE notified
    /\ UNCHANGED <<config, saving, rows, work, crashes>>

NewNote == [attempts |-> 0, sent |-> FALSE, error |-> FALSE, wait |-> "due"]

Record(r) ==
    /\ recorder[r] \in {"notifying", "inserting"}
    /\ note' = IF recorder[r] = "notifying" THEN [note EXCEPT ![r] = NewNote] ELSE note
    /\ recorder' = [recorder EXCEPT ![r] = "done"]
    /\ notified' = notified \ {r}
    /\ UNCHANGED <<config, saving, expired, work, crashes>>

RecordFails(r) ==
    /\ recorder[r] \in {"locking", "notifying", "inserting"}
    /\ recorder' = [recorder EXCEPT ![r] = "done"]
    /\ notified' = notified \ {r}
    /\ UNCHANGED <<config, saving, rows, work, crashes>>

-----------------------------------------------------------------------------
(* saveEmailSettings.  The form was filled in from a revision read before. *)
LockRow ==
    /\ ~saving /\ notified = {} /\ config.revision < MaxRevision
    /\ saving' = TRUE
    /\ UNCHANGED <<config, recorder, notified, rows, work, crashes>>

Password(f) ==
    CASE f.password = "new" -> f.account
      [] f.password = "clear" -> NoPassword
      [] OTHER -> config.password

(* A variant that must fail: any password is kept. *)
KeepsAnyPassword(f) == FALSE

KeepsForeignPassword(f) ==
    f.password = "keep" /\ config.password # NoPassword /\ config.account # f.account

LacksPassword(f) ==
    f.enabled /\ f.account \notin Anonymous /\ Password(f) = NoPassword

Accepted(f) ==
    f.basis = config.revision /\ ~KeepsForeignPassword(f) /\ ~LacksPassword(f)

(* A variant that must fail: what is queued survives the end of the mails. *)
QueueKept(enabled) == note

(* DELETE ... WHERE sent_at IS NULL, unless the mails stay enabled. *)
QueueAfter(enabled) ==
    IF enabled THEN note ELSE [r \in Records |-> IF r \in Unsent THEN NoNote ELSE note[r]]

Save ==
    /\ saving
    /\ \E f \in SettingsForm :
          /\ Accepted(f)
          /\ config' = [enabled |-> f.enabled, account |-> f.account, password |-> Password(f),
                        revision |-> config.revision + 1]
          /\ note' = QueueAfter(f.enabled)
    /\ saving' = FALSE
    /\ UNCHANGED <<recorder, notified, expired, work, crashes>>

(* A conflict, a form that is not accepted, or a failure of the database.  *)
SaveFails ==
    /\ saving
    /\ saving' = FALSE
    /\ UNCHANGED <<config, recorder, notified, rows, work, crashes>>

-----------------------------------------------------------------------------
(* deliverEmail.  While mails are disabled it returns at once. *)
Poll(w) == at[w] = "idle" /\ ~config.enabled /\ UNCHANGED mailVars

ReadSettings(w) ==
    /\ at[w] = "idle" /\ config.enabled
    /\ at' = [at EXCEPT ![w] = "ready"]
    /\ held' = [held EXCEPT ![w] = config]
    /\ UNCHANGED <<config, saving, recorder, notified, rows, job, crashes>>

Due(r) == r \in Unsent /\ note[r].attempts < MaxAttempts /\ note[r].wait = "due" /\ r \notin expired

Claim(w) ==
    /\ at[w] = "ready"
    /\ \E r \in Records :
          /\ Due(r)
          /\ note' = [note EXCEPT ![r].attempts = @ + 1, ![r].wait = "lease"]
          /\ job' = [job EXCEPT ![w] = [record |-> r, attempt |-> note[r].attempts + 1]]
    /\ at' = [at EXCEPT ![w] = "sending"]
    /\ UNCHANGED <<config, saving, recorder, notified, expired, held, crashes>>

Return(w) ==
    /\ at' = [at EXCEPT ![w] = "idle"]
    /\ held' = [held EXCEPT ![w] = NoJob]
    /\ job' = [job EXCEPT ![w] = NoJob]

(* There is nothing to do, or the statement fails: sleep and start again. *)
ClaimNothing(w) ==
    /\ at[w] = "ready"
    /\ Return(w)
    /\ UNCHANGED <<config, saving, recorder, notified, rows, crashes>>

(* sendSMTP: the server has accepted the mail, or an error comes back. *)
Send(w) ==
    /\ at[w] = "sending"
    /\ \E outcome \in {"accepted", "refused"} : at' = [at EXCEPT ![w] = outcome]
    /\ UNCHANGED <<config, saving, recorder, notified, rows, held, job, crashes>>

(* A variant that must fail: the outcome of any attempt is written. *)
WrittenByAnyone(w) == job[w].record \in Rows

(* The WHERE clause of both completions. *)
Written(w) == job[w].record \in Rows /\ note[job[w].record].attempts = job[w].attempt

Outcome(n, accepted) ==
    IF accepted THEN [n EXCEPT !.sent = TRUE, !.error = FALSE]
    ELSE [n EXCEPT !.error = TRUE, !.wait = "backoff"]

Complete(w) ==
    /\ at[w] \in {"accepted", "refused"}
    /\ note' = IF Written(w) THEN [note EXCEPT ![job[w].record] = Outcome(@, at[w] = "accepted")] ELSE note
    /\ Return(w)
    /\ UNCHANGED <<config, saving, recorder, notified, expired, crashes>>

(* The completion fails: its two seconds are over. *)
CompleteFails(w) ==
    /\ at[w] \in {"accepted", "refused"}
    /\ Return(w)
    /\ UNCHANGED <<config, saving, recorder, notified, rows, crashes>>

(* The process ends; StartEmailWorker runs again in the next one. *)
Crash(w) ==
    /\ at[w] # "idle" /\ crashes < MaxCrashes
    /\ crashes' = crashes + 1
    /\ Return(w)
    /\ UNCHANGED <<config, saving, recorder, notified, rows>>

-----------------------------------------------------------------------------
(* next_attempt_at has come. *)
WaitEnds(r) ==
    /\ r \in Rows /\ note[r].wait # "due"
    /\ note' = [note EXCEPT ![r].wait = "due"]
    /\ UNCHANGED <<config, saving, recorder, notified, expired, work, crashes>>

Expire(r) ==
    /\ recorder[r] = "done" /\ r \notin expired
    /\ expired' = expired \cup {r}
    /\ UNCHANGED <<config, saving, recorder, notified, note, work, crashes>>

(* Store.Cleanup deletes the record, and the notification with it. *)
Cleanup(r) ==
    /\ r \in expired /\ r \in Rows
    /\ note' = [note EXCEPT ![r] = NoNote]
    /\ UNCHANGED <<config, saving, recorder, notified, expired, work, crashes>>

Recording(r) == Snapshot(r) \/ LockSettings(r) \/ Record(r) \/ RecordFails(r)
Deliver(w) == ReadSettings(w) \/ Claim(w) \/ ClaimNothing(w) \/ Send(w) \/ Complete(w) \/ CompleteFails(w)

MailNext ==
    \/ \E r \in Records : Recording(r) \/ WaitEnds(r) \/ Expire(r) \/ Cleanup(r)
    \/ LockRow \/ Save \/ SaveFails
    \/ \E w \in Workers : Poll(w) \/ Deliver(w) \/ Crash(w)

(* The loop of StartEmailWorker goes on, the claim succeeds now and then,  *)
(* and time passes.                                                        *)
Fairness ==
    /\ \A w \in Workers : WF_mailVars(Deliver(w)) /\ SF_mailVars(Claim(w))
    /\ \A r \in Records : WF_mailVars(WaitEnds(r))

MailSafeSpec == MailInit /\ [][MailNext]_mailVars
MailSpec == MailSafeSpec /\ Fairness

-----------------------------------------------------------------------------
MailTypeOK ==
    /\ config \in Settings
    /\ saving \in BOOLEAN
    /\ recorder \in [Records -> {"idle", "locking", "notifying", "inserting", "done"}]
    /\ notified \subseteq Records
    /\ note \in [Records -> Note \cup {NoNote}]
    /\ expired \subseteq Records
    /\ at \in [Workers -> {"idle", "ready", "sending", "accepted", "refused"}]
    /\ held \in [Workers -> Settings \cup {NoJob}]
    /\ job \in [Workers -> [record : Records, attempt : 1 .. MaxAttempts] \cup {NoJob}]
    /\ crashes \in 0 .. MaxCrashes

(***************************************************************************)
(* Nothing waits to be sent while mails are disabled: a record that was    *)
(* committing its notification when the administrator switched them off is *)
(* either deleted with the queue or committed without it                   *)
(* (store.go 455-464, email_settings.go 129-131).                          *)
(***************************************************************************)
NoneWhileDisabled == ~config.enabled => Unsent = {}

(***************************************************************************)
(* One delivery: of the workers that still hold a notification, at most    *)
(* one holds its latest attempt, its lease is not cut short by the outcome *)
(* of an older attempt, and what was sent is neither claimed again nor     *)
(* marked as failed afterwards (email.go 153-185).                         *)
(***************************************************************************)
OneDelivery ==
    /\ \A r \in Rows : note[r].sent => ~note[r].error
    /\ \A w \in InFlight : LET r == job[w].record IN
          r \in Rows /\ note[r].attempts = job[w].attempt =>
              /\ ~note[r].sent /\ note[r].wait # "backoff"
              /\ \A v \in InFlight \ {w} : job[v] # job[w]

(***************************************************************************)
(* A worker presents a password only to the account it was saved for,      *)
(* whatever was saved before and after it read the settings                *)
(* (email_settings.go 111-121, email.go 146).                              *)
(***************************************************************************)
PasswordOfAccount ==
    \A w \in InFlight : held[w].password \in {NoPassword, held[w].account}

(***************************************************************************)
(* Every notification ends: it is sent, has used its attempts, or is       *)
(* deleted; no lease, crash or change of the settings leaves one behind    *)
(* that nobody will take up again.                                         *)
(***************************************************************************)
Pending(r) == r \in Unsent /\ note[r].attempts < MaxAttempts /\ r \notin expired

NotificationsEnd == \A r \in Records : Pending(r) ~> ~Pending(r)
=============================================================================
