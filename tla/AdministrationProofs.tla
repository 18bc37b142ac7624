------------------------ MODULE AdministrationProofs -------------------------
(***************************************************************************)
(* What administrators do, in the three components that have tables of     *)
(* their own: sessions and passwords, the settings of the mails and their  *)
(* queue, and the configuration.  Each is proved by itself, for any number *)
(* of requests, workers, rows and changes; what carries the argument each  *)
(* time is a lock, and that whoever holds it has checked what it is going  *)
(* to write.                                                               *)
(***************************************************************************)
EXTENDS Administration, AdminSession, EmailQueue, TLAPS

-----------------------------------------------------------------------------
(***************************************************************************)
(* Sessions (AdminSession).                                                *)
(***************************************************************************)
(* The row of the account is held by logins together or by one change, and *)
(* whoever holds it has compared the hash that is still there; no session  *)
(* comes to those a change has found.                                      *)
HoldsRow(r) == request[r].doing \in {"insert", "revoke", "replace"}
Changes(r) == request[r].doing \in {"revoke", "replace"}

Compared == \A r \in Requests : HoldsRow(r) => request[r].verified = hash
Exclusive == \A r, q \in Requests : Changes(r) /\ HoldsRow(q) => q = r
FoundAll == \A r \in Requests : request[r].doing = "replace" => sessions \subseteq request[r].revoked

SessionInv == SessionTypeOK /\ Compared /\ Exclusive /\ FoundAll /\ SessionsOfPassword

(* The invariant holds at first, nobody being at work.                     *)
LEMMA SessionInitInv == SessionInit => SessionInv
BY AdminSessionAssumption
   DEF SessionInit, SessionInv, SessionTypeOK, Idle, Compared, Exclusive, FoundAll, SessionsOfPassword,
       HoldsRow, Changes

(* Every step keeps it.                                                    *)
LEMMA SessionNextInv == SessionInv /\ [SessionNext]_sessionVars => SessionInv'
<1> SUFFICES ASSUME SessionInv, [SessionNext]_sessionVars PROVE SessionInv'
  OBVIOUS
<1> USE AdminSessionAssumption DEF SessionInv, SessionTypeOK, Compared, Exclusive, FoundAll, SessionsOfPassword,
        HoldsRow, Changes, Idle, Finishes, Goes
<1>1. ASSUME NEW r \in Requests, Login(r) \/ ChangePassword(r) PROVE SessionInv'
  BY <1>1 DEF Login, ChangePassword, Verify
<1>2. ASSUME NEW r \in Requests, LockAccount(r) PROVE SessionInv'
  BY <1>2 DEF LockAccount, MayShare, StillCurrent, Changing
<1>3. ASSUME NEW r \in Requests, NEW t \in Tokens, InsertSession(r, t) PROVE SessionInv'
  BY <1>3 DEF InsertSession
<1>4. ASSUME NEW r \in Requests, UpdateHash(r) PROVE SessionInv'
  BY <1>4 DEF UpdateHash, StillCurrent, Changing, Sharing
<1>5. ASSUME NEW r \in Requests, RevokeSessions(r) PROVE SessionInv'
  BY <1>5 DEF RevokeSessions, FoundByDelete
<1>6. ASSUME NEW r \in Requests, CommitChange(r) PROVE SessionInv'
  <2>1. sessions' = {} /\ hash' = hash + 1 /\ request' = [request EXCEPT ![r] = Idle]
    BY <1>6 DEF CommitChange
  <2>2. \A q \in Requests \ {r} : request'[q] = request[q] /\ ~ HoldsRow(q)
    BY <2>1, <1>6 DEF CommitChange
  <2> QED
    BY <1>6, <2>1, <2>2 DEF CommitChange
<1>7. ASSUME NEW r \in Requests, Fail(r) PROVE SessionInv'
  BY <1>7 DEF Fail
<1>8. ASSUME NEW t \in Tokens, EndSession(t) PROVE SessionInv'
  BY <1>8 DEF EndSession
<1>9. ASSUME UNCHANGED sessionVars PROVE SessionInv'
  BY <1>9 DEF sessionVars
<1> QED
  BY <1>1, <1>2, <1>3, <1>4, <1>5, <1>6, <1>7, <1>8, <1>9 DEF SessionNext

(* The invariant always holds.                                             *)
LEMMA AlwaysSessionInv == SessionSpec => []SessionInv
BY SessionInitInv, SessionNextInv, PTL DEF SessionSpec

(* Hashes, sessions and requests always are what they are declared to be   *)
(* (admin_users, admin_sessions).                                          *)
THEOREM SessionTypeCorrect == SessionSpec => []SessionTypeOK
<1>1. SessionInv => SessionTypeOK
  BY DEF SessionInv
<1> QED
  BY <1>1, AlwaysSessionInv, PTL

(* Every session that lives was opened with the hash the account has now   *)
(* (createAdminSession, changePassword).                                   *)
THEOREM SessionPassword == SessionSpec => []SessionsOfPassword
<1>1. SessionInv => SessionsOfPassword
  BY DEF SessionInv
<1> QED
  BY <1>1, AlwaysSessionInv, PTL

(* A change of the password commits only for a request that verified the   *)
(* hash it replaces (changePassword).                                      *)
THEOREM SessionReplaces == SessionSpec => ReplacesVerified
<1>1. ASSUME SessionInv, [SessionNext]_sessionVars, hash' # hash
      PROVE \E r \in Requests : /\ request[r].doing = "replace" /\ request'[r] = Idle
                                /\ request[r].verified = hash
  <2>1. PICK r \in Requests : CommitChange(r)
    BY <1>1 DEF SessionNext, sessionVars, Login, ChangePassword, Verify, LockAccount, InsertSession, UpdateHash,
                RevokeSessions, Fail, EndSession
  <2> QED
    BY <1>1, <2>1 DEF CommitChange, Finishes, SessionInv, SessionTypeOK, Compared, HoldsRow
<1> QED
  BY <1>1, AlwaysSessionInv, PTL DEF SessionSpec, ReplacesVerified

-----------------------------------------------------------------------------
(***************************************************************************)
(* The queue of mails (EmailQueue).  Recorders with a notification to      *)
(* insert hold the settings, so these stay enabled until it is there.      *)
(***************************************************************************)
Shared ==
    /\ \A r \in Records : recorder[r] = "notifying" <=> r \in notified
    /\ notified # {} => config.enabled /\ ~saving
    /\ saving => config.revision < MaxRevision

(* A password is the one of its account, in the row and with the workers.  *)
Matching == config.password \in {NoPassword, config.account}
ReadMatching == \A w \in Workers : at[w] # "idle" =>
    held[w] \in Settings /\ held[w].password \in {NoPassword, held[w].account}

(* There is a notification only after its request was recorded, and a job  *)
(* only after that, with one of the attempts the notification counts: one  *)
(* that is deleted does not come back.                                     *)
Job == [record : Records, attempt : 1 .. MaxAttempts]
Claimed ==
    /\ \A r \in Rows : recorder[r] = "done"
    /\ \A w \in InFlight :
          /\ job[w] \in Job /\ recorder[job[w].record] = "done"
          /\ job[w].record \in Rows => job[w].attempt <= note[job[w].record].attempts

MailInv ==
    MailTypeOK /\ Shared /\ NoneWhileDisabled /\ Matching /\ ReadMatching /\ Claimed /\ OneDelivery

(* Nothing is recorded, claimed or saved at first.                         *)
LEMMA MailInitInv == MailInit => MailInv
<1> SUFFICES ASSUME MailInit PROVE MailInv
  OBVIOUS
<1>1. Rows = {} /\ Unsent = {} /\ InFlight = {}
  BY DEF MailInit, Rows, Unsent, InFlight
<1>2. MailTypeOK
  <2>1. config \in Settings
    BY DEF MailInit
  <2>2. crashes \in 0 .. MaxCrashes
    BY QueueAssumption DEF MailInit
  <2> QED
    BY <2>1, <2>2 DEF MailInit, MailTypeOK
<1> QED
  BY <1>1, <1>2 DEF MailInit, MailInv, Shared, NoneWhileDisabled, Matching, ReadMatching, Claimed, OneDelivery

(* The recorders: what their statements do to the settings and the queue.  *)
LEMMA RecordingMailInv ==
  ASSUME MailInv, NEW r \in Records, Recording(r)
  PROVE  MailInv'
<1> USE DEF MailInv, MailTypeOK, Shared, NoneWhileDisabled, Matching, ReadMatching, Claimed, OneDelivery,
       InFlight, Unsent, Rows
<1>1. CASE Snapshot(r)
  BY <1>1 DEF Snapshot, rows, work
<1>2. CASE LockSettings(r)
  BY <1>2 DEF LockSettings, rows, work
<1>3. CASE RecordFails(r)
  BY <1>3 DEF RecordFails, rows, work
<1>4. CASE Record(r) /\ recorder[r] = "inserting"
  BY <1>4 DEF Record, rows, work
<1>5. CASE Record(r) /\ recorder[r] = "notifying"
  <2>1. NewNote \in Note /\ ~NewNote.sent /\ ~NewNote.error
    BY QueueAssumption DEF NewNote, Note
  <2>2. /\ note' = [note EXCEPT ![r] = NewNote] /\ recorder' = [recorder EXCEPT ![r] = "done"]
        /\ notified' = notified \ {r}
        /\ UNCHANGED <<config, saving, expired, at, held, job, crashes>>
    BY <1>5 DEF Record, work
  <2>3. config.enabled /\ ~saving
    BY <1>5
  <2>4. \A w \in InFlight : job[w].record # r
    BY <1>5
  <2>5. MailTypeOK'
    BY <2>1, <2>2
  <2> HIDE DEF MailTypeOK
  <2>6. OneDelivery' /\ Claimed'
    BY <2>1, <2>2, <2>4 DEF MailTypeOK
  <2> QED
    BY <2>2, <2>3, <2>5, <2>6 DEF MailTypeOK
<1> QED
  BY <1>1, <1>2, <1>3, <1>4, <1>5 DEF Recording, Record

(* The administrator, who has the settings alone while saving.             *)
LEMMA SavingMailInv ==
  ASSUME MailInv, LockRow \/ Save \/ SaveFails
  PROVE  MailInv'
<1> USE DEF MailInv, MailTypeOK, Shared, NoneWhileDisabled, Matching, ReadMatching, Claimed, OneDelivery,
       InFlight, Unsent, Rows
<1>1. CASE LockRow \/ SaveFails
  <2>1. /\ UNCHANGED <<config, recorder, notified, note, expired, at, held, job, crashes>>
        /\ saving' \in BOOLEAN
        /\ saving' => notified = {} /\ config.revision < MaxRevision
    BY <1>1 DEF LockRow, SaveFails, rows, work
  <2>2. MailTypeOK'
    BY <2>1
  <2>3. Shared' /\ NoneWhileDisabled' /\ Matching' /\ ReadMatching'
    BY <2>1
  <2>4. Claimed' /\ OneDelivery'
    BY <2>1
  <2> QED
    BY <2>2, <2>3, <2>4
<1>2. CASE Save
  <2>1. PICK f \in SettingsForm :
          /\ Accepted(f) /\ note' = QueueAfter(f.enabled)
          /\ config' = [enabled |-> f.enabled, account |-> f.account, password |-> Password(f),
                        revision |-> config.revision + 1]
    BY <1>2 DEF Save
  <2>2. /\ saving /\ saving' = FALSE /\ notified = {}
        /\ UNCHANGED <<recorder, notified, expired, at, held, job, crashes>>
    BY <1>2 DEF Save, work
  <2>3. config' \in Settings /\ Matching'
    <3>1. f.enabled \in BOOLEAN /\ f.account \in Accounts
      BY DEF SettingsForm
    <3>2. /\ config.revision \in 1 .. MaxRevision /\ config.revision < MaxRevision
          /\ config.password \in Accounts \cup {NoPassword}
      BY <2>2 DEF Settings
    <3>3. Password(f) \in {NoPassword, f.account}
      BY <2>1 DEF Password, Accepted, KeepsForeignPassword, SettingsForm
    <3>4. config.revision + 1 \in 1 .. MaxRevision
      BY <3>2, QueueAssumption
    <3> QED
      BY <2>1, <3>1, <3>3, <3>4 DEF Settings
  <2>4. /\ note' \in [Records -> Note \cup {NoNote}]
        /\ \A r \in Records : note'[r] \in {note[r], NoNote}
        /\ ~f.enabled => Unsent' = {}
    BY <2>1 DEF QueueAfter
  <2>5. config'.enabled = f.enabled
    BY <2>1
  <2> HIDE DEF Matching
  <2>6. /\ MailTypeOK'
        /\ Shared'
        /\ ReadMatching'
    <3>1. MailTypeOK'
      BY <2>2, <2>3, <2>4
    <3>2. Shared'
      BY <2>2
    <3>3. ReadMatching'
      BY <2>2
    <3> QED
      BY <3>1, <3>2, <3>3
  <2>7. NoneWhileDisabled'
    BY <2>4, <2>5
  <2>8. /\ \A r \in Rows' : r \in Rows /\ note'[r] = note[r]
        /\ InFlight' = InFlight
    BY <2>2, <2>4
  <2>9. Claimed'
    BY <2>2, <2>8
  <2>10. OneDelivery'
    BY <2>2, <2>8
  <2> QED
    BY <2>3, <2>6, <2>7, <2>9, <2>10
<1> QED
  BY <1>1, <1>2

(* The workers, with what they have read and claimed.                      *)
LEMMA WorkerMailInv ==
  ASSUME MailInv, NEW w \in Workers, Deliver(w) \/ Crash(w)
  PROVE  MailInv'
<1> USE DEF MailInv, MailTypeOK, Shared, NoneWhileDisabled, Matching, ReadMatching, Claimed, OneDelivery,
       InFlight, Unsent, Rows
<1>1. CASE ReadSettings(w)
  <2>1. at[w] = "idle" /\ config \in Settings
    BY <1>1 DEF ReadSettings
  <2> QED
    BY <1>1, <2>1 DEF ReadSettings, rows
<1>2. CASE Send(w)
  BY <1>2 DEF Send, rows
<1>3. CASE ClaimNothing(w) \/ CompleteFails(w) \/ Crash(w)
  <2>1. /\ UNCHANGED <<config, saving, recorder, notified, note, expired>>
        /\ crashes' \in 0 .. MaxCrashes
    BY <1>3, QueueAssumption DEF ClaimNothing, CompleteFails, Crash, rows
  <2>2. /\ at' = [at EXCEPT ![w] = "idle"] /\ held' = [held EXCEPT ![w] = NoJob] /\ job' = [job EXCEPT ![w] = NoJob]
    BY <1>3 DEF ClaimNothing, CompleteFails, Crash, Return
  <2> QED
    BY <2>1, <2>2
<1>4. CASE Claim(w)
  <2>1. PICK r \in Records :
          /\ Due(r)
          /\ note' = [note EXCEPT ![r].attempts = @ + 1, ![r].wait = "lease"]
          /\ job' = [job EXCEPT ![w] = [record |-> r, attempt |-> note[r].attempts + 1]]
    BY <1>4 DEF Claim
  <2>2. /\ at' = [at EXCEPT ![w] = "sending"] /\ at[w] = "ready"
        /\ UNCHANGED <<config, saving, recorder, notified, expired, held, crashes>>
    BY <1>4 DEF Claim
  <2>3. /\ note[r] \in Note /\ note'[r] \in Note /\ r \in Rows
        /\ note[r].attempts \in Nat /\ note'[r].attempts = note[r].attempts + 1
        /\ note'[r].wait = "lease" /\ ~note'[r].sent
        /\ note'[r].sent = note[r].sent /\ note'[r].error = note[r].error
    BY <2>1, QueueAssumption DEF Due, Note
  <2>4. /\ job'[w] = [record |-> r, attempt |-> note[r].attempts + 1] /\ job'[w] \in Job
        /\ job'[w].record = r /\ job'[w].attempt = note[r].attempts + 1
    BY <2>1, <2>3, QueueAssumption DEF Due, Note, Job
  <2>5. InFlight' = InFlight \cup {w} /\ w \notin InFlight
    BY <2>2
  <2>6. \A v \in InFlight : /\ job'[v] = job[v] /\ job[v] \in Job
                             /\ (job[v].record = r => job[v].attempt <= note[r].attempts)
    BY <2>1, <2>3, <2>5
  <2>7. \A v \in InFlight : job[v].attempt \in Nat
    BY <2>6 DEF Job
  <2>8. \A q \in Records \ {r} : note'[q] = note[q]
    BY <2>1
  <2>9. MailTypeOK'
    BY <2>1, <2>2, <2>3, <2>4, <2>8 DEF Job
  <2>10. Claimed'
    BY <2>1, <2>2, <2>3, <2>4, <2>5, <2>6, <2>7, <2>8
  <2>11. OneDelivery'
    BY <2>1, <2>3, <2>4, <2>5, <2>6, <2>7, <2>8
  <2>12. Shared' /\ Matching' /\ ReadMatching'
    BY <2>2
  <2>13. NoneWhileDisabled'
    <3>1. r \in Unsent
      BY <2>1 DEF Due
    <3> QED
      BY <2>2, <3>1
  <2> QED
    BY <2>9, <2>10, <2>11, <2>12, <2>13
<1>5. CASE Complete(w)
  <2>1. CASE ~ Written(w)
    BY <1>5, <2>1 DEF Complete, Return
  <2>2. CASE Written(w)
    <3> DEFINE r == job[w].record
               accepted == at[w] = "accepted"
    <3>1. r \in Rows /\ r \in Records /\ note[r].attempts = job[w].attempt /\ w \in InFlight
      BY <1>5, <2>2 DEF Complete, Written
    <3>2. note' = [note EXCEPT ![r] = Outcome(note[r], accepted)]
      BY <1>5, <2>2 DEF Complete
    <3>3. /\ at' = [at EXCEPT ![w] = "idle"] /\ held' = [held EXCEPT ![w] = NoJob] /\ job' = [job EXCEPT ![w] = NoJob]
          /\ UNCHANGED <<config, saving, recorder, notified, expired, crashes>>
      BY <1>5 DEF Complete, Return
    <3>4. \A v \in InFlight \ {w} : job[v] # job[w] /\ job[v] \in Job /\ job[w] \in Job
      BY <3>1
    <3>5. \A v \in InFlight \ {w} : job[v].record = r => job[v].attempt # note[r].attempts
      BY <3>1, <3>4 DEF Job
    <3>6. note[r] \in Note /\ ~note[r].sent
      BY <3>1
    <3>7. /\ note'[r] = Outcome(note[r], accepted) /\ note'[r] \in Note
          /\ note'[r].attempts = note[r].attempts /\ (note'[r].sent => ~note'[r].error)
      <4>1. ASSUME NEW n \in Note, ~n.sent, NEW a \in BOOLEAN
            PROVE  /\ Outcome(n, a) \in Note /\ Outcome(n, a).attempts = n.attempts
                   /\ Outcome(n, a).sent => ~Outcome(n, a).error
        <5>1. CASE a = TRUE
          BY <4>1, <5>1 DEF Outcome, Note
        <5>2. CASE a = FALSE
          BY <4>1, <5>2 DEF Outcome, Note
        <5> QED
          BY <5>1, <5>2
      <4>2. accepted \in BOOLEAN
        OBVIOUS
      <4>3. note'[r] = Outcome(note[r], accepted)
        BY <3>1, <3>2
      <4> HIDE DEF r, accepted
      <4> QED
        BY <3>6, <4>1, <4>2, <4>3
    <3> HIDE DEF r, accepted
    <3>8. \A q \in Records \ {r} : note'[q] = note[q]
      BY <3>2
    <3>9. InFlight' = InFlight \ {w} /\ \A v \in InFlight' : job'[v] = job[v]
      BY <3>3
    <3>10. MailTypeOK'
      BY <3>1, <3>2, <3>3, <3>7, <3>8
    <3>11. Claimed'
      BY <3>1, <3>3, <3>7, <3>8, <3>9
    <3>12. OneDelivery'
      BY <3>1, <3>5, <3>7, <3>8, <3>9
    <3>13. Unsent' \subseteq Unsent
      BY <3>1, <3>6, <3>8
    <3> QED
      BY <3>3, <3>10, <3>11, <3>12, <3>13
  <2> QED
    BY <2>1, <2>2
<1> QED
  BY <1>1, <1>2, <1>3, <1>4, <1>5 DEF Deliver

(* Leases and pauses end; notifications expire and are cleaned up.         *)
LEMMA TimeMailInv ==
  ASSUME MailInv, NEW r \in Records, WaitEnds(r) \/ Expire(r) \/ Cleanup(r)
  PROVE  MailInv'
<1> USE DEF MailInv, MailTypeOK, Shared, NoneWhileDisabled, Matching, ReadMatching, Claimed, OneDelivery,
       InFlight, Unsent, Rows
<1>1. CASE WaitEnds(r)
  <2>1. r \in Rows /\ note' = [note EXCEPT ![r].wait = "due"]
        /\ UNCHANGED <<config, saving, recorder, notified, expired, at, held, job, crashes>>
    BY <1>1 DEF WaitEnds, work
  <2>2. /\ note[r] \in Note /\ note'[r] \in Note
        /\ note'[r].attempts = note[r].attempts /\ note'[r].sent = note[r].sent
        /\ note'[r].error = note[r].error /\ note'[r].wait = "due"
    BY <2>1 DEF Note
  <2>3. \A q \in Records \ {r} : note'[q] = note[q]
    BY <2>1
  <2> QED
    BY <2>1, <2>2, <2>3
<1>2. CASE Expire(r)
  BY <1>2 DEF Expire, work
<1>3. CASE Cleanup(r)
  BY <1>3 DEF Cleanup, work
<1> QED
  BY <1>1, <1>2, <1>3

(* Every step keeps the invariant.                                         *)
LEMMA AlwaysMailInv == MailSafeSpec => []MailInv
<1>1. MailInv /\ [MailNext]_mailVars => MailInv'
  <2> SUFFICES ASSUME MailInv, [MailNext]_mailVars PROVE MailInv'
    OBVIOUS
  <2>1. CASE UNCHANGED mailVars
    BY <2>1 DEF mailVars, rows, work, MailInv, MailTypeOK, Shared, NoneWhileDisabled, Matching, ReadMatching, Claimed,
                OneDelivery, InFlight, Unsent, Rows
  <2>2. CASE MailNext
    BY <2>1, <2>2, RecordingMailInv, SavingMailInv, WorkerMailInv, TimeMailInv DEF MailNext, Poll
  <2> QED
    BY <2>1, <2>2
<1> QED
  BY <1>1, MailInitInv, PTL DEF MailSafeSpec

(* Settings, recorders, notifications and workers are what they are        *)
(* declared to be; no notification has more attempts than it may.          *)
THEOREM MailTypeCorrect == MailSafeSpec => []MailTypeOK
<1>1. MailInv => MailTypeOK
  BY DEF MailInv
<1> QED
  BY <1>1, AlwaysMailInv, PTL

(* Nothing waits to be sent while mails are disabled, however many         *)
(* requests are recorded while an administrator switches them off          *)
(* (Store.Record FOR SHARE against saveEmailSettings FOR UPDATE).          *)
THEOREM MailNoneWhileDisabled == MailSafeSpec => []NoneWhileDisabled
<1>1. MailInv => NoneWhileDisabled
  BY DEF MailInv
<1> QED
  BY <1>1, AlwaysMailInv, PTL

(* Of any number of workers whose leases have ended the last one counts:   *)
(* the attempt number in the WHERE of a completion tells it (email.go).    *)
THEOREM MailOneDelivery == MailSafeSpec => []OneDelivery
<1>1. MailInv => OneDelivery
  BY DEF MailInv
<1> QED
  BY <1>1, AlwaysMailInv, PTL

(* A password is presented only to the account it was saved for, whatever  *)
(* is saved while workers go on with what they have read.                  *)
THEOREM MailPasswordOfAccount == MailSafeSpec => []PasswordOfAccount
<1>1. MailInv => PasswordOfAccount
  BY DEF MailInv, ReadMatching, PasswordOfAccount, InFlight
<1> QED
  BY <1>1, AlwaysMailInv, PTL

-----------------------------------------------------------------------------
(***************************************************************************)
(* The configuration (Administration).  Revisions are bounded by the       *)
(* commits there have been.                                                *)
(***************************************************************************)
UpTo(n) == 1 .. changes + n
ChannelRows(n) == [credential : Credentials, enabled : BOOLEAN, revision : UpTo(n)]
PolicyRows(n) == [config : Config, enabled : BOOLEAN, archived : BOOLEAN, revision : UpTo(n)]
KeyRows(n) == [policies : SUBSET Policies, active : BOOLEAN, deleted : BOOLEAN, revision : UpTo(n)]

Stored ==
    /\ credential \in [Credentials -> Credential \cup {NoRow, Gone}]
    /\ channel \in [Channels -> ChannelRows(2) \cup {NoRow, Gone}]
    /\ policy \in [Policies -> PolicyRows(2) \cup {NoRow, Gone}]
    /\ key \in [Keys -> KeyRows(2) \cup {NoRow}]
    /\ run \in [Runs -> Run \cup {NoRow}]

Tabled ==
    /\ Stored
    /\ lock \in Admins \cup {Nobody}
    /\ changes \in 0 .. MaxChanges
    /\ change = [a \in Admins |-> change[a]] /\ seen = [a \in Admins |-> seen[a]]

(* What a transaction has checked of the row it is going to write: it      *)
(* holds what the row refers to, nobody refers to a row that is deleted,   *)
(* and the row is newer than the one it replaces.                          *)
SoundCredential(c, row) ==
    /\ c \in Credentials /\ row \in Credential \cup {Gone}
    /\ row = Gone => \A h \in Channels : Exists(channel[h]) => channel[h].credential # c

SoundChannel(h, row) ==
    /\ h \in Channels /\ row \in ChannelRows(3) \cup {Gone}
    /\ IF row = Gone
         THEN \A p \in Policies : Exists(policy[p]) => h \notin policy[p].config.on \cup policy[p].config.off
         ELSE /\ Exists(credential[row.credential]) /\ channel[h] # Gone
              /\ Exists(channel[h]) => channel[h].revision < row.revision

SoundPolicy(p, row) ==
    /\ p \in Policies /\ row \in PolicyRows(3) \cup {Gone}
    /\ IF row = Gone
         THEN ~Evaluated(p) /\ \A k \in Keys : ~Authorised(k, p)
         ELSE /\ policy[p] # Gone
              /\ \A h \in row.config.on \cup row.config.off : Exists(channel[h])
              /\ row.archived => ~Evaluated(p)
              /\ row.enabled => Ready(row.config)
              /\ Exists(policy[p]) => policy[p].revision < row.revision

SoundKey(k, row) ==
    /\ k \in Keys /\ row \in KeyRows(3)
    /\ ~row.deleted => Known(row.policies)
    /\ Exists(key[k]) => key[k].revision < row.revision

SoundRun(e, row) ==
    /\ e \in Runs /\ row \in Run
    /\ Exists(policy[row.policy]) /\ ~policy[row.policy].archived

Sound(name, id, row) ==
    \/ name = "credential" /\ SoundCredential(id, row)
    \/ name = "channel" /\ SoundChannel(id, row)
    \/ name = "policy" /\ SoundPolicy(id, row)
    \/ name = "key" /\ SoundKey(id, row)
    \/ name = "run" /\ SoundRun(id, row)

(* One transaction at a time, and what it has checked is still so.         *)
Locked == \A a \in Admins : change[a] # NoChange => lock = a

Prepared(a) ==
    /\ changes < MaxChanges
    /\ \E name \in {"credential", "channel", "policy", "key", "run"} : \E form \in BOOLEAN : \E id, row :
          /\ change[a] = [table |-> name, id |-> id, row |-> row, form |-> form]
          /\ Sound(name, id, row)
          /\ form => /\ name \in {"channel", "policy", "key"} /\ Exists(Table(name)[id])
                     /\ seen[a] # NoView /\ View(name, id) = seen[a].view

Checked == \A a \in Admins : change[a] # NoChange => Prepared(a)

(* What a form shows was in a table once, and if the row in the table has  *)
(* the same revision the page has not changed.                             *)
ShowsChannel(view, h) ==
    /\ h \in Channels /\ channel[h] # NoRow
    /\ Exists(channel[h]) =>
          /\ view.row.revision <= channel[h].revision
          /\ view.row.revision = channel[h].revision => view = View("channel", h)

ShowsPolicy(view, p) ==
    /\ p \in Policies /\ policy[p] # NoRow
    /\ view.row.config \in Config
    /\ Exists(policy[p]) =>
          /\ view.row.revision <= policy[p].revision
          /\ view.row.revision = policy[p].revision => view = View("policy", p)

ShowsKey(view, k) ==
    /\ k \in Keys /\ key[k] # NoRow
    /\ view.row.revision <= key[k].revision
    /\ view.row.revision = key[k].revision => view = View("key", k)

Shows(name, id, view) ==
    \/ name = "channel" /\ ShowsChannel(view, id)
    \/ name = "policy" /\ ShowsPolicy(view, id)
    \/ name = "key" /\ ShowsKey(view, id)

Shown == \A a \in Admins : seen[a] # NoView =>
    \E name \in {"channel", "policy", "key"} : \E id, view :
        /\ seen[a] = [table |-> name, id |-> id, view |-> view]
        /\ Shows(name, id, view) /\ view.row.revision \in Nat

AdminInv == Tabled /\ ReferencesIntact /\ Locked /\ Checked /\ Shown

(* Rows are no placeholders, and are within the bound of their revisions.  *)
LEMMA RowFacts ==
  ASSUME Tabled
  PROVE  /\ changes \in Nat /\ MaxChanges \in Nat /\ NoRow # Gone /\ Nobody \notin Admins
         /\ ChannelRows(2) \subseteq Channel /\ PolicyRows(2) \subseteq Policy /\ KeyRows(2) \subseteq Key
         /\ changes < MaxChanges =>
              ChannelRows(3) \subseteq Channel /\ PolicyRows(3) \subseteq Policy /\ KeyRows(3) \subseteq Key
         /\ \A x \in Credential \cup Channel \cup Policy \cup Key \cup Run : Exists(x)
         /\ ~Exists(NoRow) /\ ~Exists(Gone)
<1>1. changes \in Nat /\ MaxChanges \in Nat /\ changes <= MaxChanges
  BY AdministrationAssumption DEF Tabled, Stored
<1>2. UpTo(2) \subseteq Revision /\ (changes < MaxChanges => UpTo(3) \subseteq Revision)
  BY <1>1 DEF UpTo, Revision
<1>3. ChannelRows(2) \subseteq Channel /\ (changes < MaxChanges => ChannelRows(3) \subseteq Channel)
  BY <1>2 DEF ChannelRows, Channel
<1>4. PolicyRows(2) \subseteq Policy /\ (changes < MaxChanges => PolicyRows(3) \subseteq Policy)
  BY <1>2 DEF PolicyRows, Policy
<1>5. KeyRows(2) \subseteq Key /\ (changes < MaxChanges => KeyRows(3) \subseteq Key)
  BY <1>2 DEF KeyRows, Key
<1> QED
  BY <1>1, <1>3, <1>4, <1>5, AdministrationAssumption, TableAssumption DEF Exists

(* What a transaction has checked depends on the tables only, and the end  *)
(* of an evaluation does not take it back.                                 *)
LEMMA SoundStays ==
  ASSUME NEW name, NEW id, NEW row, Sound(name, id, row),
         UNCHANGED <<credential, channel, policy, key, changes>>,
         \A p \in Policies : Evaluated(p)' => Evaluated(p)
  PROVE  Sound(name, id, row)'
<1>1. CASE name = "credential" /\ SoundCredential(id, row)
  BY <1>1 DEF Sound, SoundCredential
<1>2. CASE name = "channel" /\ SoundChannel(id, row)
  BY <1>2 DEF Sound, SoundChannel, ChannelRows, UpTo
<1>3. CASE name = "policy" /\ SoundPolicy(id, row)
  BY <1>3 DEF Sound, SoundPolicy, PolicyRows, UpTo, Authorised, Ready
<1>4. CASE name = "key" /\ SoundKey(id, row)
  BY <1>4 DEF Sound, SoundKey, KeyRows, UpTo, Known
<1>5. CASE name = "run" /\ SoundRun(id, row)
  BY <1>5 DEF Sound, SoundRun
<1> QED
  BY <1>1, <1>2, <1>3, <1>4, <1>5 DEF Sound

(* A page stays true while the tables do.                                  *)
LEMMA ShowsStays ==
  ASSUME NEW name \in {"channel", "policy", "key"}, NEW id, NEW view, Shows(name, id, view),
         UNCHANGED <<credential, channel, policy, key>>
  PROVE  Shows(name, id, view)' /\ View(name, id)' = View(name, id) /\ Table(name)' = Table(name)
BY DEF Shows, ShowsChannel, ShowsPolicy, ShowsKey, View, Table

(* So do the references, and no evaluation begins.                         *)
LEMMA TablesStay ==
  ASSUME Tabled, ReferencesIntact, UNCHANGED <<credential, channel, policy, key, run, changes>>
  PROVE  ReferencesIntact' /\ \A p \in Policies : Evaluated(p)' => Evaluated(p)
BY DEF ReferencesIntact, Evaluated, Known

(* Taking the lock: nobody else has prepared a row, and what the form      *)
(* showed is what the table has, since its revision is.                    *)
LEMMA Prepares ==
  ASSUME AdminInv, NEW a \in Admins, NEW name \in {"credential", "channel", "policy", "key", "run"}, NEW id, NEW row,
         NEW form \in BOOLEAN, Lock(a), Prepare(a, name, id, row, form), Sound(name, id, row),
         form => Current(a, name, id) /\ Exists(Table(name)[id])
  PROVE  AdminInv'
<1>1. /\ lock = Nobody /\ lock' = a /\ changes < MaxChanges
      /\ change' = [change EXCEPT ![a] = [table |-> name, id |-> id, row |-> row, form |-> form]]
      /\ UNCHANGED <<credential, channel, policy, key, run, seen, changes>>
  BY DEF Lock, Prepare, tables
<1>2. Tabled' /\ ReferencesIntact'
  <2>1. Tabled'
    BY <1>1 DEF AdminInv, Tabled, Stored, ChannelRows, PolicyRows, KeyRows, UpTo
  <2> QED
    BY <1>1, <2>1, TablesStay DEF AdminInv
<1>3. \A b \in Admins \ {a} : change[b] = NoChange /\ change'[b] = NoChange
  BY <1>1, RowFacts DEF AdminInv, Locked, Tabled, Stored
<1>4. change'[a] = [table |-> name, id |-> id, row |-> row, form |-> form]
  BY <1>1 DEF AdminInv, Tabled, Stored
<1>5. Locked'
  BY <1>1, <1>3 DEF Locked
<1>6. form => name \in {"channel", "policy", "key"} /\ seen[a] # NoView /\ View(name, id) = seen[a].view
  <2> SUFFICES ASSUME form
               PROVE  name \in {"channel", "policy", "key"} /\ seen[a] # NoView /\ View(name, id) = seen[a].view
    OBVIOUS
  <2>1. /\ seen[a] # NoView /\ seen[a].table = name /\ seen[a].id = id
        /\ seen[a].view.row.revision = Table(name)[id].revision
    BY DEF Current, Form
  <2>2. PICK tab \in {"channel", "policy", "key"} : \E i, view :
          seen[a] = [table |-> tab, id |-> i, view |-> view] /\ Shows(tab, i, view)
    BY <2>1 DEF AdminInv, Shown
  <2>3. PICK i, view : seen[a] = [table |-> tab, id |-> i, view |-> view] /\ Shows(tab, i, view)
    BY <2>2
  <2>4. tab = name /\ i = id /\ view = seen[a].view
    BY <2>1, <2>3
  <2> QED
    BY <2>1, <2>3, <2>4 DEF Shows, ShowsChannel, ShowsPolicy, ShowsKey, Table
<1>7. Sound(name, id, row)'
  BY <1>1, SoundStays, TablesStay DEF AdminInv
<1>8. View(name, id)' = View(name, id) /\ Table(name)' = Table(name)
  BY <1>1 DEF View, Table
<1>9. Checked'
  <2> SUFFICES ASSUME NEW b \in Admins, change'[b] # NoChange
               PROVE  Prepared(b)'
    BY DEF Checked
  <2>1. b = a
    BY <1>3
  <2>2. Exists(Table(name)[id])' <=> Exists(Table(name)[id])
    BY <1>8 DEF Exists
  <2> QED
    BY <1>1, <1>4, <1>6, <1>7, <1>8, <2>1, <2>2 DEF Prepared
<1>10. Shown'
  BY <1>1, ShowsStays DEF AdminInv, Shown
<1> QED
  BY <1>2, <1>5, <1>9, <1>10 DEF AdminInv

(* Nothing is lost by steps that leave the tables alone, but for runs that *)
(* end, and what others have prepared and see.                             *)
LEMMA CheckedStays ==
  ASSUME Checked, UNCHANGED <<credential, channel, policy, key, changes>>,
         \A p \in Policies : Evaluated(p)' => Evaluated(p),
         \A b \in Admins : change'[b] # NoChange => change'[b] = change[b] /\ seen'[b] = seen[b]
  PROVE  Checked'
<1> SUFFICES ASSUME NEW b \in Admins, change'[b] # NoChange
             PROVE  Prepared(b)'
  BY DEF Checked
<1>1. PICK n \in {"credential", "channel", "policy", "key", "run"}, f \in BOOLEAN : \E i, r :
          /\ change[b] = [table |-> n, id |-> i, row |-> r, form |-> f]
          /\ Sound(n, i, r)
          /\ f => /\ n \in {"channel", "policy", "key"} /\ Exists(Table(n)[i])
                  /\ seen[b] # NoView /\ View(n, i) = seen[b].view
  BY DEF Checked, Prepared
<1>2. PICK i, r :
          /\ change[b] = [table |-> n, id |-> i, row |-> r, form |-> f]
          /\ Sound(n, i, r)
          /\ f => /\ n \in {"channel", "policy", "key"} /\ Exists(Table(n)[i])
                  /\ seen[b] # NoView /\ View(n, i) = seen[b].view
  BY <1>1
<1>3. Sound(n, i, r)'
  BY <1>2, SoundStays
<1>4. n # "run" => View(n, i)' = View(n, i) /\ (Exists(Table(n)[i])' <=> Exists(Table(n)[i]))
  BY DEF View, Table, Exists
<1>5. changes' < MaxChanges
  BY DEF Checked, Prepared
<1> QED
  BY <1>2, <1>3, <1>4, <1>5 DEF Prepared

(* A page shows what is there.                                             *)
LEMMA Opens ==
  ASSUME AdminInv, NEW a \in Admins, NEW name \in {"channel", "policy", "key"}, NEW id, Open(a, name, id),
         \/ name = "channel" /\ id \in Channels
         \/ name = "policy" /\ id \in Policies
         \/ name = "key" /\ id \in Keys
  PROVE  AdminInv'
<1>1. /\ Exists(Table(name)[id]) /\ change[a] = NoChange
      /\ seen' = [seen EXCEPT ![a] = [table |-> name, id |-> id, view |-> View(name, id)]]
      /\ UNCHANGED <<credential, channel, policy, key, run, lock, change, changes>>
  BY DEF Open, tables
<1>2. Tabled' /\ ReferencesIntact'
  <2>1. Tabled'
    BY <1>1 DEF AdminInv, Tabled, Stored, ChannelRows, PolicyRows, KeyRows, UpTo
  <2> QED
    BY <1>1, <2>1, TablesStay DEF AdminInv
<1>3. Locked'
  BY <1>1 DEF AdminInv, Locked
<1>4. Checked'
  <2>1. \A b \in Admins : change'[b] # NoChange => b # a /\ seen'[b] = seen[b] /\ change'[b] = change[b]
    BY <1>1 DEF AdminInv, Tabled, Stored
  <2> QED
    BY <1>1, <2>1, CheckedStays, TablesStay DEF AdminInv
<1>5. Shows(name, id, View(name, id)) /\ View(name, id).row.revision \in Nat
  <2>1. Table(name)[id] \in ChannelRows(2) \cup PolicyRows(2) \cup KeyRows(2) /\ View(name, id).row = Table(name)[id]
    BY <1>1 DEF AdminInv, Tabled, Stored, Table, Exists, View
  <2>2. View(name, id).row.revision \in Nat
    BY <2>1, RowFacts DEF ChannelRows, PolicyRows, KeyRows, UpTo, AdminInv
  <2>3. name = "policy" => View(name, id).row.config \in Config
    BY <1>1, <2>1 DEF AdminInv, Tabled, Stored, Table, Exists, PolicyRows
  <2> QED
    BY <1>1, <2>1, <2>2, <2>3 DEF Shows, ShowsChannel, ShowsPolicy, ShowsKey, Table, Exists
<1>6. Shown'
  <2> SUFFICES ASSUME NEW b \in Admins, seen'[b] # NoView
               PROVE  \E n \in {"channel", "policy", "key"} : \E i, view :
                          /\ seen'[b] = [table |-> n, id |-> i, view |-> view]
                          /\ Shows(n, i, view)' /\ view.row.revision \in Nat
    BY DEF Shown
  <2>1. CASE b = a
    <3>1. seen'[a] = [table |-> name, id |-> id, view |-> View(name, id)]
      BY <1>1 DEF AdminInv, Tabled, Stored
    <3>2. \A view : Shows(name, id, view) => Shows(name, id, view)'
      BY <1>1, ShowsStays
    <3> QED
      BY <1>5, <2>1, <3>1, <3>2
  <2>2. CASE b # a
    <3>1. seen'[b] = seen[b]
      BY <1>1, <2>2 DEF AdminInv, Tabled, Stored
    <3>2. PICK n \in {"channel", "policy", "key"} : \E i, view :
             /\ seen[b] = [table |-> n, id |-> i, view |-> view]
             /\ Shows(n, i, view) /\ view.row.revision \in Nat
      BY <3>1 DEF AdminInv, Shown
    <3>3. \A i, view : Shows(n, i, view) => Shows(n, i, view)'
      BY <1>1, ShowsStays
    <3> QED
      BY <3>1, <3>2, <3>3
  <2> QED
    BY <2>1, <2>2
<1> QED
  BY <1>2, <1>3, <1>4, <1>6 DEF AdminInv

(* A form is given up, or a transaction ends without a trace.              *)
LEMMA Aborts ==
  ASSUME AdminInv, NEW a \in Admins, Abort(a)
  PROVE  AdminInv'
<1>1. /\ UNCHANGED <<credential, channel, policy, key, run, changes>>
      /\ lock' = IF lock = a THEN Nobody ELSE lock
      /\ change' = [change EXCEPT ![a] = NoChange]
      /\ seen' = [seen EXCEPT ![a] = NoView]
  BY DEF Abort, Finish, tables
<1>2. Tabled' /\ ReferencesIntact'
  <2>1. Tabled'
    BY <1>1 DEF AdminInv, Tabled, Stored, ChannelRows, PolicyRows, KeyRows, UpTo
  <2> QED
    BY <1>1, <2>1, TablesStay DEF AdminInv
<1>3. change'[a] = NoChange /\ \A b \in Admins \ {a} : change'[b] = change[b]
  BY <1>1 DEF AdminInv, Tabled, Stored
<1>4. seen'[a] = NoView /\ \A b \in Admins \ {a} : seen'[b] = seen[b]
  BY <1>1 DEF AdminInv, Tabled, Stored
<1>5. Locked'
  BY <1>1, <1>3 DEF AdminInv, Locked
<1>6. Checked'
  <2>1. \A b \in Admins : change'[b] # NoChange => seen'[b] = seen[b] /\ change'[b] = change[b]
    BY <1>3, <1>4
  <2> QED
    BY <1>1, <2>1, CheckedStays, TablesStay DEF AdminInv
<1>7. \A n \in {"channel", "policy", "key"} : \A i, view : Shows(n, i, view) => Shows(n, i, view)'
  BY <1>1, ShowsStays
<1>8. Shown'
  <2>1. \A b \in Admins : seen'[b] # NoView => seen'[b] = seen[b]
    BY <1>4
  <2> QED
    BY <1>7, <2>1 DEF AdminInv, Shown
<1> QED
  BY <1>2, <1>5, <1>6, <1>8 DEF AdminInv

(* Pages stay true together.                                               *)
LEMMA ShownStays ==
  ASSUME Shown, UNCHANGED <<credential, channel, policy, key>>, UNCHANGED seen
  PROVE  Shown'
<1>1. \A n \in {"channel", "policy", "key"} : \A i, view : Shows(n, i, view) => Shows(n, i, view)'
  BY ShowsStays
<1> QED
  BY <1>1 DEF Shown

(* The worker of an evaluation needs no lock.                              *)
LEMMA EvaluationEnds ==
  ASSUME AdminInv, NEW e \in Runs, EndEvaluation(e)
  PROVE  AdminInv'
<1>1. /\ Exists(run[e]) /\ run[e].active /\ run' = [run EXCEPT ![e].active = FALSE]
      /\ UNCHANGED <<credential, channel, policy, key, lock, seen, change, changes>>
  BY DEF EndEvaluation
<1>2. run[e] \in Run /\ run'[e] \in Run /\ ~run'[e].active /\ \A f \in Runs \ {e} : run'[f] = run[f]
  BY <1>1 DEF AdminInv, Tabled, Stored, Exists, Run
<1>3. Tabled'
  BY <1>1, <1>2 DEF AdminInv, Tabled, Stored, ChannelRows, PolicyRows, KeyRows, UpTo
<1>4. \A p \in Policies : Evaluated(p)' => Evaluated(p)
  BY <1>2 DEF Evaluated, Exists
<1>5. ReferencesIntact'
  BY <1>1, <1>4 DEF AdminInv, ReferencesIntact, Known
<1>6. Locked'
  BY <1>1 DEF AdminInv, Locked
<1>7. Checked'
  BY <1>1, <1>4, CheckedStays DEF AdminInv
<1>8. Shown'
  BY <1>1, ShownStays DEF AdminInv
<1> QED
  BY <1>3, <1>5, <1>6, <1>7, <1>8 DEF AdminInv

(***************************************************************************)
(* The operations: each settles on a row that is sound.                    *)
(***************************************************************************)
LEMMA CredentialPrepared ==
  ASSUME AdminInv, NEW a \in Admins, NEW c \in Credentials, CredentialAction(a, c)
  PROVE  AdminInv'
<1>1. ASSUME NEW active \in BOOLEAN, Lock(a), Prepare(a, "credential", c, [active |-> active], FALSE)
      PROVE  AdminInv'
  <2>1. [active |-> active] \in Credential
    BY DEF Credential
  <2>2. Sound("credential", c, [active |-> active])
    BY <2>1, RowFacts DEF Sound, SoundCredential, AdminInv, Exists
  <2> QED
    BY <1>1, <2>2, Prepares
<1>2. CASE DeleteCredential(a, c)
  <2>1. Sound("credential", c, Gone)
    BY <1>2 DEF DeleteCredential, Sound, SoundCredential
  <2> QED
    BY <1>2, <2>1, Prepares DEF DeleteCredential
<1> QED
  BY <1>1, <1>2 DEF CredentialAction, CreateCredential, SaveProviderCredential

(* A channel has a credential that is there, and a new revision; one that  *)
(* is deleted is bound by no policy.                                       *)
LEMMA ChannelPrepared ==
  ASSUME AdminInv, NEW a \in Admins, NEW h \in Channels, ChannelAction(a, h)
  PROVE  AdminInv'
<1>1. /\ changes \in Nat
      /\ \A x \in ChannelRows(3) : changes < MaxChanges => Exists(x)
      /\ Exists(channel[h]) => channel[h] \in ChannelRows(2)
  BY RowFacts DEF AdminInv, Tabled, Stored, Exists
<1>2. ASSUME NEW c \in Credentials, NEW enabled \in BOOLEAN, NEW n \in UpTo(3), NEW form \in BOOLEAN,
             Lock(a), Prepare(a, "channel", h, [credential |-> c, enabled |-> enabled, revision |-> n], form),
             Exists(credential[c]), channel[h] # Gone, Exists(channel[h]) => channel[h].revision < n,
             form => Current(a, "channel", h) /\ Exists(channel[h])
      PROVE  AdminInv'
  <2>1. [credential |-> c, enabled |-> enabled, revision |-> n] \in ChannelRows(3)
    BY DEF ChannelRows
  <2>2. changes < MaxChanges
    BY <1>2 DEF Prepare
  <2>3. Sound("channel", h, [credential |-> c, enabled |-> enabled, revision |-> n])
    BY <1>1, <1>2, <2>1, <2>2 DEF Sound, SoundChannel, Exists
  <2> QED
    BY <1>2, <2>3, Prepares DEF Table
<1>3. /\ 1 \in UpTo(3)
      /\ Exists(channel[h]) => channel[h].revision + 1 \in UpTo(3) /\ channel[h].revision < channel[h].revision + 1
  BY <1>1 DEF ChannelRows, UpTo
<1>4. CASE CreateChannel(a, h)
  BY <1>1, <1>2, <1>3, <1>4, TableAssumption DEF CreateChannel, Exists
<1>5. CASE SaveChannel(a, h)
  BY <1>1, <1>2, <1>3, <1>5 DEF SaveChannel, Exists
<1>6. CASE DeleteChannel(a, h)
  <2>1. Sound("channel", h, Gone)
    BY <1>6 DEF DeleteChannel, Sound, SoundChannel
  <2> QED
    BY <1>6, <2>1, Prepares DEF DeleteChannel
<1>7. CASE ClearChannelCache(a, h)
  <2> DEFINE row == [credential |-> channel[h].credential, enabled |-> channel[h].enabled,
                     revision |-> channel[h].revision + 1]
  <2>1. Exists(channel[h]) /\ Lock(a) /\ Prepare(a, "channel", h, [channel[h] EXCEPT !.revision = @ + 1], FALSE)
    BY <1>7 DEF ClearChannelCache
  <2>2. [channel[h] EXCEPT !.revision = @ + 1] = row
    BY <1>1, <2>1 DEF ChannelRows
  <2>3. channel[h].credential \in Credentials /\ channel[h].enabled \in BOOLEAN
    BY <1>1, <2>1 DEF ChannelRows
  <2>4. Exists(credential[channel[h].credential])
    BY <2>1 DEF AdminInv, ReferencesIntact
  <2> QED
    BY <1>2, <1>3, <2>1, <2>2, <2>3, <2>4 DEF Exists
<1> QED
  BY <1>4, <1>5, <1>6, <1>7 DEF ChannelAction

(* A key is for policies that are there, unless it is deleted.             *)
LEMMA KeyPrepared ==
  ASSUME AdminInv, NEW a \in Admins, NEW k \in Keys, KeyAction(a, k)
  PROVE  AdminInv'
<1>1. /\ changes \in Nat
      /\ Exists(key[k]) => key[k] \in KeyRows(2)
  BY RowFacts DEF AdminInv, Tabled, Stored, Exists
<1>2. ASSUME NEW form \in BOOLEAN, NEW row \in KeyRows(3), Lock(a), Prepare(a, "key", k, row, form),
             row.deleted \/ Known(row.policies), Exists(key[k]) => key[k].revision < row.revision,
             form => Current(a, "key", k) /\ Exists(key[k])
      PROVE  AdminInv'
  <2>1. Sound("key", k, row)
    BY <1>2 DEF Sound, SoundKey
  <2> QED
    BY <1>2, <2>1, Prepares DEF Table
<1>3. Exists(key[k]) => /\ key[k].revision + 1 \in UpTo(3) /\ key[k].revision < key[k].revision + 1
                        /\ ~key[k].deleted => Known(key[k].policies)
  BY <1>1 DEF KeyRows, UpTo, AdminInv, ReferencesIntact
<1>4. CASE CreateKey(a, k)
  <2>1. PICK policies \in SUBSET Policies : Known(policies) /\
          Prepare(a, "key", k, [policies |-> policies, active |-> TRUE, deleted |-> FALSE, revision |-> 1], FALSE)
    BY <1>4 DEF CreateKey
  <2> DEFINE row == [policies |-> policies, active |-> TRUE, deleted |-> FALSE, revision |-> 1]
  <2>2. row \in KeyRows(3) /\ row.policies = policies
    BY <1>1 DEF KeyRows, UpTo
  <2>3. Prepare(a, "key", k, row, FALSE) /\ Lock(a) /\ ~Exists(key[k])
    BY <1>4, <2>1 DEF CreateKey, Exists
  <2> HIDE DEF row
  <2> QED
    BY <1>2, <2>1, <2>2, <2>3
<1>5. CASE UpdateKey(a, k)
  <2>1. PICK policies \in SUBSET Policies, active \in BOOLEAN : Known(policies) /\
          Prepare(a, "key", k, [key[k] EXCEPT !.policies = policies, !.active = active, !.revision = @ + 1], TRUE)
    BY <1>5 DEF UpdateKey
  <2> DEFINE row == [key[k] EXCEPT !.policies = policies, !.active = active, !.revision = @ + 1]
  <2>2. Prepare(a, "key", k, row, TRUE) /\ Lock(a) /\ Exists(key[k]) /\ Current(a, "key", k)
    BY <1>5, <2>1 DEF UpdateKey
  <2>3. row \in KeyRows(3) /\ row.policies = policies /\ row.revision = key[k].revision + 1
    BY <1>1, <1>3, <2>2 DEF KeyRows
  <2> HIDE DEF row
  <2> QED
    BY <1>2, <1>3, <2>1, <2>2, <2>3
<1>6. CASE RotateKey(a, k)
  <2> DEFINE row == [key[k] EXCEPT !.revision = @ + 1]
  <2>1. Prepare(a, "key", k, row, TRUE) /\ Lock(a) /\ Exists(key[k]) /\ Current(a, "key", k) /\ ~key[k].deleted
    BY <1>6 DEF RotateKey
  <2>2. row \in KeyRows(3) /\ row.policies = key[k].policies /\ row.revision = key[k].revision + 1
    BY <1>1, <1>3, <2>1 DEF KeyRows
  <2> HIDE DEF row
  <2> QED
    BY <1>2, <1>3, <2>1, <2>2
<1>7. CASE RevokeKey(a, k)
  <2> DEFINE row == Revoked(key[k])
  <2>1. Prepare(a, "key", k, row, FALSE) /\ Lock(a) /\ Exists(key[k]) /\ ~key[k].deleted
    BY <1>7 DEF RevokeKey
  <2>2. row \in KeyRows(3) /\ row.policies = key[k].policies /\ row.revision = key[k].revision + 1
    BY <1>1, <1>3, <2>1 DEF KeyRows, Revoked
  <2> HIDE DEF row
  <2> QED
    BY <1>2, <1>3, <2>1, <2>2
<1>8. CASE DeleteKey(a, k)
  <2> DEFINE row == [Revoked(key[k]) EXCEPT !.deleted = TRUE]
  <2>1. Prepare(a, "key", k, row, FALSE) /\ Lock(a) /\ Exists(key[k])
    BY <1>8 DEF DeleteKey
  <2>2. row \in KeyRows(3) /\ row.deleted /\ row.revision = key[k].revision + 1
    BY <1>1, <1>3, <2>1 DEF KeyRows, Revoked
  <2> HIDE DEF row
  <2> QED
    BY <1>2, <1>3, <2>1, <2>2
<1> QED
  BY <1>4, <1>5, <1>6, <1>7, <1>8 DEF KeyAction

(* A policy binds channels that are there; it is enabled only when one of  *)
(* them can be called, archived or deleted only when nothing needs it.     *)
LEMMA PolicyPrepared ==
  ASSUME AdminInv, NEW a \in Admins, NEW p \in Policies, PolicyAction(a, p)
  PROVE  AdminInv'
<1>1. /\ changes \in Nat
      /\ \A x \in PolicyRows(3) : changes < MaxChanges => Exists(x)
      /\ Exists(policy[p]) => policy[p] \in PolicyRows(2)
  BY RowFacts DEF AdminInv, Tabled, Stored, Exists
<1>2. ASSUME NEW form \in BOOLEAN, NEW row \in PolicyRows(3), Lock(a), Prepare(a, "policy", p, row, form),
             \A h \in row.config.on \cup row.config.off : Exists(channel[h]),
             row.archived => ~Evaluated(p), row.enabled => Ready(row.config), policy[p] # Gone,
             Exists(policy[p]) => policy[p].revision < row.revision,
             form => Current(a, "policy", p) /\ Exists(policy[p])
      PROVE  AdminInv'
  <2>1. Exists(row)
    BY <1>1, <1>2 DEF Prepare
  <2>2. Sound("policy", p, row)
    BY <1>2, <2>1 DEF Sound, SoundPolicy, Exists
  <2> QED
    BY <1>2, <2>2, Prepares DEF Table
<1>3. Exists(policy[p]) =>
        /\ policy[p] # Gone /\ policy[p].revision + 1 \in UpTo(3) /\ policy[p].revision < policy[p].revision + 1
        /\ \A h \in policy[p].config.on \cup policy[p].config.off : Exists(channel[h])
  BY <1>1 DEF PolicyRows, UpTo, AdminInv, ReferencesIntact, Exists
<1>4. ASSUME NEW c \in Config, policy[p] = NoRow, Lock(a), ValidBindings(c, FALSE),
             Prepare(a, "policy", p, NewPolicy(c), FALSE)
      PROVE  AdminInv'
  <2>1. NewPolicy(c) \in PolicyRows(3) /\ NewPolicy(c).config = c /\ ~NewPolicy(c).archived /\ ~NewPolicy(c).enabled
    BY <1>1 DEF PolicyRows, UpTo, NewPolicy
  <2> QED
    BY <1>2, <1>4, <2>1, TableAssumption DEF ValidBindings, Exists
<1>5. Source(a) \in Config
  <2>1. CASE seen[a] # NoView /\ seen[a].table = "policy"
    <3>1. PICK n \in {"channel", "policy", "key"} : \E i, view :
            seen[a] = [table |-> n, id |-> i, view |-> view] /\ Shows(n, i, view)
      BY <2>1 DEF AdminInv, Shown
    <3>2. PICK i, view : seen[a] = [table |-> n, id |-> i, view |-> view] /\ Shows(n, i, view)
      BY <3>1
    <3>3. n = "policy" /\ seen[a].view = view
      BY <2>1, <3>2
    <3>4. view.row.config \in Config
      BY <3>2, <3>3 DEF Shows, ShowsPolicy
    <3> QED
      BY <2>1, <3>3, <3>4 DEF Source
  <2>2. CASE ~(seen[a] # NoView /\ seen[a].table = "policy")
    BY <2>2 DEF Source, DefaultSettings, Config
  <2> QED
    BY <2>1, <2>2
<1>6. CASE CreatePolicy(a, p) \/ ImportPolicy(a, p)
  BY <1>4, <1>5, <1>6 DEF CreatePolicy, ImportPolicy
<1>7. CASE SaveConfig(a, p)
  <2>1. PICK c \in Config : ValidBindings(c, policy[p].enabled) /\
          Prepare(a, "policy", p, [policy[p] EXCEPT !.config = c, !.revision = @ + 1], TRUE)
    BY <1>7 DEF SaveConfig
  <2> DEFINE row == [policy[p] EXCEPT !.config = c, !.revision = @ + 1]
  <2>2. /\ Prepare(a, "policy", p, row, TRUE) /\ Lock(a) /\ Exists(policy[p]) /\ Current(a, "policy", p)
        /\ ~policy[p].archived
    BY <1>7, <2>1 DEF SaveConfig
  <2>3. /\ row \in PolicyRows(3) /\ row.config = c /\ row.revision = policy[p].revision + 1
        /\ row.archived = policy[p].archived /\ row.enabled = policy[p].enabled
    BY <1>1, <1>3, <2>2 DEF PolicyRows
  <2> HIDE DEF row
  <2>4. (\A h \in row.config.on \cup row.config.off : Exists(channel[h])) /\ (row.enabled => Ready(row.config))
    BY <2>1, <2>3 DEF ValidBindings
  <2> QED
    BY <1>2, <1>3, <2>2, <2>3, <2>4
<1>8. CASE SetPolicyState(a, p)
  <2>1. PICK enabled \in BOOLEAN :
          /\ enabled => ValidBindings(policy[p].config, TRUE)
          /\ Prepare(a, "policy", p, [policy[p] EXCEPT !.enabled = enabled, !.revision = @ + 1], TRUE)
    BY <1>8 DEF SetPolicyState, ReadyToEnable
  <2> DEFINE row == [policy[p] EXCEPT !.enabled = enabled, !.revision = @ + 1]
  <2>2. /\ Prepare(a, "policy", p, row, TRUE) /\ Lock(a) /\ Exists(policy[p]) /\ Current(a, "policy", p)
        /\ ~policy[p].archived
    BY <1>8, <2>1 DEF SetPolicyState
  <2>3. /\ row \in PolicyRows(3) /\ row.config = policy[p].config /\ row.revision = policy[p].revision + 1
        /\ row.archived = policy[p].archived /\ row.enabled = enabled
    BY <1>1, <1>3, <2>2 DEF PolicyRows
  <2> HIDE DEF row
  <2>4. row.enabled => Ready(row.config)
    BY <2>1, <2>3 DEF ValidBindings
  <2> QED
    BY <1>2, <1>3, <2>2, <2>3, <2>4
<1>9. CASE ArchivePolicy(a, p)
  <2> DEFINE row == [policy[p] EXCEPT !.archived = ~@, !.enabled = FALSE, !.revision = @ + 1]
  <2>1. /\ Prepare(a, "policy", p, row, TRUE) /\ Lock(a) /\ Exists(policy[p]) /\ Current(a, "policy", p)
        /\ ~Evaluated(p)
    BY <1>9 DEF ArchivePolicy
  <2>2. /\ row \in PolicyRows(3) /\ row.config = policy[p].config /\ row.revision = policy[p].revision + 1
        /\ row.enabled = FALSE
    BY <1>1, <1>3, <2>1 DEF PolicyRows
  <2> HIDE DEF row
  <2> QED
    BY <1>2, <1>3, <2>1, <2>2
<1>10. CASE DeletePolicy(a, p)
  <2>1. Sound("policy", p, Gone)
    BY <1>10 DEF DeletePolicy, Sound, SoundPolicy
  <2> QED
    BY <1>10, <2>1, Prepares DEF DeletePolicy
<1> QED
  BY <1>6, <1>7, <1>8, <1>9, <1>10 DEF PolicyAction

(* A run is of a policy that is there and not archived.                    *)
LEMMA EvaluationPrepared ==
  ASSUME AdminInv, NEW a \in Admins, NEW e \in Runs, StartEvaluation(a, e)
  PROVE  AdminInv'
<1>1. PICK p \in Policies :
        /\ Exists(policy[p]) /\ ~policy[p].archived
        /\ Prepare(a, "run", e, [policy |-> p, active |-> TRUE], FALSE)
  BY DEF StartEvaluation
<1>2. Sound("run", e, [policy |-> p, active |-> TRUE])
  BY <1>1 DEF Sound, SoundRun, Run
<1> QED
  BY <1>1, <1>2, Prepares DEF StartEvaluation, EvaluationLock

(***************************************************************************)
(* The commit.  A row that is in a table stays, is deleted, or gets a new  *)
(* revision, and what was deleted does not come back.                      *)
(***************************************************************************)
Moves(name, id) ==
    Table(name)[id] # NoRow =>
        /\ Table(name)'[id] # NoRow
        /\ Exists(Table(name)'[id]) =>
              /\ Exists(Table(name)[id])
              /\ \/ View(name, id)' = View(name, id)
                 \/ Table(name)[id].revision < Table(name)'[id].revision

MovesAll ==
    /\ \A h \in Channels : Moves("channel", h)
    /\ \A p \in Policies : Moves("policy", p)
    /\ \A k \in Keys : Moves("key", k)

(* Pages of a table stay true when each of its rows moves.                 *)
LEMMA ChannelMoved ==
  ASSUME NEW h \in Channels, Moves("channel", h), NEW view, ShowsChannel(view, h), view.row.revision \in Nat,
         Exists(channel[h]) => channel[h].revision \in Nat,
         Exists(channel'[h]) => channel'[h].revision \in Nat
  PROVE  ShowsChannel(view, h)'
<1>1. channel'[h] # NoRow
  BY DEF Moves, ShowsChannel, Table
<1>2. ASSUME Exists(channel'[h])
      PROVE  /\ view.row.revision <= channel'[h].revision
             /\ view.row.revision = channel'[h].revision => view = View("channel", h)'
  <2>1. /\ Exists(channel[h])
        /\ View("channel", h)' = View("channel", h) \/ channel[h].revision < channel'[h].revision
    BY <1>2 DEF Moves, ShowsChannel, Table
  <2>2. View("channel", h)' = View("channel", h) => channel'[h] = channel[h]
    BY DEF View, Table
  <2> QED
    BY <1>2, <2>1, <2>2 DEF ShowsChannel
<1> QED
  BY <1>1, <1>2 DEF ShowsChannel, Exists

LEMMA PolicyMoved ==
  ASSUME NEW p \in Policies, Moves("policy", p), NEW view, ShowsPolicy(view, p), view.row.revision \in Nat,
         Exists(policy[p]) => policy[p].revision \in Nat,
         Exists(policy'[p]) => policy'[p].revision \in Nat
  PROVE  ShowsPolicy(view, p)'
<1>1. policy'[p] # NoRow
  BY DEF Moves, ShowsPolicy, Table
<1>2. ASSUME Exists(policy'[p])
      PROVE  /\ view.row.revision <= policy'[p].revision
             /\ view.row.revision = policy'[p].revision => view = View("policy", p)'
  <2>1. /\ Exists(policy[p])
        /\ View("policy", p)' = View("policy", p) \/ policy[p].revision < policy'[p].revision
    BY <1>2 DEF Moves, ShowsPolicy, Table
  <2>2. View("policy", p)' = View("policy", p) => policy'[p] = policy[p]
    BY DEF View, Table
  <2> QED
    BY <1>2, <2>1, <2>2 DEF ShowsPolicy
<1> QED
  BY <1>1, <1>2 DEF ShowsPolicy, Exists

LEMMA KeyMoved ==
  ASSUME NEW k \in Keys, Moves("key", k), NEW view, ShowsKey(view, k), view.row.revision \in Nat,
         key[k] # NoRow => Exists(key[k]) /\ key[k].revision \in Nat,
         key'[k] # NoRow => Exists(key'[k]) /\ key'[k].revision \in Nat
  PROVE  ShowsKey(view, k)'
<1>1. key'[k] # NoRow /\ Exists(key'[k]) /\ key[k].revision \in Nat /\ key'[k].revision \in Nat
  BY DEF Moves, ShowsKey, Table
<1>2. View("key", k)' = View("key", k) \/ key[k].revision < key'[k].revision
  BY <1>1 DEF Moves, ShowsKey, Table
<1>3. View("key", k)' = View("key", k) => key'[k] = key[k]
  BY DEF View, Table
<1> QED
  BY <1>1, <1>2, <1>3 DEF ShowsKey

(* So what forms show stays true when nobody opens another.                *)
LEMMA ShownMoves ==
  ASSUME Tabled, Tabled', Shown, MovesAll, \A b \in Admins : seen'[b] # NoView => seen'[b] = seen[b]
  PROVE  Shown'
<1>1. \A h \in Channels : /\ Exists(channel[h]) => channel[h].revision \in Nat
                          /\ Exists(channel'[h]) => channel'[h].revision \in Nat
  BY RowFacts DEF Tabled, Stored, ChannelRows, UpTo, Exists
<1>2. \A p \in Policies : /\ Exists(policy[p]) => policy[p].revision \in Nat
                          /\ Exists(policy'[p]) => policy'[p].revision \in Nat
  BY RowFacts DEF Tabled, Stored, PolicyRows, UpTo, Exists
<1>3. \A k \in Keys : /\ key[k] # NoRow => Exists(key[k]) /\ key[k].revision \in Nat
                      /\ key'[k] # NoRow => Exists(key'[k]) /\ key'[k].revision \in Nat
  <2>1. \A x \in KeyRows(2) : Exists(x) /\ x.revision \in Nat
    BY RowFacts DEF KeyRows, UpTo
  <2>2. \A x \in KeyRows(2)' : Exists(x) /\ x.revision \in Nat
    <3>1. UpTo(2)' \subseteq Revision /\ UpTo(2)' \subseteq Nat
      BY AdministrationAssumption DEF Tabled, UpTo, Revision
    <3>2. KeyRows(2)' \subseteq Key
      BY <3>1 DEF KeyRows, Key
    <3>3. \A x \in Key : Exists(x)
      BY TableAssumption DEF Exists
    <3> QED
      BY <3>1, <3>2, <3>3 DEF KeyRows
  <2> QED
    BY <2>1, <2>2 DEF Tabled, Stored
<1>4. \A n \in {"channel", "policy", "key"} : \A i, view :
         Shows(n, i, view) /\ view.row.revision \in Nat => Shows(n, i, view)'
  <2>1. \A i, view : ShowsChannel(view, i) /\ view.row.revision \in Nat => ShowsChannel(view, i)'
    BY <1>1, ChannelMoved DEF MovesAll, ShowsChannel
  <2>2. \A i, view : ShowsPolicy(view, i) /\ view.row.revision \in Nat => ShowsPolicy(view, i)'
    BY <1>2, PolicyMoved DEF MovesAll, ShowsPolicy
  <2>3. \A i, view : ShowsKey(view, i) /\ view.row.revision \in Nat => ShowsKey(view, i)'
    BY <1>3, KeyMoved DEF MovesAll, ShowsKey
  <2> QED
    BY <2>1, <2>2, <2>3 DEF Shows
<1> QED
  BY <1>4 DEF Shown

(* The tables after a commit, one lemma for each of them.                  *)
Committed == Stored' /\ ReferencesIntact' /\ MovesAll

(* A commit makes room for one revision more.                              *)
LEMMA OneMore ==
  ASSUME changes \in Nat, changes' = changes + 1
  PROVE  /\ ChannelRows(2)' = ChannelRows(3) /\ PolicyRows(2)' = PolicyRows(3) /\ KeyRows(2)' = KeyRows(3)
         /\ ChannelRows(2) \subseteq ChannelRows(3) /\ PolicyRows(2) \subseteq PolicyRows(3)
         /\ KeyRows(2) \subseteq KeyRows(3)
<1>1. UpTo(2)' = UpTo(3) /\ UpTo(2) \subseteq UpTo(3)
  BY DEF UpTo
<1>2. ChannelRows(2)' = ChannelRows(3) /\ ChannelRows(2) \subseteq ChannelRows(3)
  BY <1>1 DEF ChannelRows
<1>3. PolicyRows(2)' = PolicyRows(3) /\ PolicyRows(2) \subseteq PolicyRows(3)
  BY <1>1 DEF PolicyRows
<1>4. KeyRows(2)' = KeyRows(3) /\ KeyRows(2) \subseteq KeyRows(3)
  BY <1>1 DEF KeyRows
<1> QED
  BY <1>2, <1>3, <1>4

(* A credential: the channels that use it get a new revision.              *)
LEMMA CredentialCommitted ==
  ASSUME AdminInv, NEW c, NEW row, SoundCredential(c, row), changes < MaxChanges, changes' = changes + 1,
         credential' = [credential EXCEPT ![c] = row],
         channel' = IF credential[c] # NoRow
                      THEN [h \in Channels |-> IF Exists(channel[h]) /\ channel[h].credential = c
                                                 THEN [channel[h] EXCEPT !.revision = @ + 1] ELSE channel[h]]
                      ELSE channel,
         UNCHANGED <<policy, key, run>>
  PROVE  Committed
<1>1. /\ changes \in Nat /\ c \in Credentials /\ row \in Credential \cup {Gone} /\ Tabled /\ NoRow # Gone
      /\ \A x \in Credential \cup Channel : Exists(x)
      /\ ~Exists(NoRow) /\ ~Exists(Gone)
  BY RowFacts DEF AdminInv, SoundCredential
<1>2. \A h \in Channels : Exists(channel[h]) => channel[h] \in ChannelRows(2)
  BY <1>1 DEF Tabled, Stored, Exists
<1>3. \A x \in ChannelRows(2) :
        /\ [x EXCEPT !.revision = @ + 1] \in ChannelRows(3)
        /\ [x EXCEPT !.revision = @ + 1].credential = x.credential
        /\ [x EXCEPT !.revision = @ + 1].revision = x.revision + 1
        /\ x.revision \in Nat /\ x.credential \in Credentials
  BY <1>1 DEF ChannelRows, UpTo
<1>4. /\ ChannelRows(2)' = ChannelRows(3)
      /\ ChannelRows(2) \subseteq ChannelRows(3) /\ PolicyRows(2) \subseteq PolicyRows(2)'
      /\ KeyRows(2) \subseteq KeyRows(2)'
  BY <1>1, OneMore
<1>5. \A h \in Channels :
        /\ channel'[h] = channel[h] /\ (Exists(channel[h]) => channel[h].credential # c)
        \/ /\ Exists(channel[h]) /\ channel[h].credential = c
           /\ channel'[h] = [channel[h] EXCEPT !.revision = @ + 1]
  <2>1. CASE credential[c] = NoRow
    BY <1>1, <2>1 DEF AdminInv, ReferencesIntact
  <2>2. CASE credential[c] # NoRow
    BY <2>2
  <2> QED
    BY <2>1, <2>2
<1>6. \A x \in ChannelRows(3) : Exists(x)
  BY <1>1, RowFacts DEF Tabled
<1>7. \A h \in Channels : /\ channel'[h] \in ChannelRows(3) \cup {NoRow, Gone}
                          /\ Exists(channel'[h]) <=> Exists(channel[h])
                          /\ Exists(channel[h]) => channel'[h].credential = channel[h].credential
                          /\ channel[h] # NoRow => channel'[h] # NoRow
  BY <1>1, <1>2, <1>3, <1>4, <1>5, <1>6 DEF Tabled, Stored, Exists
<1>8. Stored'
  <2>1. channel' \in [Channels -> ChannelRows(3) \cup {NoRow, Gone}]
    <3>1. channel' = [h \in Channels |-> channel'[h]]
      BY <1>1 DEF Tabled, Stored
    <3> QED
      BY <1>7, <3>1
  <2>2. credential' \in [Credentials -> Credential \cup {NoRow, Gone}]
    BY <1>1 DEF Tabled, Stored
  <2> QED
    BY <1>1, <1>4, <2>1, <2>2 DEF Tabled, Stored
<1>9. \A d \in Credentials : /\ d # c => credential'[d] = credential[d]
                             /\ credential'[c] = row
  BY <1>1 DEF Tabled, Stored
<1>10. ReferencesIntact'
  <2>1. \A h \in Channels : Exists(channel'[h]) => Exists(credential'[channel'[h].credential])
    <3> SUFFICES ASSUME NEW h \in Channels, Exists(channel'[h])
                 PROVE  Exists(credential'[channel'[h].credential])
      OBVIOUS
    <3>1. /\ Exists(channel[h]) /\ Exists(credential[channel[h].credential])
          /\ channel'[h].credential = channel[h].credential /\ channel[h].credential \in Credentials
      BY <1>2, <1>3, <1>7 DEF AdminInv, ReferencesIntact
    <3>2. CASE channel[h].credential = c
      <4>1. row # Gone
        BY <3>1, <3>2 DEF SoundCredential
      <4> QED
        BY <1>1, <1>9, <3>1, <3>2, <4>1
    <3>3. CASE channel[h].credential # c
      BY <1>9, <3>1, <3>3
    <3> QED
      BY <3>2, <3>3
  <2>2. \A p \in Policies : Exists(policy'[p]) =>
          \A h \in policy'[p].config.on \cup policy'[p].config.off : Exists(channel'[h])
    <3>1. \A p \in Policies : Exists(policy[p]) => policy[p].config.on \cup policy[p].config.off \subseteq Channels
      BY <1>1 DEF Tabled, Stored, Exists, PolicyRows, Config
    <3> QED
      BY <1>7, <3>1 DEF AdminInv, ReferencesIntact
  <2> QED
    BY <2>1, <2>2 DEF AdminInv, ReferencesIntact, Known, Evaluated
<1>11. MovesAll
  <2>1. \A h \in Channels : Moves("channel", h)
    <3> SUFFICES ASSUME NEW h \in Channels
                 PROVE  Moves("channel", h)
      OBVIOUS
    <3>1. CASE channel'[h] = channel[h] /\ (Exists(channel[h]) => channel[h].credential # c)
      <4>1. Exists(channel[h]) => View("channel", h)' = View("channel", h)
        BY <1>2, <1>3, <1>9, <3>1 DEF View, Table
      <4> QED
        BY <1>7, <3>1, <4>1 DEF Moves, Table
    <3>2. CASE Exists(channel[h]) /\ channel'[h] = [channel[h] EXCEPT !.revision = @ + 1]
      <4>1. channel[h].revision < channel'[h].revision
        <5>1. PICK x \in ChannelRows(2) : channel[h] = x
          BY <1>2, <3>2
        <5>2. channel'[h] = [x EXCEPT !.revision = @ + 1]
          BY <3>2, <5>1
        <5>3. channel'[h].revision = x.revision + 1 /\ x.revision \in Nat
          BY <1>3, <5>2
        <5> QED
          BY <5>1, <5>3
      <4> QED
        BY <1>7, <3>2, <4>1 DEF Moves, Table
    <3> QED
      BY <1>5, <3>1, <3>2
  <2> QED
    BY <2>1 DEF MovesAll, Moves, Table, View
<1> QED
  BY <1>8, <1>10, <1>11 DEF Committed

(* A channel: no policy refers to one that is deleted.                     *)
LEMMA ChannelCommitted ==
  ASSUME AdminInv, NEW h, NEW row, SoundChannel(h, row), changes < MaxChanges, changes' = changes + 1,
         channel' = [channel EXCEPT ![h] = row], UNCHANGED <<credential, policy, key, run>>
  PROVE  Committed
<1>1. /\ changes \in Nat /\ h \in Channels /\ row \in ChannelRows(3) \cup {Gone} /\ Tabled /\ NoRow # Gone
      /\ \A x \in ChannelRows(3) : Exists(x) /\ x.revision \in Nat
      /\ ~Exists(NoRow) /\ ~Exists(Gone)
  BY RowFacts DEF AdminInv, SoundChannel, ChannelRows, UpTo
<1>2. /\ ChannelRows(2)' = ChannelRows(3) /\ ChannelRows(2) \subseteq ChannelRows(3)
      /\ PolicyRows(2) \subseteq PolicyRows(2)' /\ KeyRows(2) \subseteq KeyRows(2)'
  BY <1>1, OneMore
<1>3. channel'[h] = row /\ \A g \in Channels : g # h => channel'[g] = channel[g]
  BY <1>1 DEF Tabled, Stored
<1>4. Stored'
  <2>1. channel' \in [Channels -> ChannelRows(3) \cup {NoRow, Gone}]
    BY <1>1, <1>2 DEF Tabled, Stored
  <2> QED
    BY <1>1, <1>2, <2>1 DEF Tabled, Stored
<1>5. ReferencesIntact'
  <2>1. \A g \in Channels : Exists(channel'[g]) => Exists(credential'[channel'[g].credential])
    <3>1. Exists(row) => Exists(credential[row.credential])
      BY <1>1 DEF SoundChannel
    <3> QED
      BY <1>3, <3>1 DEF AdminInv, ReferencesIntact
  <2>2. \A p \in Policies : Exists(policy'[p]) =>
          \A g \in policy'[p].config.on \cup policy'[p].config.off : Exists(channel'[g])
    <3> SUFFICES ASSUME NEW p \in Policies, Exists(policy[p]), NEW g \in policy[p].config.on \cup policy[p].config.off
                 PROVE  Exists(channel'[g])
      OBVIOUS
    <3>1. g \in Channels
      BY <1>1 DEF Tabled, Stored, Exists, PolicyRows, Config
    <3>2. Exists(channel[g])
      BY DEF AdminInv, ReferencesIntact
    <3>3. g = h => row # Gone
      BY DEF SoundChannel
    <3> QED
      BY <1>1, <1>3, <3>1, <3>2, <3>3
  <2> QED
    BY <2>1, <2>2 DEF AdminInv, ReferencesIntact, Known, Evaluated
<1>6. MovesAll
  <2>1. \A g \in Channels : Moves("channel", g)
    <3>1. channel'[h] # NoRow
      BY <1>1, <1>3 DEF Exists
    <3>2. Exists(row) /\ channel[h] # NoRow => Exists(channel[h]) /\ channel[h].revision < row.revision
      BY <1>1 DEF SoundChannel, Exists
    <3>3. \A g \in Channels : g # h => View("channel", g)' = View("channel", g)
      BY <1>3 DEF View, Table
    <3> QED
      BY <1>3, <3>1, <3>2, <3>3 DEF Moves, Table
  <2> QED
    BY <2>1 DEF MovesAll, Moves, Table, View
<1> QED
  BY <1>4, <1>5, <1>6 DEF Committed

(* A policy: no key and no evaluation refers to one that is deleted, and   *)
(* none is evaluated that is archived.                                     *)
LEMMA PolicyCommitted ==
  ASSUME AdminInv, NEW p, NEW row, SoundPolicy(p, row), changes < MaxChanges, changes' = changes + 1,
         policy' = [policy EXCEPT ![p] = row], UNCHANGED <<credential, channel, key, run>>
  PROVE  Committed
<1>1. /\ changes \in Nat /\ p \in Policies /\ row \in PolicyRows(3) \cup {Gone} /\ Tabled /\ NoRow # Gone
      /\ \A x \in PolicyRows(3) : Exists(x) /\ x.revision \in Nat
      /\ ~Exists(NoRow) /\ ~Exists(Gone)
  BY RowFacts DEF AdminInv, SoundPolicy, PolicyRows, UpTo
<1>2. /\ PolicyRows(2)' = PolicyRows(3) /\ PolicyRows(2) \subseteq PolicyRows(3)
      /\ ChannelRows(2) \subseteq ChannelRows(2)' /\ KeyRows(2) \subseteq KeyRows(2)'
  BY <1>1, OneMore
<1>3. policy'[p] = row /\ \A q \in Policies : q # p => policy'[q] = policy[q]
  BY <1>1 DEF Tabled, Stored
<1>4. Stored'
  <2>1. policy' \in [Policies -> PolicyRows(3) \cup {NoRow, Gone}]
    BY <1>1, <1>2 DEF Tabled, Stored
  <2> QED
    BY <1>1, <1>2, <2>1 DEF Tabled, Stored
<1>5. ReferencesIntact'
  <2>1. \A q \in Policies : Exists(policy'[q]) =>
          \A h \in policy'[q].config.on \cup policy'[q].config.off : Exists(channel'[h])
    <3>1. Exists(row) => \A h \in row.config.on \cup row.config.off : Exists(channel[h])
      BY <1>1 DEF SoundPolicy
    <3> QED
      BY <1>3, <3>1 DEF AdminInv, ReferencesIntact
  <2>2. \A k \in Keys : Exists(key[k]) /\ ~key[k].deleted => \A q \in key[k].policies : Exists(policy'[q])
    <3> SUFFICES ASSUME NEW k \in Keys, Exists(key[k]), ~key[k].deleted, NEW q \in key[k].policies
                 PROVE  Exists(policy'[q])
      OBVIOUS
    <3>1. q \in Policies
      BY <1>1 DEF Tabled, Stored, Exists, KeyRows
    <3>2. Exists(policy[q]) /\ Authorised(k, q)
      BY DEF AdminInv, ReferencesIntact, Known, Authorised
    <3>3. q = p => row # Gone
      BY <3>2 DEF SoundPolicy
    <3> QED
      BY <1>1, <1>3, <3>1, <3>2, <3>3
  <2>3. \A q \in Policies : Evaluated(q) => Exists(policy'[q]) /\ ~policy'[q].archived
    <3>1. Evaluated(p) => Exists(row) /\ ~row.archived
      BY <1>1 DEF SoundPolicy
    <3> QED
      BY <1>3, <3>1 DEF AdminInv, ReferencesIntact
  <2> QED
    BY <2>1, <2>2, <2>3 DEF AdminInv, ReferencesIntact, Known, Evaluated
<1>6. MovesAll
  <2>1. \A q \in Policies : Moves("policy", q)
    <3>1. policy'[p] # NoRow
      BY <1>1, <1>3 DEF Exists
    <3>2. Exists(row) /\ policy[p] # NoRow => Exists(policy[p]) /\ policy[p].revision < row.revision
      BY <1>1 DEF SoundPolicy, Exists
    <3>3. \A q \in Policies : q # p => View("policy", q)' = View("policy", q)
      BY <1>3 DEF View, Table
    <3> QED
      BY <1>3, <3>1, <3>2, <3>3 DEF Moves, Table
  <2> QED
    BY <2>1 DEF MovesAll, Moves, Table, View
<1> QED
  BY <1>4, <1>5, <1>6 DEF Committed

(* A key: the policies it is for are there.                                *)
LEMMA KeyCommitted ==
  ASSUME AdminInv, NEW k, NEW row, SoundKey(k, row), changes < MaxChanges, changes' = changes + 1,
         key' = [key EXCEPT ![k] = row], UNCHANGED <<credential, channel, policy, run>>
  PROVE  Committed
<1>1. /\ changes \in Nat /\ k \in Keys /\ row \in KeyRows(3) /\ Tabled /\ Exists(row)
      /\ \A j \in Keys : key[j] # NoRow => Exists(key[j])
  <2>1. \A x \in KeyRows(2) \cup KeyRows(3) : Exists(x)
    BY RowFacts DEF AdminInv
  <2> QED
    BY <2>1, RowFacts DEF AdminInv, SoundKey, Tabled, Stored
<1>2. /\ KeyRows(2)' = KeyRows(3) /\ KeyRows(2) \subseteq KeyRows(3)
      /\ ChannelRows(2) \subseteq ChannelRows(2)' /\ PolicyRows(2) \subseteq PolicyRows(2)'
  BY <1>1, OneMore
<1>3. key'[k] = row /\ \A j \in Keys : j # k => key'[j] = key[j]
  BY <1>1 DEF Tabled, Stored
<1>4. Stored'
  <2>1. key' \in [Keys -> KeyRows(3) \cup {NoRow}]
    BY <1>1, <1>2 DEF Tabled, Stored
  <2> QED
    BY <1>1, <1>2, <2>1 DEF Tabled, Stored
<1>5. ReferencesIntact'
  <2>1. \A j \in Keys : Exists(key'[j]) /\ ~key'[j].deleted => Known(key'[j].policies)
    BY <1>3 DEF AdminInv, ReferencesIntact, SoundKey
  <2> QED
    BY <2>1 DEF AdminInv, ReferencesIntact, Known, Evaluated
<1>6. MovesAll
  <2>1. \A j \in Keys : Moves("key", j)
    <3>1. key'[k] # NoRow /\ (key[k] # NoRow => Exists(key[k]) /\ key[k].revision < row.revision)
      BY <1>1, <1>3 DEF SoundKey, Exists
    <3>2. \A j \in Keys : j # k => View("key", j)' = View("key", j)
      BY <1>3 DEF View, Table
    <3> QED
      BY <1>1, <1>3, <3>1, <3>2 DEF Moves, Table
  <2> QED
    BY <2>1 DEF MovesAll, Moves, Table, View
<1> QED
  BY <1>4, <1>5, <1>6 DEF Committed

(* A run: its policy is there and not archived.                            *)
LEMMA RunCommitted ==
  ASSUME AdminInv, NEW e, NEW row, SoundRun(e, row), changes < MaxChanges, changes' = changes + 1,
         run' = [run EXCEPT ![e] = row], UNCHANGED <<credential, channel, policy, key>>
  PROVE  Committed
<1>1. changes \in Nat /\ e \in Runs /\ row \in Run /\ Tabled
  BY RowFacts DEF AdminInv, SoundRun
<1>2. Stored'
  <2>1. /\ ChannelRows(2) \subseteq ChannelRows(2)' /\ PolicyRows(2) \subseteq PolicyRows(2)'
        /\ KeyRows(2) \subseteq KeyRows(2)'
    BY <1>1, OneMore
  <2> QED
    BY <1>1, <2>1 DEF Tabled, Stored
<1>3. \A p \in Policies : Evaluated(p)' => Evaluated(p) \/ p = row.policy
  BY <1>1 DEF Evaluated, Tabled, Stored
<1>4. ReferencesIntact'
  BY <1>3 DEF AdminInv, ReferencesIntact, SoundRun, Known
<1>5. MovesAll
  BY DEF MovesAll, Moves, Table, View
<1> QED
  BY <1>2, <1>4, <1>5 DEF Committed

(* Only the holder of the lock has a row to write, so after the commit     *)
(* nobody has.                                                             *)
LEMMA Commits ==
  ASSUME AdminInv, NEW a \in Admins, Commit(a)
  PROVE  AdminInv'
<1>1. Prepared(a) /\ lock = a
  BY DEF AdminInv, Checked, Locked, Commit
<1>2. PICK name \in {"credential", "channel", "policy", "key", "run"}, form \in BOOLEAN : \E i, r :
        change[a] = [table |-> name, id |-> i, row |-> r, form |-> form] /\ Sound(name, i, r)
  BY <1>1 DEF Prepared
<1>3. PICK id, row : change[a] = [table |-> name, id |-> id, row |-> row, form |-> form] /\ Sound(name, id, row)
  BY <1>2
<1>4. change[a].table = name /\ change[a].id = id /\ change[a].row = row
  BY <1>3
<1>5. /\ changes < MaxChanges /\ changes' = changes + 1 /\ lock' = Nobody
      /\ change' = [change EXCEPT ![a] = NoChange] /\ seen' = [seen EXCEPT ![a] = NoView]
  BY <1>1 DEF Prepared, Commit, Finish
<1>6. Committed
  <2>1. CASE name = "credential"
    BY <1>3, <1>4, <1>5, <2>1, CredentialCommitted DEF Sound, Commit, Write, ChannelsAfter, Table
  <2>2. CASE name = "channel"
    BY <1>3, <1>4, <1>5, <2>2, ChannelCommitted DEF Sound, Commit, Write, ChannelsAfter, Table
  <2>3. CASE name = "policy"
    BY <1>3, <1>4, <1>5, <2>3, PolicyCommitted DEF Sound, Commit, Write, ChannelsAfter, Table
  <2>4. CASE name = "key"
    BY <1>3, <1>4, <1>5, <2>4, KeyCommitted DEF Sound, Commit, Write, ChannelsAfter, Table
  <2>5. CASE name = "run"
    BY <1>3, <1>4, <1>5, <2>5, RunCommitted DEF Sound, Commit, Write, ChannelsAfter, Table
  <2> QED
    BY <2>1, <2>2, <2>3, <2>4, <2>5
<1>7. Tabled'
  <2>1. changes' \in 0 .. MaxChanges
    BY <1>5, AdministrationAssumption DEF AdminInv, Tabled
  <2> QED
    BY <1>5, <1>6, <2>1 DEF AdminInv, Tabled, Committed
<1>8. \A b \in Admins : change'[b] = NoChange
  BY <1>1, <1>5 DEF AdminInv, Tabled, Locked
<1>9. \A b \in Admins : seen'[b] # NoView => seen'[b] = seen[b]
  BY <1>5 DEF AdminInv, Tabled
<1>10. Shown'
  BY <1>6, <1>7, <1>9, ShownMoves DEF AdminInv, Committed
<1> QED
  BY <1>6, <1>7, <1>8, <1>10 DEF AdminInv, Committed, Locked, Checked

(* The first configuration is sound.                                       *)
LEMMA AdminInit ==
  ASSUME Init
  PROVE  AdminInv
<1>1. changes = 0 /\ lock = Nobody /\ seen = [a \in Admins |-> NoView] /\ change = [a \in Admins |-> NoChange]
      /\ run = [e \in Runs |-> NoRow]
  BY DEF Init
<1>2. PICK c \in Credentials, h \in Channels, p \in Policies, b \in BOOLEAN :
        /\ credential = [x \in Credentials |-> IF x = c THEN [active |-> TRUE] ELSE NoRow]
        /\ channel = [x \in Channels |->
              IF x = h THEN [credential |-> c, enabled |-> TRUE, revision |-> 1] ELSE NoRow]
        /\ policy = [x \in Policies |->
              IF x = p THEN [config |-> [on |-> {h}, off |-> {}], enabled |-> b, archived |-> ~b, revision |-> 2]
              ELSE NoRow]
  BY DEF Init
<1>3. \/ key = [k \in Keys |-> NoRow]
      \/ key = [k \in Keys |-> [policies |-> {q \in Policies : Exists(policy[q])},
                                active |-> TRUE, deleted |-> FALSE, revision |-> 1]]
  BY DEF Init
<1>4. UpTo(2) = {1, 2}
  BY <1>1 DEF UpTo
<1>5. Stored
  <2>1. [active |-> TRUE] \in Credential
    BY DEF Credential
  <2>2. [credential |-> c, enabled |-> TRUE, revision |-> 1] \in ChannelRows(2)
    BY <1>4 DEF ChannelRows
  <2>3. [config |-> [on |-> {h}, off |-> {}], enabled |-> b, archived |-> ~b, revision |-> 2] \in PolicyRows(2)
    BY <1>4 DEF PolicyRows, Config
  <2>4. [policies |-> {q \in Policies : Exists(policy[q])}, active |-> TRUE, deleted |-> FALSE, revision |-> 1]
          \in KeyRows(2)
    BY <1>4 DEF KeyRows
  <2>5. key \in [Keys -> KeyRows(2) \cup {NoRow}]
    BY <1>3, <2>4
  <2>6. policy \in [Policies -> PolicyRows(2) \cup {NoRow, Gone}]
    BY <1>2, <2>3
  <2>7. channel \in [Channels -> ChannelRows(2) \cup {NoRow, Gone}]
    BY <1>2, <2>2
  <2>8. credential \in [Credentials -> Credential \cup {NoRow, Gone}]
    BY <1>2, <2>1
  <2> QED
    BY <1>1, <2>5, <2>6, <2>7, <2>8 DEF Stored
<1>6. Tabled
  BY <1>1, <1>5, AdministrationAssumption DEF Tabled
<1>7. ReferencesIntact
  <2>1. ~Exists(NoRow)
    BY DEF Exists
  <2>2. Exists(credential[c]) /\ Exists(channel[h])
    <3>1. [active |-> TRUE] \in Credential /\ [credential |-> c, enabled |-> TRUE, revision |-> 1] \in ChannelRows(2)
      BY <1>4 DEF Credential, ChannelRows
    <3> QED
      BY <1>2, <1>6, <3>1, RowFacts
  <2>3. \A x \in Channels : Exists(channel[x]) => Exists(credential[channel[x].credential])
    BY <1>2, <2>1, <2>2
  <2>4. \A q \in Policies : Exists(policy[q]) =>
          \A x \in policy[q].config.on \cup policy[q].config.off : Exists(channel[x])
    BY <1>2, <2>1, <2>2
  <2>5. \A k \in Keys : Exists(key[k]) /\ ~key[k].deleted => Known(key[k].policies)
    BY <1>3, <2>1 DEF Known
  <2>6. \A q \in Policies : ~Evaluated(q)
    BY <1>1, <2>1 DEF Evaluated
  <2> QED
    BY <2>3, <2>4, <2>5, <2>6 DEF ReferencesIntact
<1> QED
  BY <1>1, <1>6, <1>7 DEF AdminInv, Locked, Checked, Shown

(* Every step keeps the invariant.                                         *)
LEMMA AlwaysAdminInv == Spec => []AdminInv
<1>1. AdminInv /\ [Next]_vars => AdminInv'
  <2> SUFFICES ASSUME AdminInv, [Next]_vars
               PROVE  AdminInv'
    OBVIOUS
  <2>1. CASE UNCHANGED vars
    <3>1. UNCHANGED <<credential, channel, policy, key, run, lock, seen, change, changes>>
      BY <2>1 DEF vars, tables
    <3>2. Tabled'
      BY <3>1 DEF AdminInv, Tabled, Stored, ChannelRows, PolicyRows, KeyRows, UpTo
    <3>3. ReferencesIntact' /\ \A p \in Policies : Evaluated(p)' => Evaluated(p)
      BY <3>1, TablesStay DEF AdminInv
    <3>4. Locked'
      BY <3>1 DEF AdminInv, Locked
    <3>5. Checked'
      BY <3>1, <3>3, CheckedStays DEF AdminInv
    <3>6. Shown'
      BY <3>1, ShownStays DEF AdminInv
    <3> QED
      BY <3>2, <3>3, <3>4, <3>5, <3>6 DEF AdminInv
  <2>2. ASSUME NEW a \in Admins, NEW h \in Channels, Open(a, "channel", h) \/ ChannelAction(a, h)
        PROVE  AdminInv'
    BY <2>2, Opens, ChannelPrepared
  <2>3. ASSUME NEW a \in Admins, NEW p \in Policies, Open(a, "policy", p) \/ PolicyAction(a, p)
        PROVE  AdminInv'
    BY <2>3, Opens, PolicyPrepared
  <2>4. ASSUME NEW a \in Admins, NEW k \in Keys, Open(a, "key", k) \/ KeyAction(a, k)
        PROVE  AdminInv'
    BY <2>4, Opens, KeyPrepared
  <2>5. CASE Next
    BY <2>2, <2>3, <2>4, <2>5, CredentialPrepared, EvaluationPrepared, EvaluationEnds, Commits, Aborts DEF Next
  <2> QED
    BY <2>1, <2>5
<1> QED
  BY <1>1, AdminInit, PTL DEF Spec

(* The rows are what the tables are declared to hold, revisions within the *)
(* bound; the lock is held by one of the transactions or by nobody.        *)
THEOREM AdministrationTypeCorrect == Spec => []TypeOK
<1>1. AdminInv => TypeOK
  BY RowFacts DEF AdminInv, Tabled, Stored, TypeOK
<1> QED
  BY <1>1, AlwaysAdminInv, PTL

(* No reference dangles: every change looks at the other tables under the  *)
(* lock of Store.mutate, and nobody can delete what it found before it     *)
(* commits (channels.go 245-259, credentials.go 45-58, policy_lifecycle.go *)
(* 54-60 and 91-97, evaluation_runs.go 174-195).                           *)
THEOREM AdministrationReferences == Spec => []ReferencesIntact
<1>1. AdminInv => ReferencesIntact
  BY DEF AdminInv
<1> QED
  BY <1>1, AlwaysAdminInv, PTL

(* Only a commit writes what administrators edit.                          *)
LEMMA OnlyCommitsWrite ==
  ASSUME [Next]_vars
  PROVE  (\E b \in Admins : Commit(b)) \/ (policy' = policy /\ changes' = changes)
<1> DEFINE Kept == policy' = policy /\ changes' = changes
<1>1. \A a, name, id, row, form : Prepare(a, name, id, row, form) => Kept
  BY DEF Prepare, tables
<1> SUFFICES (\E b \in Admins : Commit(b)) \/ Kept
  OBVIOUS
<1> HIDE DEF Kept
<1>2. ASSUME NEW a, NEW h, ChannelAction(a, h)
      PROVE  Kept
  BY <1>1, <1>2 DEF ChannelAction, CreateChannel, SaveChannel, DeleteChannel, ClearChannelCache
<1>3. ASSUME NEW a, NEW p, PolicyAction(a, p)
      PROVE  Kept
  BY <1>1, <1>3 DEF PolicyAction, CreatePolicy, ImportPolicy, SaveConfig, SetPolicyState, ArchivePolicy, DeletePolicy
<1>4. ASSUME NEW a, NEW k, KeyAction(a, k)
      PROVE  Kept
  BY <1>1, <1>4 DEF KeyAction, CreateKey, UpdateKey, RotateKey, RevokeKey, DeleteKey
<1>5. ASSUME NEW a, NEW c, CredentialAction(a, c)
      PROVE  Kept
  BY <1>1, <1>5 DEF CredentialAction, CreateCredential, SaveProviderCredential, DeleteCredential
<1>6. ASSUME NEW a, NEW e, StartEvaluation(a, e)
      PROVE  Kept
  BY <1>1, <1>6 DEF StartEvaluation
<1>7. ASSUME NEW a, NEW name, NEW id, Open(a, name, id) \/ Abort(a) \/ EndEvaluation(id)
      PROVE  Kept
  BY <1>7 DEF Open, Abort, EndEvaluation, tables, Kept
<1>8. CASE UNCHANGED vars
  BY <1>8 DEF vars, tables, Kept
<1>9. CASE Next
  BY <1>2, <1>3, <1>4, <1>5, <1>6, <1>7, <1>9 DEF Next
<1> QED
  BY <1>8, <1>9

(* What the form of a channel, a policy or a key replaces is what its      *)
(* administrator saw: revisions only grow, also when the credential of a   *)
(* channel changes, so an equal revision means the same page               *)
(* (key_lifecycle.go 31-39, channels.go 177, store.go 234 and 251,         *)
(* policy_lifecycle.go 48).  Saves of credentials carry no revision and    *)
(* are not claimed anything about.                                         *)
THEOREM AdministrationForms == Spec => FormsAreCurrent
<1>1. ASSUME AdminInv, [Next]_vars, NEW a \in Admins, changes' # changes, change'[a] # change[a], change[a].form
      PROVE  View(change[a].table, change[a].id) = seen[a].view
  <2>1. PICK b \in Admins : Commit(b)
    BY <1>1, OnlyCommitsWrite
  <2>2. a = b /\ change[a] # NoChange
    BY <1>1, <2>1 DEF AdminInv, Tabled, Commit, Finish
  <2>3. PICK n \in {"credential", "channel", "policy", "key", "run"}, f \in BOOLEAN : \E i, r :
          /\ change[a] = [table |-> n, id |-> i, row |-> r, form |-> f]
          /\ f => /\ n \in {"channel", "policy", "key"} /\ Exists(Table(n)[i])
                  /\ seen[a] # NoView /\ View(n, i) = seen[a].view
    <3>1. Prepared(a)
      BY <1>1, <2>2 DEF AdminInv, Checked
    <3> QED
      BY <3>1, Zenon DEF Prepared
  <2>4. PICK i, r : /\ change[a] = [table |-> n, id |-> i, row |-> r, form |-> f]
                    /\ f => View(n, i) = seen[a].view
    BY <2>3
  <2>5. change[a].table = n /\ change[a].id = i /\ change[a].form = f
    BY <2>4
  <2> QED
    BY <1>1, <2>4, <2>5
<1>2. AdminInv /\ [Next]_vars =>
        [\A a \in Admins : changes' # changes /\ change'[a] # change[a] /\ change[a].form =>
            View(change[a].table, change[a].id) = seen[a].view]_vars
  BY <1>1
<1> QED
  BY <1>2, AlwaysAdminInv, PTL DEF Spec, FormsAreCurrent

(* A policy that a commit writes enabled can be called at that moment:     *)
(* while the lock is held no channel and no credential is switched off     *)
(* after the look at them (channels.go 26-61).                             *)
THEOREM AdministrationEnabled == Spec => EnabledWhenReady
<1>1. ASSUME AdminInv, [Next]_vars, NEW p \in Policies, policy'[p] # policy[p]
      PROVE  Callable(p)'
  <2>1. PICK b \in Admins : Commit(b)
    BY <1>1, OnlyCommitsWrite
  <2>2. PICK n \in {"credential", "channel", "policy", "key", "run"}, f \in BOOLEAN : \E i, r :
          change[b] = [table |-> n, id |-> i, row |-> r, form |-> f] /\ Sound(n, i, r)
    BY <1>1, <2>1 DEF AdminInv, Checked, Prepared, Commit
  <2>3. PICK i, r : change[b] = [table |-> n, id |-> i, row |-> r, form |-> f] /\ Sound(n, i, r)
    BY <2>2
  <2>4. n = "policy" /\ policy' = [policy EXCEPT ![i] = r] /\ channel' = channel /\ credential' = credential
    BY <1>1, <2>1, <2>3 DEF Commit, Write, ChannelsAfter, Table
  <2>5. policy'[p] = r /\ SoundPolicy(i, r)
    BY <1>1, <2>3, <2>4 DEF AdminInv, Tabled, Stored, Sound
  <2> QED
    BY <2>4, <2>5 DEF Callable, Exists, SoundPolicy, Ready
<1>2. AdminInv /\ [Next]_vars => [\A p \in Policies : policy'[p] # policy[p] => Callable(p)']_vars
  BY <1>1
<1> QED
  BY <1>2, AlwaysAdminInv, PTL DEF Spec, EnabledWhenReady
=============================================================================
