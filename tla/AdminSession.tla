---------------------------- MODULE AdminSession ----------------------------
(***************************************************************************)
(* Sessions of one administrator's account and changes of its password     *)
(* (server.go).  A password is known by its hash: hashes are salted, so    *)
(* every change makes a new one, and they are numbered in the order in     *)
(* which they replace each other.  A login or a change with a password     *)
(* that does not verify ends before it touches anything, and is left out.  *)
(*                                                                         *)
(* Verifying takes long and is done outside a transaction, so the hash a   *)
(* request verified can be an old one when its transaction begins.  The    *)
(* row of the account in admin_users is what orders the two: logins take   *)
(* it FOR SHARE, a change updates it, and the two exclude each other until *)
(* the transaction ends.                                                   *)
(***************************************************************************)
EXTENDS Naturals

CONSTANTS Requests,           \* requests of the administrators
          Tokens,             \* session tokens: bound on the sessions that live at once
          MaxPasswordChanges  \* bound: password changes

ASSUME AdminSessionAssumption == MaxPasswordChanges \in Nat

VARIABLES
    hash,      \* admin_users.password_hash
    sessions,  \* the tokens of admin_sessions that have not expired
    request,   \* what each request is doing
    openedBy   \* history: the hash that was verified for each session

sessionVars == <<hash, sessions, request, openedBy>>

Idle == [doing |-> "nothing", verified |-> 0, revoked |-> {}]

SessionTypeOK ==
    /\ hash \in 0 .. MaxPasswordChanges
    /\ sessions \in SUBSET Tokens
    /\ request \in [Requests -> [doing : {"nothing", "login", "insert", "change", "revoke", "replace"},
                                 verified : 0 .. MaxPasswordChanges,
                                 revoked : SUBSET Tokens]]
    /\ openedBy \in [Tokens -> 0 .. MaxPasswordChanges]

SessionInit ==
    /\ hash = 0
    /\ sessions = {}
    /\ request = [r \in Requests |-> Idle]
    /\ openedBy = [t \in Tokens |-> 0]

Goes(r, step) == request' = [request EXCEPT ![r].doing = step]
Finishes(r) == request' = [request EXCEPT ![r] = Idle]

(* Who holds the row of the account: shared by the logins that insert,     *)
(* alone by the change that has updated it.                                *)
Sharing == {r \in Requests : request[r].doing = "insert"}
Changing == {r \in Requests : request[r].doing \in {"revoke", "replace"}}

(* The hash is read and the password verified against it; a change comes   *)
(* from a session that lived when the request began.                       *)
Verify(r, purpose) ==
    /\ request[r].doing = "nothing"
    /\ request' = [request EXCEPT ![r] = [doing |-> purpose, verified |-> hash, revoked |-> {}]]
    /\ UNCHANGED <<hash, sessions, openedBy>>

Login(r) == Verify(r, "login")

ChangePassword(r) ==
    /\ sessions # {}
    /\ hash < MaxPasswordChanges
    /\ Verify(r, "change")

(* createAdminSession takes the row, once no change holds it, and compares *)
(* what it finds with what was verified.                                   *)
(* A variant that must fail: the hash is read without FOR SHARE.           *)
MaySharePlain(r) == TRUE

MayShare(r) == Changing = {}

(* A variant that must fail: the hash is not compared again.              *)
StillAsVerified(r) == TRUE

StillCurrent(r) == request[r].verified = hash

LockAccount(r) ==
    /\ request[r].doing = "login"
    /\ MayShare(r)
    /\ IF StillCurrent(r) THEN Goes(r, "insert") ELSE Finishes(r)
    /\ UNCHANGED <<hash, sessions, openedBy>>

(* The new session shows with the commit, which releases the row.          *)
InsertSession(r, t) ==
    /\ request[r].doing = "insert"
    /\ t \notin sessions
    /\ sessions' = sessions \cup {t}
    /\ openedBy' = [openedBy EXCEPT ![t] = request[r].verified]
    /\ Finishes(r)
    /\ UNCHANGED hash

(* The update waits for those who hold the row and then looks at the hash  *)
(* again: it changes one row or none.                                      *)
UpdateHash(r) ==
    /\ request[r].doing = "change"
    /\ Sharing \cup Changing = {}
    /\ IF StillCurrent(r) THEN Goes(r, "revoke") ELSE Finishes(r)
    /\ UNCHANGED <<hash, sessions, openedBy>>

(* The sessions that exist when the DELETE begins.                         *)
FoundByDelete(r) == sessions

RevokeSessions(r) ==
    /\ request[r].doing = "revoke"
    /\ request' = [request EXCEPT ![r].doing = "replace", ![r].revoked = FoundByDelete(r)]
    /\ UNCHANGED <<hash, sessions, openedBy>>

CommitChange(r) ==
    /\ request[r].doing = "replace"
    /\ hash < MaxPasswordChanges
    /\ hash' = hash + 1
    /\ sessions' = sessions \ request[r].revoked
    /\ Finishes(r)
    /\ UNCHANGED openedBy

(* A statement or the commit fails, or the client is gone: rolled back.    *)
Fail(r) ==
    /\ request[r].doing # "nothing"
    /\ Finishes(r)
    /\ UNCHANGED <<hash, sessions, openedBy>>

(* A logout, or the hour at which the session expires.  A logout waits for *)
(* a change that is deleting the row.                                      *)
EndSession(t) ==
    /\ t \in sessions
    /\ \A r \in Requests : t \notin request[r].revoked
    /\ sessions' = sessions \ {t}
    /\ UNCHANGED <<hash, request, openedBy>>

SessionNext ==
    \/ \E r \in Requests :
        \/ Login(r)
        \/ LockAccount(r)
        \/ \E t \in Tokens : InsertSession(r, t)
        \/ ChangePassword(r)
        \/ UpdateHash(r)
        \/ RevokeSessions(r)
        \/ CommitChange(r)
        \/ Fail(r)
    \/ \E t \in Tokens : EndSession(t)

SessionSpec == SessionInit /\ [][SessionNext]_sessionVars

(* No session outlives the password it was opened with: each that lives    *)
(* was opened with the hash the account has now, although login verifies   *)
(* the hash before its transaction and a change revokes only the sessions  *)
(* it finds (createAdminSession, changePassword).                          *)
SessionsOfPassword == \A t \in sessions : openedBy[t] = hash

(* A change replaces the very hash that was verified for it: of two        *)
(* changes from the same password the second fails, and nobody sets a      *)
(* password without knowing the present one (changePassword).              *)
ReplacesVerified ==
    [][hash' # hash => \E r \in Requests :
            /\ request[r].doing = "replace" /\ request'[r] = Idle
            /\ request[r].verified = hash]_sessionVars
=============================================================================
