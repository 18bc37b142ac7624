--------------------------- MODULE Administration ---------------------------
(***************************************************************************)
(* The configuration the administrators edit: credentials, channels that   *)
(* use a credential, policies that bind channels, client keys authorised   *)
(* for policies, and evaluation runs of a policy (store.go, channels.go,   *)
(* policy_lifecycle.go, key_lifecycle.go, keys.go, credentials.go).        *)
(*                                                                         *)
(* Of the references between these tables only that of a channel to its    *)
(* credential is a foreign key.  What keeps the others is that             *)
(* Store.mutate takes one advisory lock for every change of them, and that *)
(* each change looks at the other tables before it writes.  A transaction  *)
(* is two steps: it takes the lock, checks, and settles on the row it is   *)
(* going to write; then it commits, and the others see the row.  An        *)
(* administrator edits in a form: what was seen when the form was opened   *)
(* can be long out of date when it is submitted.                           *)
(*                                                                         *)
(* Identifiers are random, so a deleted one does not come back.  A policy  *)
(* is known by the channels it binds, with the binding switched on or off; *)
(* names, prompts, limits and the token itself are left out.               *)
(***************************************************************************)
EXTENDS Naturals, FiniteSets

CONSTANTS Credentials, Channels, Policies, Keys, Runs,
          Admins,      \* administrators' requests
          MaxChanges,  \* bound: commits
          NoRow, Gone, \* a row that was never inserted, one that was deleted
          NoView, NoChange, Nobody

ASSUME AdministrationAssumption ==
    /\ MaxChanges \in Nat /\ Nobody \notin Admins

VARIABLES
    credential, channel, policy, key, run,  \* the tables
    lock,     \* who holds the advisory lock 846274903
    seen,     \* what each administrator looks at: a row with its revision
    change,   \* the row each transaction is going to write
    changes

tables == <<credential, channel, policy, key, run>>
vars == <<tables, lock, seen, change, changes>>

Revision == 1 .. MaxChanges + 2
Credential == [active : BOOLEAN]
Channel == [credential : Credentials, enabled : BOOLEAN, revision : Revision]
Config == {b \in [on : SUBSET Channels, off : SUBSET Channels] : b.on \cap b.off = {}}
Policy == [config : Config, enabled : BOOLEAN, archived : BOOLEAN, revision : Revision]
Key == [policies : SUBSET Policies, active : BOOLEAN, deleted : BOOLEAN, revision : Revision]
Run == [policy : Policies, active : BOOLEAN]

Table(name) ==
    CASE name = "credential" -> credential
      [] name = "channel" -> channel
      [] name = "policy" -> policy
      [] name = "key" -> key
      [] name = "run" -> run

ASSUME TableAssumption ==
    /\ NoRow # Gone
    /\ {NoRow, Gone} \cap (Credential \cup Channel \cup Policy \cup Key \cup Run) = {}

Exists(row) == row \notin {NoRow, Gone}

(* Some first configuration: what an administrator sets up before anything *)
(* else happens.                                                           *)
Init ==
    /\ \E c \in Credentials, h \in Channels, p \in Policies, b \in BOOLEAN :
          /\ credential = [x \in Credentials |-> IF x = c THEN [active |-> TRUE] ELSE NoRow]
          /\ channel = [x \in Channels |->
                IF x = h THEN [credential |-> c, enabled |-> TRUE, revision |-> 1] ELSE NoRow]
          /\ policy = [x \in Policies |->
                IF x = p THEN [config |-> [on |-> {h}, off |-> {}], enabled |-> b, archived |-> ~b, revision |-> 2]
                ELSE NoRow]
    /\ key \in [Keys -> {NoRow}] \cup
               {[k \in Keys |-> [policies |-> {p \in Policies : Exists(policy[p])},
                                 active |-> TRUE, deleted |-> FALSE, revision |-> 1]]}
    /\ run = [e \in Runs |-> NoRow]
    /\ lock = Nobody
    /\ seen = [a \in Admins |-> NoView]
    /\ change = [a \in Admins |-> NoChange]
    /\ changes = 0

-----------------------------------------------------------------------------
(* A page shows a row; the one of a channel also shows whether its         *)
(* credential is active.                                                   *)
View(name, id) ==
    [row |-> Table(name)[id],
     active |-> IF name = "channel" THEN credential[channel[id].credential].active ELSE TRUE]

Open(a, name, id) ==
    /\ seen[a] = NoView /\ change[a] = NoChange
    /\ Exists(Table(name)[id])
    /\ seen' = [seen EXCEPT ![a] = [table |-> name, id |-> id, view |-> View(name, id)]]
    /\ UNCHANGED <<tables, lock, change, changes>>

Form(a, name, id) == seen[a] # NoView /\ seen[a].table = name /\ seen[a].id = id

(* WHERE ... revision = expected_revision, or the comparison before it. *)
Current(a, name, id) ==
    Form(a, name, id) /\ seen[a].view.row.revision = Table(name)[id].revision

(* mutate: the lock, then what the transaction will write.  The row of a   *)
(* form is no longer needed once it is submitted, except to say what the   *)
(* administrator had seen.                                                 *)
Lock(a) == lock = Nobody /\ lock' = a

Prepare(a, name, id, row, form) ==
    /\ change[a] = NoChange /\ changes < MaxChanges
    /\ change' = [change EXCEPT ![a] = [table |-> name, id |-> id, row |-> row, form |-> form]]
    /\ UNCHANGED <<tables, seen, changes>>

-----------------------------------------------------------------------------
(* validateBindings *)
Ready(config) ==
    \E h \in config.on : channel[h].enabled /\ credential[channel[h].credential].active

ValidBindings(config, required) ==
    /\ \A h \in config.on \cup config.off : Exists(channel[h])
    /\ required => Ready(config)

CreateCredential(a, c) ==
    /\ credential[c] = NoRow /\ Lock(a)
    /\ \E active \in BOOLEAN : Prepare(a, "credential", c, [active |-> active], FALSE)

SaveProviderCredential(a, c) ==
    /\ Exists(credential[c]) /\ Lock(a)
    /\ \E active \in BOOLEAN : Prepare(a, "credential", c, [active |-> active], FALSE)

DeleteCredential(a, c) ==
    /\ Exists(credential[c]) /\ Lock(a)
    /\ \A h \in Channels : Exists(channel[h]) => channel[h].credential # c
    /\ Prepare(a, "credential", c, Gone, FALSE)

CreateChannel(a, h) ==
    /\ channel[h] = NoRow /\ Lock(a)
    /\ \E c \in Credentials, enabled \in BOOLEAN :
          /\ Exists(credential[c]) /\ (enabled => credential[c].active)
          /\ Prepare(a, "channel", h, [credential |-> c, enabled |-> enabled, revision |-> 1], FALSE)

SaveChannel(a, h) ==
    /\ Exists(channel[h]) /\ Lock(a) /\ Current(a, "channel", h)
    /\ \E c \in Credentials, enabled \in BOOLEAN :
          /\ Exists(credential[c]) /\ (enabled => credential[c].active)
          /\ Prepare(a, "channel", h,
                     [credential |-> c, enabled |-> enabled, revision |-> channel[h].revision + 1], TRUE)

DeleteChannel(a, h) ==
    /\ Exists(channel[h]) /\ Lock(a)
    /\ \A p \in Policies : Exists(policy[p]) => h \notin policy[p].config.on \cup policy[p].config.off
    /\ Prepare(a, "channel", h, Gone, FALSE)

ClearChannelCache(a, h) ==
    /\ Exists(channel[h]) /\ Lock(a)
    /\ Prepare(a, "channel", h, [channel[h] EXCEPT !.revision = @ + 1], FALSE)

-----------------------------------------------------------------------------
DefaultSettings == [on |-> {}, off |-> {}]

NewPolicy(config) == [config |-> config, enabled |-> FALSE, archived |-> FALSE, revision |-> 1]

(* The policy to copy, if any, was read before the lock was taken. *)
Source(a) ==
    IF seen[a] # NoView /\ seen[a].table = "policy" THEN seen[a].view.row.config ELSE DefaultSettings

CreatePolicy(a, p) ==
    /\ policy[p] = NoRow /\ Lock(a)
    /\ ValidBindings(Source(a), FALSE)
    /\ Prepare(a, "policy", p, NewPolicy(Source(a)), FALSE)

ImportPolicy(a, p) ==
    /\ policy[p] = NoRow /\ Lock(a)
    /\ \E config \in Config :
          ValidBindings(config, FALSE) /\ Prepare(a, "policy", p, NewPolicy(config), FALSE)

SaveConfig(a, p) ==
    /\ Exists(policy[p]) /\ Lock(a) /\ Current(a, "policy", p)
    /\ ~policy[p].archived
    /\ \E config \in Config :
          /\ ValidBindings(config, policy[p].enabled)
          /\ Prepare(a, "policy", p, [policy[p] EXCEPT !.config = config, !.revision = @ + 1], TRUE)

(* A variant that must fail: a policy is enabled without a look at its channels. *)
ReadyUnchecked(config) == TRUE

ReadyToEnable(config) == ValidBindings(config, TRUE)

SetPolicyState(a, p) ==
    /\ Exists(policy[p]) /\ Lock(a) /\ Current(a, "policy", p)
    /\ ~policy[p].archived
    /\ \E enabled \in BOOLEAN :
          /\ enabled => ReadyToEnable(policy[p].config)
          /\ Prepare(a, "policy", p, [policy[p] EXCEPT !.enabled = enabled, !.revision = @ + 1], TRUE)

Evaluated(p) == \E e \in Runs : Exists(run[e]) /\ run[e].active /\ run[e].policy = p

ArchivePolicy(a, p) ==
    /\ Exists(policy[p]) /\ Lock(a) /\ Current(a, "policy", p)
    /\ ~Evaluated(p)
    /\ Prepare(a, "policy", p, [policy[p] EXCEPT !.archived = ~@, !.enabled = FALSE, !.revision = @ + 1], TRUE)

Authorised(k, p) == Exists(key[k]) /\ ~key[k].deleted /\ p \in key[k].policies

DeletePolicy(a, p) ==
    /\ Exists(policy[p]) /\ Lock(a)
    /\ policy[p].archived /\ ~Evaluated(p)
    /\ \A k \in Keys : ~Authorised(k, p)
    /\ Prepare(a, "policy", p, Gone, FALSE)

-----------------------------------------------------------------------------
Known(policies) == \A p \in policies : Exists(policy[p])

CreateKey(a, k) ==
    /\ key[k] = NoRow /\ Lock(a)
    /\ \E policies \in SUBSET Policies \ {{}} :
          /\ Known(policies)
          /\ Prepare(a, "key", k, [policies |-> policies, active |-> TRUE, deleted |-> FALSE, revision |-> 1], FALSE)

UpdateKey(a, k) ==
    /\ Exists(key[k]) /\ Lock(a) /\ ~key[k].deleted /\ Current(a, "key", k)
    /\ \E policies \in SUBSET Policies, active \in BOOLEAN :
          /\ Known(policies) /\ (active => policies # {})
          /\ Prepare(a, "key", k, [key[k] EXCEPT !.policies = policies, !.active = active, !.revision = @ + 1], TRUE)

RotateKey(a, k) ==
    /\ Exists(key[k]) /\ Lock(a) /\ ~key[k].deleted /\ Current(a, "key", k)
    /\ Prepare(a, "key", k, [key[k] EXCEPT !.revision = @ + 1], TRUE)

(* A variant that must fail: a revocation leaves the revision as it is. *)
RevokedSilently(row) == [row EXCEPT !.active = FALSE]

Revoked(row) == [row EXCEPT !.active = FALSE, !.revision = @ + 1]

RevokeKey(a, k) ==
    /\ Exists(key[k]) /\ Lock(a) /\ ~key[k].deleted
    /\ Prepare(a, "key", k, Revoked(key[k]), FALSE)

DeleteKey(a, k) ==
    /\ Exists(key[k]) /\ Lock(a) /\ ~key[k].deleted
    /\ Prepare(a, "key", k, [Revoked(key[k]) EXCEPT !.deleted = TRUE], FALSE)

-----------------------------------------------------------------------------
(* A variant that must fail: the run is created under its own lock only. *)
EvaluationUnlocked(a) == lock' = lock

(* createEvaluationRun takes the lock of runs, then the one of mutate. *)
EvaluationLock(a) == Lock(a)

StartEvaluation(a, e) ==
    /\ run[e] = NoRow /\ EvaluationLock(a)
    /\ \A other \in Runs : Exists(run[other]) => ~run[other].active
    /\ \E p \in Policies :
          /\ Exists(policy[p]) /\ ~policy[p].archived
          /\ Prepare(a, "run", e, [policy |-> p, active |-> TRUE], FALSE)

EndEvaluation(e) ==
    /\ Exists(run[e]) /\ run[e].active
    /\ run' = [run EXCEPT ![e].active = FALSE]
    /\ UNCHANGED <<credential, channel, policy, key, lock, seen, change, changes>>

-----------------------------------------------------------------------------
(* Saving a credential also gives its channels a new revision and epoch. *)
Write(a, name) ==
    IF change[a].table = name THEN [Table(name) EXCEPT ![change[a].id] = change[a].row] ELSE Table(name)

ChannelsAfter(a) ==
    IF change[a].table = "credential" /\ credential[change[a].id] # NoRow
    THEN [h \in Channels |->
            IF Exists(channel[h]) /\ channel[h].credential = change[a].id
            THEN [channel[h] EXCEPT !.revision = @ + 1] ELSE channel[h]]
    ELSE Write(a, "channel")

Finish(a) ==
    /\ lock' = IF lock = a THEN Nobody ELSE lock
    /\ change' = [change EXCEPT ![a] = NoChange]
    /\ seen' = [seen EXCEPT ![a] = NoView]

Commit(a) ==
    /\ change[a] # NoChange
    /\ credential' = Write(a, "credential")
    /\ channel' = ChannelsAfter(a)
    /\ policy' = Write(a, "policy")
    /\ key' = Write(a, "key")
    /\ run' = Write(a, "run")
    /\ changes' = changes + 1
    /\ Finish(a)

(* The form is given up, or the transaction fails, or finds a conflict. *)
Abort(a) ==
    /\ change[a] # NoChange \/ seen[a] # NoView
    /\ Finish(a)
    /\ UNCHANGED <<tables, changes>>

CredentialAction(a, c) == CreateCredential(a, c) \/ SaveProviderCredential(a, c) \/ DeleteCredential(a, c)
ChannelAction(a, h) ==
    CreateChannel(a, h) \/ SaveChannel(a, h) \/ DeleteChannel(a, h) \/ ClearChannelCache(a, h)
PolicyAction(a, p) ==
    \/ CreatePolicy(a, p) \/ ImportPolicy(a, p) \/ SaveConfig(a, p)
    \/ SetPolicyState(a, p) \/ ArchivePolicy(a, p) \/ DeletePolicy(a, p)
KeyAction(a, k) == CreateKey(a, k) \/ UpdateKey(a, k) \/ RotateKey(a, k) \/ RevokeKey(a, k) \/ DeleteKey(a, k)

Next ==
    \/ \E a \in Admins :
          \/ \E h \in Channels : Open(a, "channel", h) \/ ChannelAction(a, h)
          \/ \E p \in Policies : Open(a, "policy", p) \/ PolicyAction(a, p)
          \/ \E k \in Keys : Open(a, "key", k) \/ KeyAction(a, k)
          \/ \E c \in Credentials : CredentialAction(a, c)
          \/ \E e \in Runs : StartEvaluation(a, e)
          \/ Commit(a) \/ Abort(a)
    \/ \E e \in Runs : EndEvaluation(e)

Spec == Init /\ [][Next]_vars

-----------------------------------------------------------------------------
TypeOK ==
    /\ credential \in [Credentials -> Credential \cup {NoRow, Gone}]
    /\ channel \in [Channels -> Channel \cup {NoRow, Gone}]
    /\ policy \in [Policies -> Policy \cup {NoRow, Gone}]
    /\ key \in [Keys -> Key \cup {NoRow}]
    /\ run \in [Runs -> Run \cup {NoRow}]
    /\ lock \in Admins \cup {Nobody}
    /\ changes \in 0 .. MaxChanges

(***************************************************************************)
(* No reference dangles, whatever is deleted at the same time as it is     *)
(* made: channels have their credential, policies their channels, keys     *)
(* that are not deleted their policies, and a policy under evaluation is   *)
(* there and not archived (channels.go 245-259, credentials.go 45-58,      *)
(* policy_lifecycle.go 54-60 and 91-97, evaluation_runs.go 174-195).       *)
(***************************************************************************)
ReferencesIntact ==
    /\ \A h \in Channels : Exists(channel[h]) => Exists(credential[channel[h].credential])
    /\ \A p \in Policies : Exists(policy[p]) =>
          \A h \in policy[p].config.on \cup policy[p].config.off : Exists(channel[h])
    /\ \A k \in Keys : Exists(key[k]) /\ ~key[k].deleted => Known(key[k].policies)
    /\ \A p \in Policies : Evaluated(p) => Exists(policy[p]) /\ ~policy[p].archived

(***************************************************************************)
(* The form of a channel, a policy or a key, which carries the revision    *)
(* that was read, only replaces what its administrator saw: a revocation,  *)
(* a stop, an edit or, for a channel, a new state of its credential that   *)
(* came in between makes the submission fail (key_lifecycle.go 31-39,      *)
(* channels.go 177, store.go 234 and 251, policy_lifecycle.go 48).         *)
(*                                                                         *)
(* It is not about credentials: SaveProviderCredential takes no revision   *)
(* (store.go 320-354), the last save wins, and one from an old page        *)
(* enables again what another administrator has disabled.  Nor is it about *)
(* deletions, revocations and cleared caches, which act on the row as it   *)
(* is.                                                                     *)
(***************************************************************************)
FormsAreCurrent ==
    [][\A a \in Admins :
          changes' # changes /\ change'[a] # change[a] /\ change[a].form =>
              View(change[a].table, change[a].id) = seen[a].view]_vars

(***************************************************************************)
(* A policy is enabled, or edited while it is enabled, only at a moment    *)
(* when one of its channels can be called: no channel or credential is     *)
(* switched off between the check and the commit (channels.go 26-61).      *)
(***************************************************************************)
Callable(p) == Exists(policy[p]) /\ policy[p].enabled => Ready(policy[p].config)

EnabledWhenReady == [][\A p \in Policies : policy'[p] # policy[p] => Callable(p)']_vars
=============================================================================
