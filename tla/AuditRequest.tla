---------------------------- MODULE AuditRequest ----------------------------
(***************************************************************************)
(* One moderation request, from its authentication to its record           *)
(* (request_log.go, server.go, router.go 405-797, route_failover.go,       *)
(* cache_route.go, route_resources.go).  It works on a snapshot of its     *)
(* policy and channels, serves a cached verdict or calls channels tier by  *)
(* tier, and is recorded whatever becomes of it.                           *)
(*                                                                         *)
(* Around it administrators edit channels and the policy between any two   *)
(* of its statements, other requests take up the channels (which of them   *)
(* can be called is any set, at every selection: see ChannelRouter) and    *)
(* fill the cache, the client goes away, and statements fail, some of them *)
(* after they have committed.                                              *)
(*                                                                         *)
(* A step is a statement, or what the code does between two.  The clock    *)
(* counts from the start of the call limit; it does not pass the deadline  *)
(* of a statement or call that is under way, which then ends.  An error is *)
(* "error" whatever its code, a verdict is "verdict" whether it flags.     *)
(***************************************************************************)
EXTENDS Naturals, FiniteSets, FiniteSetsExt

CONSTANTS Channels,
          Tier,             \* the priority of each channel, 1 first
          MaxAttempts, MaxAttemptsPerPriority,
          PriorityTimeout, TotalTimeout,
          MaxChanges,       \* bound: changes by administrators
          MaxEdits,         \* bound: those of channels and connections
          Editable,         \* bound: the channels they edit
          NoChannel, NoRow

ASSUME RequestAssumption ==
    /\ Tier \in [Channels -> 1 .. 100]
    /\ MaxAttempts \in 1 .. 5 /\ MaxAttemptsPerPriority \in 1 .. 5
    /\ PriorityTimeout \in Nat \ {0} /\ TotalTimeout \in Nat \ {0, 1}
    /\ MaxChanges \in Nat /\ MaxEdits \in Nat /\ Editable \subseteq Channels
    /\ NoChannel \notin Channels /\ NoRow \notin {"verdict", "error"}

VARIABLES
    row,       \* each channel with its connection, as in the database
    policy,    \* "enabled", "disabled" or "archived"
    changes,   \* how many changes there were,
    edits,     \* and of channels
    kind,      \* "production", or "test": a trial by an administrator
    pc, now,
    snap,      \* the channels of the snapshot
    held,      \* the key of each candidate, as routeResources read it
    cands, used, limit,
    hits,      \* candidates with a cached result, not yet looked at
    progress,  \* routeProgress: attempts, deadlines and skipped tiers
    total,     \* attempts that were sent
    cur,       \* the channel of the attempt
    deadline,  \* its failover deadline; the one of the request if it has none
    outcome,   \* what Assess returned
    pending,   \* reservations of the request that are not settled
    result, answer, recorded, record,
    before,    \* history: channels stopped or edited before cur was chosen
    closed,    \* history: the policy was closed when cur was chosen, or since
    backup,    \* history: a lower tier could be called when cur was chosen
    began,     \* history: when a tier was first chosen with a backup, or TotalTimeout
    heir       \* history: the channel chosen when a tier was passed over

db == <<row, policy, changes, edits>>
tiers == <<backup, began, heir>>
route == <<snap, held, cands, used, limit, hits, progress, total, cur, deadline, before, closed, tiers>>
tail == <<result, answer, recorded, record>>
vars == <<db, kind, pc, now, route, outcome, pending, tail>>

Row == [enabled : BOOLEAN, active : BOOLEAN, key : Nat, url : Nat, revision : Nat]
FirstRow == [enabled |-> TRUE, active |-> TRUE, key |-> 1, url |-> 1, revision |-> 1]
Tiers(S) == {Tier[c] : c \in S}
TierRange == Tiers(Channels)

NoProgress == [attempts |-> [p \in TierRange |-> 0], deadlines |-> [p \in TierRange |-> 0], skipped |-> {}]
Never == [p \in TierRange |-> TotalTimeout]
NoHeir == [p \in TierRange |-> NoChannel]

Init ==
    /\ row = [c \in Channels |-> FirstRow] /\ policy = "enabled" /\ changes = 0 /\ edits = 0
    /\ kind \in {"production", "test"}
    /\ pc = "arrived" /\ now = 0
    /\ snap = row /\ held = [c \in Channels |-> 0]
    /\ cands = {} /\ used = {} /\ limit = MaxAttempts /\ hits = {}
    /\ progress = NoProgress /\ total = 0
    /\ cur = NoChannel /\ deadline = TotalTimeout
    /\ outcome = "none" /\ pending = {}
    /\ before = {} /\ closed = FALSE /\ backup = FALSE /\ began = Never /\ heir = NoHeir
    /\ result = "error" /\ answer = "none" /\ recorded = FALSE /\ record = NoRow

-----------------------------------------------------------------------------
(* The administrators: every save of a channel or its connection gives the *)
(* channel a new revision (Administration), a new state of the policy does *)
(* not.                                                                    *)
Edited(x) ==
    {[y EXCEPT !.revision = x.revision + 1] :
        y \in {x, [x EXCEPT !.enabled = ~@], [x EXCEPT !.active = ~@],
               [x EXCEPT !.key = @ + 1], [x EXCEPT !.url = @ + 1]}}

EditChannel(c) ==
    /\ changes < MaxChanges /\ changes' = changes + 1
    /\ edits < MaxEdits /\ edits' = edits + 1
    /\ row' \in {[row EXCEPT ![c] = x] : x \in Edited(row[c])}
    /\ UNCHANGED <<policy, kind, pc, now, route, outcome, pending, tail>>

(* Not archived, and enabled unless this is a trial. *)
OpenAs(state) == state = "enabled" \/ (kind = "test" /\ state = "disabled")
PolicyOpen == OpenAs(policy)

EditedSince(c) == row[c].revision # snap[c].revision

Stopped == {c \in Channels : ~PolicyOpen \/ EditedSince(c)}

(* What was stopped with the policy can be called again when that is open. *)
EditPolicy ==
    /\ changes < MaxChanges /\ changes' = changes + 1
    /\ policy' \in {"enabled", "disabled", "archived"} \ {policy}
    /\ before' = IF OpenAs(policy') THEN {c \in before : EditedSince(c)} ELSE before
    /\ closed' = (closed \/ ~OpenAs(policy'))
    /\ UNCHANGED <<row, edits, kind, pc, now, snap, held, cands, used, limit, hits, progress,
                   total, cur, deadline, tiers, outcome, pending, tail>>

-----------------------------------------------------------------------------
(* The context of the request ends at its limit, or when the client goes   *)
(* away, which here brings the limit forward.                              *)
Over == now >= TotalTimeout
PreparationExpired == ~Over /\ now >= deadline

Preparing == {"recheck", "credential", "reserve", "calling"}
Bounded == {"prepare", "cache", "lookup", "cacheReserve"}

Tick ==
    /\ now < TotalTimeout
    /\ pc \in Preparing \cup Bounded \cup {"settle", "cacheSettle"}
    /\ pc \in Preparing => now < deadline
    /\ now' = now + 1
    /\ UNCHANGED <<db, kind, pc, route, outcome, pending, tail>>

ClientGone ==
    /\ ~Over
    /\ now' = TotalTimeout
    /\ UNCHANGED <<db, kind, pc, route, outcome, pending, tail>>

Go(label) ==
    /\ pc' = label
    /\ UNCHANGED <<db, kind, now>>

(* executeRoute returns, and what it kept is gone. *)
End(r) ==
    /\ result' = r
    /\ Go("cost")
    /\ cands' = {} /\ used' = {} /\ limit' = MaxAttempts /\ hits' = {}
    /\ progress' = NoProgress /\ total' = 0
    /\ cur' = NoChannel /\ deadline' = TotalTimeout /\ outcome' = "none"
    /\ before' = {} /\ closed' = FALSE /\ backup' = FALSE /\ began' = Never /\ heir' = NoHeir
    /\ UNCHANGED <<snap, held, answer, recorded, record>>

-----------------------------------------------------------------------------
(* Until runAudit: authentication, rate limit, parsing, the policy.        *)
Reject ==
    /\ pc = "arrived"
    /\ Go(IF kind = "production" THEN "deferred" ELSE "done")
    /\ answer' = "error"
    /\ UNCHANGED <<route, outcome, pending, result, recorded, record>>

(* RouteSnapshot, in a repeatable-read transaction.  A trial can name one  *)
(* channel, which is then called once.                                     *)
RouteSnapshot ==
    /\ pc = "arrived" /\ ~Over /\ PolicyOpen
    /\ Go("prepare")
    /\ snap' = row
    /\ LET open == {c \in Channels : row[c].enabled /\ row[c].active}
       IN \/ cands' = open /\ limit' = MaxAttempts
          \/ \E only \in Channels : kind = "test" /\ cands' = open \cap {only} /\ limit' = 1
    /\ UNCHANGED <<held, used, hits, progress, total, cur, deadline, before, closed, tiers, outcome, pending, tail>>

KeywordRule ==
    /\ pc = "prepare"
    /\ End("verdict")
    /\ UNCHANGED pending

(* Trial slots, budget, settings, channels whose settings are not valid,   *)
(* or an ended context: no channel is called.                              *)
Unprepared ==
    /\ pc = "prepare"
    /\ End("error")
    /\ UNCHANGED pending

(* The connection is active and has the provider and the address that the  *)
(* snapshot knows.                                                         *)
SameConnection(c) == row[c].active /\ row[c].url = snap[c].url

Misbound(c) == row[c].active /\ ~SameConnection(c)

(* routeResources reads the keys.  What a budget leaves out for want of a  *)
(* price is here a channel that is never found free.                       *)
RouteResources ==
    /\ pc = "prepare" /\ ~Over
    /\ \A c \in cands : ~Misbound(c)
    /\ cands' = {c \in cands : SameConnection(c)}
    /\ held' = [c \in Channels |-> IF c \in cands' THEN row[c].key ELSE 0]
    /\ \/ Go("select")
       \/ kind = "production" /\ Go("cache")
    /\ UNCHANGED <<snap, used, limit, hits, progress, total, cur, deadline, before, closed, tiers, outcome, pending, tail>>

-----------------------------------------------------------------------------
(* cacheLock has let the request in (KeyedGate), and the results of its    *)
(* candidates are read.                                                    *)
ReadCache ==
    /\ pc = "cache"
    /\ \/ /\ ~Over /\ Go("lookup")
          /\ hits' \in SUBSET cands
          /\ before' = Stopped
          /\ UNCHANGED <<snap, held, cands, used, limit, progress, total, cur, deadline, closed, tiers, outcome, tail>>
       \/ End("error")
    /\ UNCHANGED pending

(* A variant that must fail: a row is good enough if it is switched on. *)
SwitchedOn(c) == PolicyOpen /\ row[c].enabled /\ row[c].active

(* The recheck: not stopped, not edited since the snapshot. *)
Callable(c) == PolicyOpen /\ row[c].enabled /\ row[c].active /\ row[c].revision = snap[c].revision

(* The loop of cachedRoute asks the candidates by tier.  Those without a   *)
(* result change nothing but their tier's turn.                            *)
Lookup ==
    /\ pc = "lookup" /\ hits # {}
    /\ \E c \in hits :
          /\ hits' = hits \ {c}
          /\ \A other \in hits : Tier[c] <= Tier[other]
          /\ IF Callable(c) THEN cur' = c /\ Go("cacheReserve") ELSE cur' = NoChannel /\ Go("lookup")
    /\ UNCHANGED <<snap, held, cands, used, limit, progress, total, deadline, before, closed, tiers, outcome, pending, tail>>

LookupFails ==
    /\ pc = "lookup" /\ hits # {}
    /\ End("error")
    /\ UNCHANGED pending

Miss ==
    /\ pc = "lookup" /\ hits = {}
    /\ Go("select")
    /\ UNCHANGED <<route, outcome, pending, tail>>

-----------------------------------------------------------------------------
(* selectTier, for the channels that can be called now. *)
Remaining == limit - total

(* A variant that must fail: tiers that were passed over count as well. *)
HasLowerSkipped(p, eligible) == \E c \in eligible : Tier[c] > p

(* A channel of a lower tier that has not been passed over can be called.  *)
HasLower(p, eligible) == \E c \in eligible : Tier[c] > p /\ Tier[c] \notin progress.skipped

Spent(p) ==
    \/ progress.attempts[p] >= MaxAttemptsPerPriority
    \/ Remaining = 1 /\ progress.attempts[p] > 0
    \/ progress.deadlines[p] # 0 /\ now >= progress.deadlines[p]

GivesWay(p, eligible) == HasLower(p, eligible) /\ Spent(p)

Asked(eligible) == {p \in Tiers(eligible) : p \notin progress.skipped}
Serving(eligible) == {p \in Asked(eligible) : ~GivesWay(p, eligible)}

(* The tiers in front of the one that serves are passed over for good.     *)
SkippedNow(eligible) ==
    {p \in Asked(eligible) : \A other \in Serving(eligible) : p < other}

HalfLeft == now + (TotalTimeout - now) \div 2

TierDeadline(p) ==
    IF progress.deadlines[p] # 0 THEN progress.deadlines[p]
    ELSE Min({now + PriorityTimeout, HalfLeft})

(* A variant that must fail: when the tier's time ends is not kept. *)
DeadlinesForgotten(p, eligible) == progress.deadlines

DeadlinesWith(p, eligible) ==
    IF Remaining > 1 /\ HasLower(p, eligible) THEN [progress.deadlines EXCEPT ![p] = TierDeadline(p)]
    ELSE progress.deadlines

CallDeadline(p, eligible) ==
    LET tier == {c \in eligible : Tier[c] = p} IN
    IF Remaining <= 1 \/ (Cardinality(tier) = 1 /\ ~HasLower(p, eligible)) THEN TotalTimeout
    ELSE IF HasLower(p, eligible) THEN Min({TierDeadline(p), HalfLeft}) ELSE HalfLeft

(* acquireRoute picks any channel of the tier: the weights are random.     *)
Select(eligible) ==
    /\ pc = "select" /\ total < limit /\ ~Over
    /\ Serving(eligible) # {}
    /\ LET p == Min(Serving(eligible)) IN
          /\ cur' \in {c \in eligible : Tier[c] = p}
          /\ used' = used \cup {cur'}
          /\ deadline' = CallDeadline(p, eligible)
          /\ progress' =
                [progress EXCEPT !.skipped = @ \cup SkippedNow(eligible), !.deadlines = DeadlinesWith(p, eligible)]
          /\ backup' = (Remaining > 1 /\ \E c \in eligible : Tier[c] > p /\ Tier[c] \notin progress.skipped)
          /\ began' = [began EXCEPT ![p] = IF backup' THEN Min({@, now}) ELSE @]
    /\ heir' = [q \in TierRange |-> IF q \in progress'.skipped \ progress.skipped THEN cur' ELSE heir[q]]
    /\ before' = Stopped /\ closed' = ~PolicyOpen
    /\ outcome' = "none"
    /\ Go("recheck")
    /\ UNCHANGED <<snap, held, cands, limit, hits, total, pending, tail>>

(* Nothing to call: what is left and could be called, if anything, is in   *)
(* tiers that were passed over.                                            *)
NothingToCall(eligible) ==
    /\ pc = "select" /\ total < limit /\ ~Over
    /\ Serving(eligible) = {}
    /\ progress' = [progress EXCEPT !.skipped = @ \cup SkippedNow(eligible)]
    /\ Go("nothing")
    /\ UNCHANGED <<snap, held, cands, used, limit, hits, total, cur, deadline, before, closed, tiers, outcome, pending, tail>>

(* There is nothing to call, all attempts are used up, time is over, or    *)
(* the service is at capacity.                                             *)
GiveUp ==
    /\ pc \in {"select", "nothing"}
    /\ End("error")
    /\ UNCHANGED pending

Attempt(label) ==
    /\ Go(label)
    /\ UNCHANGED <<route, outcome, tail>>

(* A statement before the call fails.  If that is because the failover     *)
(* deadline has come, the next channel is tried; else the request ends.    *)
PreparationFails ==
    /\ pc \in {"recheck", "credential"}
    /\ IF PreparationExpired THEN Attempt("select") ELSE End("error")
    /\ UNCHANGED pending

Recheck ==
    /\ pc = "recheck"
    /\ Attempt(IF Callable(cur) THEN "credential" ELSE "select")
    /\ UNCHANGED pending

(* CredentialForConfig: inactive, or another key than the candidate's. *)
ReadCredential ==
    /\ pc = "credential" /\ ~Misbound(cur)
    /\ Attempt(IF row[cur].active /\ row[cur].key = held[cur] THEN "reserve" ELSE "select")
    /\ UNCHANGED pending

(* Another address: the request ends, unless the deadline has come as well. *)
CredentialMisbound ==
    /\ pc = "credential" /\ Misbound(cur)
    /\ IF PreparationExpired THEN Attempt("select") ELSE End("error")
    /\ UNCHANGED pending

-----------------------------------------------------------------------------
(* ReserveCost and SettleCost, of a call or of a cached verdict (their     *)
(* rules are in CostLedger).                                               *)
Reserve ==
    /\ pc \in {"reserve", "cacheReserve"}
    /\ pending' = pending \cup {cur}
    /\ Attempt(IF pc = "reserve" THEN "calling" ELSE "cacheSettle")

ReserveFails ==
    /\ pc \in {"reserve", "cacheReserve"}
    /\ pending' \in {pending, pending \cup {cur}}
    /\ End("error")

(* Assess returns.  If the request's time is over by then, its verdict     *)
(* counts for nothing.                                                     *)
Assess ==
    /\ pc = "calling"
    /\ \E o \in {"verdict", "retryable", "fatal"}, sent \in BOOLEAN :
          /\ o = "verdict" => sent
          /\ outcome' = IF Over THEN "fatal" ELSE o
          /\ total' = IF sent THEN total + 1 ELSE total
          /\ progress' = IF sent THEN [progress EXCEPT !.attempts[Tier[cur]] = @ + 1] ELSE progress
    /\ Go("settle")
    /\ UNCHANGED <<snap, held, cands, used, limit, hits, cur, deadline, before, closed, tiers, pending, tail>>

Settle ==
    /\ pc = "settle"
    /\ pending' = pending \ {cur}
    /\ IF outcome = "retryable" THEN Attempt("select")
       ELSE End(IF outcome = "verdict" THEN "verdict" ELSE "error")

SettleCached ==
    /\ pc = "cacheSettle"
    /\ pending' = pending \ {cur}
    /\ End("verdict")

SettleFails ==
    /\ pc \in {"settle", "cacheSettle"}
    /\ pending' \in {pending, pending \ {cur}}
    /\ End("error")

-----------------------------------------------------------------------------
(* The tail of runAudit, in a context of its own. *)
RequestCost ==
    /\ pc = "cost"
    /\ result' \in {result, "error"}
    /\ Go("record")
    /\ UNCHANGED <<route, outcome, pending, answer, recorded, record>>

AfterRecord == IF kind = "production" THEN "deferred" ELSE "done"

Record ==
    /\ pc = "record"
    /\ record' = result /\ answer' = result
    /\ recorded' = TRUE
    /\ Go(AfterRecord)
    /\ UNCHANGED <<route, outcome, pending, result>>

(* A variant that must fail: the failure is noted, and the verdict given. *)
RecordFailsQuietly == answer' = result

RecordUnavailable == answer' = "error"

RecordFails ==
    /\ pc = "record"
    /\ record' \in {NoRow, result}
    /\ RecordUnavailable
    /\ Go(AfterRecord)
    /\ UNCHANGED <<route, outcome, pending, result, recorded>>

(* The deferred function of auditModeration.  A second row with the same   *)
(* identifier is refused.                                                  *)
Deferred ==
    /\ pc = "deferred"
    /\ record' \in IF recorded \/ record # NoRow THEN {record} ELSE {NoRow, "error"}
    /\ Go("done")
    /\ UNCHANGED <<route, outcome, pending, result, answer, recorded>>

Done == pc = "done" /\ UNCHANGED vars

(* Once the route has ended nothing of this touches the request any more. *)
Environment ==
    /\ pc \notin {"cost", "record", "deferred", "done"}
    /\ (\E c \in Editable : EditChannel(c)) \/ EditPolicy \/ Tick \/ ClientGone
Prepare == Reject \/ RouteSnapshot \/ KeywordRule \/ Unprepared \/ RouteResources
Cached == ReadCache \/ Lookup \/ LookupFails \/ Miss \/ SettleCached
Route ==
    \/ \E eligible \in SUBSET (cands \ used) : Select(eligible) \/ NothingToCall(eligible)
    \/ GiveUp \/ Recheck \/ ReadCredential \/ CredentialMisbound \/ PreparationFails
    \/ Reserve \/ ReserveFails \/ Assess \/ Settle \/ SettleFails
Finish == RequestCost \/ Record \/ RecordFails \/ Deferred

Next == Environment \/ Prepare \/ Cached \/ Route \/ Finish \/ Done

Spec == Init /\ [][Next]_vars

-----------------------------------------------------------------------------
Labels == {"arrived", "prepare", "cache", "lookup", "cacheReserve", "cacheSettle", "select", "nothing", "recheck",
           "credential", "reserve", "calling", "settle", "cost", "record", "deferred", "done"}

TypeOK ==
    /\ row \in [Channels -> Row] /\ snap \in [Channels -> Row] /\ held \in [Channels -> Nat]
    /\ policy \in {"enabled", "disabled", "archived"} /\ kind \in {"production", "test"}
    /\ changes \in 0 .. MaxChanges /\ edits \in 0 .. MaxEdits
    /\ pc \in Labels /\ now \in 0 .. TotalTimeout /\ deadline \in 0 .. TotalTimeout
    /\ {cands, used, hits, pending, before} \subseteq SUBSET Channels
    /\ limit \in 1 .. MaxAttempts /\ total \in 0 .. limit
    /\ progress \in [attempts : [TierRange -> Nat], deadlines : [TierRange -> 0 .. TotalTimeout],
                     skipped : SUBSET TierRange]
    /\ cur \in Channels \cup {NoChannel} /\ outcome \in {"none", "verdict", "retryable", "fatal"}
    /\ result \in {"verdict", "error"} /\ answer \in {"none", "verdict", "error"}
    /\ record \in {"verdict", "error", NoRow} /\ recorded \in BOOLEAN
    /\ {backup, closed} \subseteq BOOLEAN
    /\ began \in [TierRange -> 0 .. TotalTimeout] /\ heir \in [TierRange -> Channels \cup {NoChannel}]

(***************************************************************************)
(* A verdict is only given once it is recorded as one and paid for: every  *)
(* reservation of its request is settled.  A request that ended with an    *)
(* error is not recorded as a verdict, unless the statement that recorded  *)
(* it had failed after its commit; and a production request without a      *)
(* record is one that got an error (request_log.go 60-80, router.go        *)
(* 434-504 and 763-775).                                                   *)
(***************************************************************************)
VerdictRecorded ==
    /\ answer = "verdict" => record = "verdict" /\ pending = {}
    /\ answer = "error" /\ record = "verdict" => ~recorded
    /\ pc = "done" /\ record = NoRow => answer = "error"

(***************************************************************************)
(* Nothing is called, and no cached verdict served, of a channel that was  *)
(* stopped or edited, or whose policy was stopped, before the attempt was  *)
(* chosen, in whichever of the statements before that it happened          *)
(* (DESIGN_MULTI_MODEL.zh.md 112: after a stop no new call is started, and *)
(* what is on its way may complete; router.go 675-706, cache_route.go      *)
(* 101-108).                                                               *)
(***************************************************************************)
CalledAsConfigured ==
    pc \in {"calling", "cacheSettle"} => cur \notin before

(***************************************************************************)
(* A tier is passed over, for good, only after it had its turn and for a   *)
(* channel behind it that is reserved in the same moment; and the request  *)
(* comes back from that channel for another only when it was called,       *)
(* unless an administrator edited it or closed the policy, or its time ran *)
(* out, after the request had read it.  So no tier is sacrificed for a     *)
(* backup that cannot be called, although the lower tier is looked at only *)
(* once: what was passed over itself is no backup, nor is what others have *)
(* taken (route_failover.go 27-61, router.go 185-256 and 659-705).         *)
(***************************************************************************)
LastTierKept ==
    \A p \in progress.skipped :
        /\ p \in Tiers(used)
        /\ heir[p] \in used /\ Tier[heir[p]] > p
        /\ pc = "select" /\ heir[p] = cur => outcome # "none" \/ EditedSince(cur) \/ closed \/ now >= deadline

(***************************************************************************)
(* Together, the attempts of a tier that has a backup stay within the      *)
(* number and the time of a tier: checks, reservations, calls and          *)
(* settlements count from when it was first chosen with a backup, whatever *)
(* came between, other tiers included; and each attempt that has a backup  *)
(* leaves it time and an attempt (src/README.md 299-300, route_failover.go *)
(* 30 and 55-82).                                                          *)
(***************************************************************************)
BackupInTime ==
    pc \in Preparing /\ backup =>
        /\ deadline <= began[Tier[cur]] + PriorityTimeout /\ deadline < TotalTimeout
        /\ progress.attempts[Tier[cur]] < MaxAttemptsPerPriority /\ Remaining > 1
=============================================================================
