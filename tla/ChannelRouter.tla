--------------------------- MODULE ChannelRouter ----------------------------
(***************************************************************************)
(* The channel router of router.go and channel_rpm.go: the in-memory state *)
(* of every model channel, shared by all requests under routeMu, and the   *)
(* steps of the requests that reserve a channel, recheck the database,     *)
(* call the model and release the channel.  Administrators edit channels   *)
(* at the same time: an edit commits to the database first and the memory  *)
(* is reset in a later step, while requests still hold old snapshots.      *)
(*                                                                         *)
(* Each saved edit gives the channel a new revision and a new cache epoch, *)
(* so a revision names an epoch.  The signature is a digest of the epoch   *)
(* and of the key, which a request reads after its snapshot: a pair of a   *)
(* revision and a number of key changes here.  Which eligible channel is   *)
(* taken is left open: the random draw can return any channel of the tier, *)
(* and which tier it is depends on the budgets of the request              *)
(* (route_failover.go), not on the state of the router.                    *)
(***************************************************************************)
EXTENDS Integers, Sequences, FiniteSets, Functions

CONSTANTS Channels,         \* model channels
          Requests,         \* goroutines that audit, one request at a time each
          Policies,         \* the sets of candidates a request can start with
          RPM,              \* RPM[c]: calls a minute, 0 for no limit
          MaxConcurrency,   \* MaxConcurrency[c]: reservations at a time
          Slots,            \* capacity of Engine.slots
          Threshold,        \* failures in a row that start a cooldown
          FailureCooldown,  \* its length, in ticks
          RetryAfter,       \* cooldowns an upstream error can ask for, 0 among them
          Window,           \* one minute, in ticks
          MaxTime,          \* bound: the clock stops here
          MaxRevision,      \* bound: MaxRevision[c] is the last revision of c
          MaxBurst,         \* bound: calls put on the wire to a channel in one tick
          NoChannel         \* a request without a reservation

ASSUME RequestsAssumption == IsFiniteSet(Requests)
ASSUME LimitsAssumption ==
    /\ Policies \in SUBSET ((SUBSET Channels) \ {{}})
    /\ RPM \in [Channels -> Nat]
    /\ MaxConcurrency \in [Channels -> Nat \ {0}]
    /\ Slots \in Nat \ {0} /\ Threshold \in Nat \ {0}
    /\ FailureCooldown \in Nat /\ RetryAfter \in SUBSET Nat
    /\ Window \in Nat \ {0} /\ MaxTime \in Nat \ {0} /\ MaxBurst \in Nat
    /\ MaxRevision \in [Channels -> Nat]
    /\ NoChannel \notin Channels

VARIABLES
    now,          \* the clock
    db,           \* db[c]: committed revision of the channel row
    keys,         \* keys[c]: how often the key of its credential was replaced
    resets,       \* resets[c]: edits committed whose resetChannel is still to come
    \* Engine.routes, field by field (a missing entry is a zero entry)
    revision, signature, inFlight, rpmPending, rpmCalls, consecutive, until, probe,
    \* one request each
    pc, cands, snap, sig, used, held, isProbe, attemptAt,
    \* history, never read by an action
    sends,        \* sends[c][t]: calls put on the wire at t, while in the window
    blame         \* blame[c]: configuration whose failure last marked the channel

health == <<signature, consecutive, until, probe>>
memory == <<revision, signature, inFlight, rpmPending, rpmCalls, consecutive, until, probe>>
request == <<pc, cands, snap, sig, used, held, isProbe, attemptAt>>
vars == <<now, db, keys, resets, memory, request, sends, blame>>

Times == 0 .. MaxTime

NoSignature == <<0, 0>>   \* the empty string of a new or a reset channel

larger(a, b) == IF a >= b THEN a ELSE b

Init ==
    /\ now = 1
    /\ db = [c \in Channels |-> 1]
    /\ keys = [c \in Channels |-> 0]
    /\ resets = [c \in Channels |-> 0]
    /\ revision = [c \in Channels |-> 0]
    /\ signature = [c \in Channels |-> NoSignature]
    /\ inFlight = [c \in Channels |-> 0]
    /\ rpmPending = [c \in Channels |-> 0]
    /\ rpmCalls = [c \in Channels |-> <<>>]
    /\ consecutive = [c \in Channels |-> 0]
    /\ until = [c \in Channels |-> 0]
    /\ probe = [c \in Channels |-> FALSE]
    /\ pc = [r \in Requests |-> "idle"]
    /\ cands = [r \in Requests |-> {}]
    /\ snap = [r \in Requests |-> [c \in Channels |-> 0]]
    /\ sig = [r \in Requests |-> [c \in Channels |-> NoSignature]]
    /\ used = [r \in Requests |-> {}]
    /\ held = [r \in Requests |-> NoChannel]
    /\ isProbe = [r \in Requests |-> FALSE]
    /\ attemptAt = [r \in Requests |-> 0]
    /\ sends = [c \in Channels |-> [t \in Times |-> 0]]
    /\ blame = [c \in Channels |-> NoSignature]

-----------------------------------------------------------------------------
(***************************************************************************)
(* rpmUsed: forget the leading calls that are a window old, count the rest *)
(* and every reservation that is outstanding.                              *)
(***************************************************************************)
Expired(s) == {n \in 1 .. Len(s) : \A i \in 1 .. n : s[i] <= now - Window}

Recent(s) == SubSeq(s, Cardinality(Expired(s)) + 1, Len(s))

\* A variant that must fail: reservations are not counted.
RpmUsedIgnoresPending(c) == Len(Recent(rpmCalls[c]))

RpmUsed(c) == Len(Recent(rpmCalls[c])) + rpmPending[c]

\* A variant that must fail: calls in the order they end.
InsertCallAtEnd(s, t) == Append(s, t)

(***************************************************************************)
(* Binary search and insertion by the start of the inference: requests     *)
(* complete out of order.                                                  *)
(***************************************************************************)
InsertCall(s, t) ==
    LET n == Cardinality({i \in 1 .. Len(s) : s[i] < t})
    IN  SubSeq(s, 1, n) \o <<t>> \o SubSeq(s, n + 1, Len(s))

(***************************************************************************)
(* Calls in progress occupy the global slots.                              *)
(***************************************************************************)
SlotsUsed == Cardinality({r \in Requests : pc[r] = "sent"})

-----------------------------------------------------------------------------
(***************************************************************************)
(* RouteSnapshot: one repeatable read gives the request its candidates and *)
(* their revisions.  A channel test is a request with one candidate.       *)
(***************************************************************************)
Begin(r) ==
    /\ pc[r] = "idle"
    /\ \E C \in Policies :
          /\ cands' = [cands EXCEPT ![r] = C]
          /\ snap' = [snap EXCEPT ![r] = [c \in Channels |-> IF c \in C THEN db[c] ELSE 0]]
    /\ pc' = [pc EXCEPT ![r] = "snapshot"]
    /\ UNCHANGED <<now, db, keys, resets, memory, sig, used, held, isProbe, attemptAt, sends, blame>>

(***************************************************************************)
(* routeResources reads the keys outside the snapshot: with a credential   *)
(* saved in between, the signature pairs an old epoch with a new key.      *)
(***************************************************************************)
ReadKeys(r) ==
    /\ pc[r] = "snapshot"
    /\ sig' = [sig EXCEPT ![r] =
                  [c \in Channels |-> IF c \in cands[r] THEN <<snap[r][c], keys[c]>> ELSE NoSignature]]
    /\ pc' = [pc EXCEPT ![r] = "routing"]
    /\ UNCHANGED <<now, db, keys, resets, memory, cands, snap, used, held, isProbe, attemptAt,
                   sends, blame>>

(***************************************************************************)
(* The loop of acquireRoute.  It leaves out the channels already tried and *)
(* those for which memory knows a newer revision than the snapshot, adopts *)
(* the configuration of the snapshot where the signature differs, and then *)
(* asks about cooldown, probe, concurrency and RPM.                        *)
(***************************************************************************)
Single(r) == Cardinality(cands[r]) = 1

Visited(r) == {c \in cands[r] \ used[r] : snap[r][c] >= revision[c]}

Adopted(r) == {c \in Visited(r) : signature[c] # sig[r][c]}

\* A variant that must fail: a probe in flight keeps nobody out.
CoolingIgnoresProbe(c) == until[c] > now

Cooling(c) == until[c] > now \/ probe[c]

Counted(r) ==
    {c \in Visited(r) : /\ Single(r) \/ c \in Adopted(r) \/ ~Cooling(c)
                        /\ inFlight[c] < MaxConcurrency[c]}

Eligible(r) == {c \in Counted(r) : RPM[c] = 0 \/ RpmUsed(c) < RPM[c]}

Visit(r) ==
    /\ revision' = [c \in Channels |-> IF c \in Adopted(r) THEN snap[r][c] ELSE revision[c]]
    /\ signature' = [c \in Channels |-> IF c \in Adopted(r) THEN sig[r][c] ELSE signature[c]]
    /\ until' = [c \in Channels |-> IF c \in Adopted(r) THEN 0 ELSE until[c]]
    /\ consecutive' = [c \in Channels |-> IF c \in Adopted(r) THEN 0 ELSE consecutive[c]]
    /\ rpmCalls' = [c \in Channels |->
                      IF c \in Counted(r) THEN Recent(rpmCalls[c]) ELSE rpmCalls[c]]

(***************************************************************************)
(* acquireRoute returns a channel: its reservation, and the half-open      *)
(* probe when the channel comes out of a cooldown, are made under the same *)
(* lock as the selection.                                                  *)
(***************************************************************************)
Acquire(r) ==
    /\ pc[r] = "routing"
    /\ SlotsUsed < Slots
    /\ Visit(r)
    /\ \E c \in Eligible(r) :
          LET probing == ~Single(r) /\ c \notin Adopted(r) /\ until[c] # 0
          IN  /\ inFlight' = [inFlight EXCEPT ![c] = @ + 1]
              /\ rpmPending' = [rpmPending EXCEPT ![c] = @ + 1]
              /\ probe' = [d \in Channels |->
                             \/ d = c /\ probing
                             \/ d \notin Adopted(r) /\ probe[d]]
              /\ held' = [held EXCEPT ![r] = c]
              /\ used' = [used EXCEPT ![r] = @ \cup {c}]
              /\ isProbe' = [isProbe EXCEPT ![r] = probing]
    /\ pc' = [pc EXCEPT ![r] = "held"]
    /\ UNCHANGED <<now, db, keys, resets, cands, snap, sig, attemptAt, sends, blame>>

(***************************************************************************)
(* What the request forgets when it is over.                               *)
(***************************************************************************)
Forget(r) ==
    /\ pc' = [pc EXCEPT ![r] = "idle"]
    /\ cands' = [cands EXCEPT ![r] = {}]
    /\ snap' = [snap EXCEPT ![r] = [c \in Channels |-> 0]]
    /\ sig' = [sig EXCEPT ![r] = [c \in Channels |-> NoSignature]]
    /\ used' = [used EXCEPT ![r] = {}]

(***************************************************************************)
(* acquireRoute returns no channel.  The loop has still adopted and        *)
(* trimmed; a request that has tried channels before may also find every   *)
(* tier with an eligible channel skipped.                                  *)
(***************************************************************************)
NoRoute(r) ==
    /\ pc[r] = "routing"
    /\ SlotsUsed < Slots
    /\ Eligible(r) = {} \/ used[r] # {}
    /\ Visit(r)
    /\ probe' = [d \in Channels |-> d \notin Adopted(r) /\ probe[d]]
    /\ Forget(r)
    /\ UNCHANGED <<now, db, keys, resets, inFlight, rpmPending, held, isProbe, attemptAt, sends, blame>>

(***************************************************************************)
(* The slots are full, the context has ended, the attempts are used up or  *)
(* the keys cannot be read: the request ends without looking at a channel. *)
(***************************************************************************)
GiveUp(r) ==
    /\ pc[r] \in {"snapshot", "routing"}
    /\ Forget(r)
    /\ UNCHANGED <<now, db, keys, resets, memory, held, isProbe, attemptAt, sends, blame>>

-----------------------------------------------------------------------------
(***************************************************************************)
(* After a release the request is over or goes back to the loop.           *)
(***************************************************************************)
Continue(r) ==
    \/ /\ pc' = [pc EXCEPT ![r] = "routing"]
       /\ UNCHANGED <<cands, snap, sig, used>>
    \/ Forget(r)

Unhold(r) ==
    /\ inFlight' = [inFlight EXCEPT ![held[r]] = @ - 1]
    /\ rpmPending' = [rpmPending EXCEPT ![held[r]] = @ - 1]
    /\ held' = [held EXCEPT ![r] = NoChannel]
    /\ isProbe' = [isProbe EXCEPT ![r] = FALSE]
    /\ attemptAt' = [attemptAt EXCEPT ![r] = 0]

\* A variant that must fail: the signature is not compared.
CurrentAlways(r) == held[r] # NoChannel

(***************************************************************************)
(* The channel still has the configuration this request reserved it under. *)
(***************************************************************************)
Current(r) == signature[held[r]] = sig[r][held[r]]

\* A variant that must fail: an unsent probe is not given back.
ReleaseUnsentKeepsProbe(r) ==
    /\ Unhold(r)
    /\ UNCHANGED <<now, db, keys, resets, revision, signature, rpmCalls, consecutive, until,
                   probe, sends, blame>>

\* A variant that must fail: an unsent reservation is not given back.
ReleaseUnsentKeepsQuota(r) ==
    /\ inFlight' = [inFlight EXCEPT ![held[r]] = @ - 1]
    /\ held' = [held EXCEPT ![r] = NoChannel]
    /\ isProbe' = [isProbe EXCEPT ![r] = FALSE]
    /\ attemptAt' = [attemptAt EXCEPT ![r] = 0]
    /\ probe' = IF Current(r) /\ isProbe[r] THEN [probe EXCEPT ![held[r]] = FALSE] ELSE probe
    /\ UNCHANGED <<now, db, keys, resets, revision, signature, rpmPending, rpmCalls, consecutive,
                   until, sends, blame>>

ReleaseUnsent(r) ==
    /\ Unhold(r)
    /\ probe' = IF Current(r) /\ isProbe[r] THEN [probe EXCEPT ![held[r]] = FALSE] ELSE probe
    /\ UNCHANGED <<now, db, keys, resets, revision, signature, rpmCalls, consecutive, until,
                   sends, blame>>

(***************************************************************************)
(* The recheck before every attempt: the row must still have the revision  *)
(* of the snapshot, and the credential the key that was read.              *)
(***************************************************************************)
Unedited(r) == db[held[r]] = snap[r][held[r]] /\ keys[held[r]] = sig[r][held[r]][2]

Recheck(r) ==
    /\ pc[r] = "held"
    /\ \/ /\ Unedited(r)
          /\ pc' = [pc EXCEPT ![r] = "checked"]
          /\ UNCHANGED <<now, db, keys, resets, memory, cands, snap, sig, used, held, isProbe,
                         attemptAt, sends, blame>>
       \/ /\ ~Unedited(r)
          /\ Continue(r)
          /\ ReleaseUnsent(r)

(***************************************************************************)
(* Everything else that keeps an attempt from being sent: a stopped policy *)
(* or credential, a database error, a preparation that times out, a cost   *)
(* that cannot be reserved, a slot taken by somebody else.                 *)
(***************************************************************************)
Unprepared(r) ==
    /\ pc[r] \in {"held", "checked"}
    /\ Continue(r)
    /\ ReleaseUnsent(r)

Send(r) ==
    /\ pc[r] = "checked"
    /\ SlotsUsed < Slots
    /\ sends[held[r]][now] < MaxBurst
    /\ pc' = [pc EXCEPT ![r] = "sent"]
    /\ attemptAt' = [attemptAt EXCEPT ![r] = now]
    /\ sends' = [sends EXCEPT ![held[r]][now] = @ + 1]
    /\ UNCHANGED <<now, db, keys, resets, memory, cands, snap, sig, used, held, isProbe, blame>>

(***************************************************************************)
(* release(err, true).  The quota is charged whatever happened since; the  *)
(* health of the channel is touched only under the same signature.         *)
(***************************************************************************)
Charge(r) ==
    /\ pc[r] = "sent"
    /\ Unhold(r)
    /\ rpmCalls' = [rpmCalls EXCEPT ![held[r]] = InsertCall(@, attemptAt[r])]
    /\ UNCHANGED <<now, db, keys, resets, revision, signature, sends>>

ProbeDone(r) ==
    probe' = IF isProbe[r] THEN [probe EXCEPT ![held[r]] = FALSE] ELSE probe

Stale(r) ==
    /\ Charge(r)
    /\ Continue(r)
    /\ ~Current(r)
    /\ UNCHANGED <<consecutive, until, probe, blame>>

Succeed(r) ==
    /\ Charge(r)
    /\ Forget(r)
    /\ Current(r)
    /\ ProbeDone(r)
    /\ consecutive' = [consecutive EXCEPT ![held[r]] = 0]
    /\ until' = [until EXCEPT ![held[r]] = 0]
    /\ UNCHANGED blame

Cancelled(r) ==
    /\ Charge(r)
    /\ Forget(r)
    /\ Current(r)
    /\ ProbeDone(r)
    /\ UNCHANGED <<consecutive, until, blame>>

\* A variant that must fail: the last cooldown wins.
ExtendedOverwrites(c, cooldown) ==
    IF cooldown > 0 THEN now + cooldown ELSE until[c]

Extended(c, cooldown) ==
    IF cooldown > 0 THEN larger(until[c], now + cooldown) ELSE until[c]

(***************************************************************************)
(* An error of the upstream.  consecutive is only ever compared with the   *)
(* threshold, so it stops counting there.                                  *)
(***************************************************************************)
Fail(r) ==
    /\ Charge(r)
    /\ Continue(r)
    /\ Current(r)
    /\ ProbeDone(r)
    /\ LET c == held[r]
           failures == IF consecutive[c] < Threshold THEN consecutive[c] + 1 ELSE Threshold
       IN  /\ consecutive' = [consecutive EXCEPT ![c] = failures]
           /\ blame' = [blame EXCEPT ![c] = sig[r][c]]
           /\ \E asked \in RetryAfter :
                 LET cooldown == IF isProbe[r] \/ failures >= Threshold
                                 THEN larger(asked, FailureCooldown) ELSE asked
                 IN  until' = IF Single(r) THEN until
                              ELSE [until EXCEPT ![c] = Extended(c, cooldown)]

-----------------------------------------------------------------------------
(***************************************************************************)
(* saveChannel and clearChannelCache commit a new revision and epoch;      *)
(* resetChannel follows outside the transaction.                           *)
(***************************************************************************)
EditChannel(c) ==
    /\ db[c] < MaxRevision[c]
    /\ db' = [db EXCEPT ![c] = @ + 1]
    /\ resets' = [resets EXCEPT ![c] = @ + 1]
    /\ UNCHANGED <<now, keys, memory, request, sends, blame>>

(***************************************************************************)
(* SaveProviderCredential: with a new key or the old one, a new revision   *)
(* and epoch for every channel that uses the credential, and no reset      *)
(* afterwards.                                                             *)
(***************************************************************************)
EditCredential(C) ==
    /\ \A c \in C : db[c] < MaxRevision[c]
    /\ db' = [c \in Channels |-> IF c \in C THEN db[c] + 1 ELSE db[c]]
    /\ \/ keys' = [c \in Channels |-> IF c \in C THEN keys[c] + 1 ELSE keys[c]]
       \/ keys' = keys
    /\ UNCHANGED <<now, resets, memory, request, sends, blame>>

ResetChannel(c) ==
    /\ resets[c] > 0
    /\ resets' = [resets EXCEPT ![c] = @ - 1]
    /\ signature' = [signature EXCEPT ![c] = NoSignature]
    /\ until' = [until EXCEPT ![c] = 0]
    /\ probe' = [probe EXCEPT ![c] = FALSE]
    /\ consecutive' = [consecutive EXCEPT ![c] = 0]
    /\ UNCHANGED <<now, db, keys, revision, inFlight, rpmPending, rpmCalls, request, sends, blame>>

(***************************************************************************)
(* The admin pages read the health of a channel, which trims its calls.    *)
(***************************************************************************)
ReadHealth(c) ==
    /\ rpmCalls' = [rpmCalls EXCEPT ![c] = Recent(@)]
    /\ UNCHANGED <<now, db, keys, resets, revision, inFlight, rpmPending, health, request, sends, blame>>

Tick ==
    /\ now < MaxTime
    /\ now' = now + 1
    /\ sends' = [c \in Channels |->
                   [t \in Times |-> IF t <= now + 1 - Window THEN 0 ELSE sends[c][t]]]
    /\ UNCHANGED <<db, keys, resets, memory, request, blame>>

Finish(r) == Stale(r) \/ Succeed(r) \/ Cancelled(r) \/ Fail(r)

Proceed(r) == Recheck(r) \/ Unprepared(r) \/ Send(r) \/ Finish(r)

Next ==
    \/ \E r \in Requests :
          Begin(r) \/ ReadKeys(r) \/ Acquire(r) \/ NoRoute(r) \/ GiveUp(r) \/ Proceed(r)
    \/ \E c \in Channels : EditChannel(c) \/ ResetChannel(c) \/ ReadHealth(c)
    \/ \E C \in (SUBSET Channels) \ {{}} : EditCredential(C)
    \/ Tick

Spec == Init /\ [][Next]_vars

-----------------------------------------------------------------------------
TypeOK ==
    /\ now \in Times
    /\ db \in [Channels -> Nat]
    /\ keys \in [Channels -> Nat]
    /\ resets \in [Channels -> Nat]
    /\ revision \in [Channels -> Nat]
    /\ signature \in [Channels -> Nat \X Nat]
    /\ inFlight \in [Channels -> Nat]
    /\ rpmPending \in [Channels -> Nat]
    /\ rpmCalls \in [Channels -> Seq(Times)]
    /\ consecutive \in [Channels -> 0 .. Threshold]
    /\ until \in [Channels -> Nat]
    /\ probe \in [Channels -> BOOLEAN]
    /\ pc \in [Requests -> {"idle", "snapshot", "routing", "held", "checked", "sent"}]
    /\ cands \in [Requests -> SUBSET Channels]
    /\ snap \in [Requests -> [Channels -> Nat]]
    /\ sig \in [Requests -> [Channels -> Nat \X Nat]]
    /\ used \in [Requests -> SUBSET Channels]
    /\ held \in [Requests -> Channels \cup {NoChannel}]
    /\ isProbe \in [Requests -> BOOLEAN]
    /\ attemptAt \in [Requests -> Times]
    /\ sends \in [Channels -> [Times -> Nat]]
    /\ blame \in [Channels -> Nat \X Nat]

Holders(c) == {r \in Requests : held[r] = c}

InWindow(c) == {r \in Holders(c) : pc[r] = "sent" /\ attemptAt[r] > now - Window}

(***************************************************************************)
(* Every reservation is given back exactly once, whatever path the request *)
(* leaves by, and across edits and resets of the channel: the counters are *)
(* the number of outstanding reservations, within the concurrency limit.   *)
(* A counter that leaked would shrink the channel until a restart          *)
(* (router.go 271-281).                                                    *)
(***************************************************************************)
ReservationsConserved ==
    \A c \in Channels :
        /\ inFlight[c] = Cardinality(Holders(c))
        /\ rpmPending[c] = inFlight[c]
        /\ inFlight[c] <= MaxConcurrency[c]

(***************************************************************************)
(* No rolling minute holds more calls than the channel's RPM, although     *)
(* calls start later than they are reserved, end out of order and survive  *)
(* edits and resets ("Reserving under routeMu prevents concurrent requests *)
(* from overspending RPM", channel_rpm.go 5-7).                            *)
(***************************************************************************)
LastMinute(c) == SumFunctionOnSet(sends[c], Times)

WindowWithinRPM ==
    \A c \in Channels : RPM[c] # 0 => LastMinute(c) <= RPM[c]

(***************************************************************************)
(* The router's own accounting is exact: what rpmUsed counts besides the   *)
(* reservations is the finished calls of the last minute, no more (quota   *)
(* lost for longer than a minute) and no less.                             *)
(***************************************************************************)
AllowanceExact ==
    \A c \in Channels :
        Len(Recent(rpmCalls[c])) = LastMinute(c) - Cardinality(InWindow(c))

(***************************************************************************)
(* Cooldowns and failure counts belong to the configuration memory has for *)
(* the channel: a request that was sent under an older one never marks it  *)
(* ("A completed old request must not poison a newly edited connection",   *)
(* router.go 292), and the health shown for a revision is that revision's. *)
(***************************************************************************)
HealthOfConfiguration ==
    \A c \in Channels :
        until[c] # 0 \/ consecutive[c] # 0 => blame[c] = signature[c] /\ blame[c][1] = revision[c]

(***************************************************************************)
(* The probe flag that keeps everybody out of a half-open channel always   *)
(* has a request that will clear it: a flag without an owner would close   *)
(* the channel for good (router.go 217, 273-276, 296-298).                 *)
(***************************************************************************)
Probes(c) == {r \in Holders(c) : isProbe[r] /\ Current(r)}

ProbeOwned == \A c \in Channels : probe[c] => Probes(c) # {}

(***************************************************************************)
(* After a cooldown one recovery call is let through at a time, whoever    *)
(* asks and however long the answer takes (router.go 218, 273-276; the     *)
(* README says so of the recovery of a cooled channel, README.md 301).  An *)
(* edit of the channel starts its health afresh, an older probe still out. *)
(***************************************************************************)
OneProbe ==
    \A c \in Channels :
        db[c] = 1 => Cardinality({r \in Probes(c) : pc[r] = "sent"}) <= 1

(***************************************************************************)
(* A cooldown only ends early by a success or by a change of configuration *)
(* and is never replaced by a shorter one ("Concurrent failures must not   *)
(* shorten an existing cooldown", router.go 334).                          *)
(***************************************************************************)
CooldownNotShortened ==
    [][\A c \in Channels : until'[c] < until[c] =>
          /\ until'[c] = 0
          /\ \/ signature'[c] # signature[c]
             \/ \E r \in Requests : pc[r] = "sent" /\ held[r] = c /\ pc'[r] = "idle"]_vars
=============================================================================
