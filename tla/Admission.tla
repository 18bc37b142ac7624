------------------------------ MODULE Admission ------------------------------
(***************************************************************************)
(* What a moderation request passes before it is audited: the guard that   *)
(* keeps a bucket of tokens for each client address (ingress.go), the      *)
(* budget for requests and their bodies (requestAdmission, runtime.go),    *)
(* and the rate of its key in rate_limits (Store.Rate).  Policies' tests   *)
(* pass only the second.                                                   *)
(*                                                                         *)
(* Time runs in ticks, Minute of them to a minute.  Instants are kept as   *)
(* ages, counted to Oldest: beyond it nothing tells two of them apart.     *)
(* Both the guard and Rate compare with an instant that was taken before   *)
(* the mutex, or the row, was waited for: a request is up to MaxLate ticks *)
(* late when its turn comes, and others may have gone before it with later *)
(* instants.  A token is Minute units, so that a tick refills a bucket of  *)
(* rpm tokens by rpm units and the arithmetic is exact.                    *)
(***************************************************************************)
EXTENDS Integers, FiniteSets, FiniteSetsExt, Functions

CONSTANTS Requests,
          Clients,                      \* addresses, as requestClientIP finds them
          GlobalRPM, IPRPM,             \* ingressLimits
          Concurrency, IPConcurrency, MaxClients,
          BodyLimit, BodyBudget,        \* of one body, of all
          Lengths,                      \* Content-Length of requests, -1 if there is none
          KeyRPM,                       \* of the key all requests use
          Minute,                       \* ticks
          MaxLate,                      \* bound: ticks between an instant and its use
          NoBucket, Nobody

ASSUME AdmissionAssumption ==
    /\ {GlobalRPM, IPRPM, Concurrency, IPConcurrency, MaxClients} \subseteq Nat \ {0}
    /\ {BodyLimit, BodyBudget, KeyRPM, Minute} \subseteq Nat \ {0}
    /\ Lengths \subseteq Nat \cup {-1}
    /\ MaxLate \in 0 .. Minute - 1
    /\ Nobody \notin Clients /\ IsFiniteSet(Requests)

VARIABLES
    global,     \* the bucket all requests share
    clients,    \* the bucket of each address, NoBucket if the table has none
    cleaned,    \* age of the last cleanup of the table
    budget,     \* requestAdmission: active, bytes
    window,     \* the key's row of rate_limits: starts_at, hits
    request,    \* where each request is
    let         \* history: hits that were let through, by age

guard == <<global, clients, cleaned>>
vars == <<guard, budget, window, request, let>>

Oldest == Minute + MaxLate
Recent == 0 .. Minute - MaxLate

Inside == {"entered", "reading", "rating", "answering", "leaving"}
WithBody == {"reading", "rating", "answering", "testing"}
Stages == {"away", "arriving"} \cup Inside \cup WithBody
Bucket(rpm, most) == [tokens : 0 .. rpm * Minute, updated : 0 .. Oldest, active : 0 .. most]
ASSUME BucketAssumption == NoBucket \notin Bucket(IPRPM, IPConcurrency)
NoLength == -1
Away == [at |-> "away", client |-> Nobody, late |-> 0, length |-> NoLength]

TypeOK ==
    /\ global \in Bucket(GlobalRPM, Concurrency)
    /\ clients \in [Clients -> Bucket(IPRPM, IPConcurrency) \cup {NoBucket}]
    /\ cleaned \in 0 .. Oldest
    /\ budget \in [active : 0 .. Concurrency, bytes : 0 .. BodyBudget]
    /\ window \in [starts : 0 .. Oldest + 1, hits : 0 .. KeyRPM + 1]
    /\ request \in [Requests -> [at : Stages, client : Clients \cup {Nobody}, late : 0 .. MaxLate,
                                 length : Lengths \cup {-1}]]
    /\ let \in [Recent -> Nat]

(* An instant that was never set is older than any.                        *)
Init ==
    /\ global = [tokens |-> GlobalRPM * Minute, updated |-> Oldest, active |-> 0]
    /\ clients = [c \in Clients |-> NoBucket]
    /\ cleaned = Oldest
    /\ budget = [active |-> 0, bytes |-> 0]
    /\ window = [starts |-> Oldest + 1, hits |-> 0]
    /\ request = [r \in Requests |-> Away]
    /\ let = [age \in Recent |-> 0]

At(r, stage) == request[r].at = stage
Goes(r, stage) == request' = [request EXCEPT ![r].at = stage]

Arrive(r, c) ==
    /\ At(r, "away")
    /\ request' = [request EXCEPT ![r] = [Away EXCEPT !.at = "arriving", !.client = c]]
    /\ UNCHANGED <<guard, budget, window, let>>

-----------------------------------------------------------------------------
(* ingressGuard.acquire, under its mutex.                                  *)

(* The bucket as of late ticks ago, unless it was updated after that.      *)
Refill(b, rpm, late) ==
    IF b.updated > late
      THEN [b EXCEPT !.tokens = Min({rpm * Minute, @ + (b.updated - late) * rpm}),
                     !.updated = late]
      ELSE b

NewBucket(late) == [tokens |-> IPRPM * Minute, updated |-> late, active |-> 0]

Known(table) == {c \in Clients : table[c] # NoBucket}

(* A variant that must fail: who is not inside is forgotten at once.       *)
IdleOfLate(b, late) == b.active = 0

Idle(b, late) == b.active = 0 /\ b.updated >= Minute + late

(* A full table is cleaned for a new client, at most once a minute.        *)
Cleans(c, late) ==
    /\ clients[c] = NoBucket
    /\ Cardinality(Known(clients)) >= MaxClients
    /\ cleaned >= Minute + late

TableFor(c, late) ==
    IF Cleans(c, late)
      THEN [d \in Clients |-> IF d \in Known(clients) /\ Idle(clients[d], late)
                                THEN NoBucket ELSE clients[d]]
      ELSE clients

Take(b) == [b EXCEPT !.tokens = @ - Minute, !.active = @ + 1]

(* A refused request leaves the buckets refilled, but does not make one.   *)
Acquire(r) ==
    LET c == request[r].client
        late == request[r].late
        table == TableFor(c, late)
        known == table[c] # NoBucket
        room == known \/ Cardinality(Known(table)) < MaxClients
        own == Refill(IF known THEN table[c] ELSE NewBucket(late), IPRPM, late)
        all == Refill(global, GlobalRPM, late)
        admits == /\ room
                  /\ own.tokens >= Minute /\ all.tokens >= Minute
                  /\ own.active < IPConcurrency /\ all.active < Concurrency
    IN /\ At(r, "arriving")
       /\ cleaned' = IF Cleans(c, late) THEN late ELSE cleaned
       /\ \/ /\ admits
             /\ clients' = [table EXCEPT ![c] = Take(own)]
             /\ global' = Take(all)
             /\ request' = [request EXCEPT ![r].at = "entered", ![r].late = 0]
          \/ /\ ~ admits
             /\ clients' = IF known THEN [table EXCEPT ![c] = own] ELSE table
             /\ global' = IF room THEN all ELSE global
             /\ request' = [request EXCEPT ![r] = Away]
       /\ UNCHANGED <<budget, window, let>>

(* A bucket with a request inside is never cleaned away.                   *)
ReleaseIngress(r) ==
    /\ At(r, "leaving")
    /\ clients' = [clients EXCEPT ![request[r].client].active = @ - 1]
    /\ global' = [global EXCEPT !.active = @ - 1]
    /\ request' = [request EXCEPT ![r] = Away]
    /\ UNCHANGED <<cleaned, budget, window, let>>

-----------------------------------------------------------------------------
(* requestAdmission.acquire.  A body of unknown length may be as long as   *)
(* the limit, where reading it stops.                                      *)

(* A variant that must fail: what is not announced is not counted.         *)
CountedIfKnown(length) == IF length < 0 THEN 0 ELSE length

Counted(length) == IF length < 0 THEN BodyLimit ELSE length

BodyFits(length) ==
    /\ length <= BodyLimit
    /\ budget.active < Concurrency
    /\ budget.bytes + Counted(length) <= BodyBudget

TakeBody(r, length, stage) ==
    /\ BodyFits(length)
    /\ budget' = [active |-> budget.active + 1, bytes |-> budget.bytes + Counted(length)]
    /\ request' = [request EXCEPT ![r].at = stage, ![r].length = length]

ReleaseBody(r) ==
    budget' = [active |-> budget.active - 1, bytes |-> budget.bytes - Counted(request[r].length)]

AdmitBody(r, length) ==
    /\ At(r, "entered")
    /\ \/ TakeBody(r, length, "reading")
       \/ ~ BodyFits(length) /\ Goes(r, "leaving") /\ UNCHANGED budget
    /\ UNCHANGED <<guard, window, let>>

(* The request fails or is answered: what was deferred runs backwards.     *)
Leave(r) ==
    /\ At(r, "reading") \/ At(r, "answering")
    /\ ReleaseBody(r)
    /\ request' = [request EXCEPT ![r].at = "leaving", ![r].length = NoLength]
    /\ UNCHANGED <<guard, window, let>>

TestPolicy(r, length) ==
    /\ At(r, "away")
    /\ TakeBody(r, length, "testing")
    /\ UNCHANGED <<guard, window, let>>

EndTest(r) ==
    /\ At(r, "testing")
    /\ ReleaseBody(r)
    /\ request' = [request EXCEPT ![r] = Away]
    /\ UNCHANGED <<guard, window, let>>

-----------------------------------------------------------------------------
(* Store.Rate: one statement, whose NOW() is the instant it began.  Hits   *)
(* that were refused count too; beyond the first they make no difference.  *)

CountHit(r) ==
    /\ At(r, "reading")
    /\ Goes(r, "rating")
    /\ UNCHANGED <<guard, budget, window, let>>

Restarts(late) == window.starts > Minute + late

(* A variant that must fail: the window begins again, but at its old start. *)
StartKept(late) == window.starts

StartsAt(late) == IF Restarts(late) THEN late ELSE window.starts

Rate(r) ==
    LET late == request[r].late
        hits == IF Restarts(late) THEN 1 ELSE Min({window.hits + 1, KeyRPM + 1})
    IN /\ At(r, "rating")
       /\ window' = [starts |-> StartsAt(late), hits |-> hits]
       /\ let' = IF hits <= KeyRPM THEN [let EXCEPT ![0] = @ + 1] ELSE let
       /\ request' = [request EXCEPT ![r].at = "answering", ![r].late = 0]
       /\ UNCHANGED <<guard, budget>>

Waiting(r) == At(r, "arriving") \/ At(r, "rating")

Older(age, most) == Min({most, age + 1})

Tick ==
    /\ \A r \in Requests : Waiting(r) => request[r].late < MaxLate
    /\ global' = [global EXCEPT !.updated = Older(@, Oldest)]
    /\ clients' = [c \in Clients |-> IF clients[c] = NoBucket THEN NoBucket
                                     ELSE [clients[c] EXCEPT !.updated = Older(@, Oldest)]]
    /\ cleaned' = Older(cleaned, Oldest)
    /\ window' = [window EXCEPT !.starts = Older(@, Oldest + 1)]
    /\ request' = [r \in Requests |-> [request[r] EXCEPT !.late = IF Waiting(r) THEN @ + 1 ELSE @]]
    /\ let' = [age \in Recent |-> IF age = 0 THEN 0 ELSE let[age - 1]]
    /\ UNCHANGED budget

Next ==
    \/ \E r \in Requests :
        \/ \E c \in Clients : Arrive(r, c)
        \/ Acquire(r) \/ ReleaseIngress(r)
        \/ \E length \in Lengths : AdmitBody(r, length) \/ TestPolicy(r, length)
        \/ Leave(r) \/ EndTest(r)
        \/ CountHit(r) \/ Rate(r)
    \/ Tick

Spec == Init /\ [][Next]_vars

(* What the requests that are inside really hold stays within the limits,  *)
(* per address and over all, whatever refusal or end each of them met: the *)
(* counters of the guard, those in the buckets of the table, and those of  *)
(* requestAdmission are given back once, and a body of unknown length      *)
(* counts as the longest (ingressGuard, requestAdmission).                 *)
InsideOf(c) == {r \in Requests : request[r].at \in Inside /\ request[r].client = c}
Bodies == {r \in Requests : request[r].at \in WithBody}
Longest(r) == IF request[r].length = NoLength THEN BodyLimit ELSE request[r].length

WithinLimits ==
    /\ \A c \in Clients : Cardinality(InsideOf(c)) <= IPConcurrency
    /\ Cardinality({r \in Requests : request[r].at \in Inside}) <= Concurrency
    /\ Cardinality(Bodies) <= Concurrency
    /\ SumFunctionOnSet([r \in Bodies |-> Longest(r)], Bodies) <= BodyBudget

(* Only time gives an address allowance, and each request of its that is   *)
(* let in costs one token, although the table has room for MaxClients of   *)
(* them, forgets the others, and meets them again as new (ingressGuard,    *)
(* ingress.go:11-12).  The allowance is what a bucket that was updated     *)
(* late would have by now; the table has forgotten nothing by less than a  *)
(* whole minute, so who is forgotten gains no more than what the others    *)
(* may have been late by.                                                  *)
MostTokens == (Minute + MaxLate) * IPRPM

Allowance(c) ==
    IF clients[c] = NoBucket THEN MostTokens
    ELSE Min({MostTokens, clients[c].tokens + clients[c].updated * IPRPM})

LetIn(c) == Cardinality({r \in InsideOf(c)' : At(r, "arriving")})

ByForgetting(c) ==
    IF clients[c] # NoBucket /\ clients'[c] = NoBucket THEN MaxLate * IPRPM ELSE 0

AllowancePaid ==
    [][Tick \/ \A c \in Clients :
            Allowance(c)' + LetIn(c) * Minute <= Allowance(c) + ByForgetting(c)]_vars

(* The fixed window restarts with the first hit after its minute, and at   *)
(* the instant that hit's statement began: still, no two windows together  *)
(* let more than twice the limit through in a minute less what statements  *)
(* wait (Store.Rate).                                                      *)
RateWithin == SumFunctionOnSet(let, Recent) <= 2 * KeyRPM
=============================================================================
