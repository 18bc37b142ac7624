-------------------------- MODULE AuditRequestProofs --------------------------
(***************************************************************************)
(* A moderation request with any number of channels in any tiers, any      *)
(* limits of attempts and time, and any number of changes by               *)
(* administrators meanwhile.                                               *)
(***************************************************************************)
EXTENDS AuditRequest, Integers, WellFoundedInduction, TLAPS

(* A channel is chosen for each attempt, and never more of them than the   *)
(* request may make.                                                       *)
Attempting == Preparing \cup {"settle", "cacheReserve", "cacheSettle"}
Chosen ==
    /\ pc \in Attempting => cur \in Channels
    /\ pc \in Preparing => total < limit
    /\ pc = "arrived" => total = 0

(* The reservation of the attempt is the only one that is not settled,     *)
(* until a statement about it fails; then the request ends with an error.  *)
Settled ==
    /\ pc \in {"arrived", "prepare", "cache", "lookup", "select", "recheck", "credential", "reserve", "cacheReserve"}
          => pending = {}
    /\ pc \in {"calling", "settle", "cacheSettle"} => pending = {cur}
    /\ pc \in {"cost", "record"} /\ result = "verdict" => pending = {}

(* What was answered is what was recorded, or an error.                    *)
Answered ==
    IF pc \in {"deferred", "done"}
      THEN \/ recorded /\ record = answer /\ answer # "none" /\ (answer = "verdict" => pending = {})
           \/ ~recorded /\ answer = "error"
      ELSE answer = "none" /\ ~recorded /\ record = NoRow

(* What was stopped before the attempt was chosen is still stopped, and    *)
(* the recheck has seen it.                                                *)
StillStopped ==
    /\ \A c \in Channels : snap[c].revision <= row[c].revision
    /\ pc = "arrived" => before = {}
    /\ \A c \in before : ~PolicyOpen \/ EditedSince(c)
    /\ pc \in {"credential", "reserve", "calling", "cacheReserve", "cacheSettle"} => cur \notin before

(* What is not edited since the snapshot is as the snapshot, and the       *)
(* resources, have it; and so it was when it became a candidate.           *)
AsRead ==
    /\ \A c \in Channels : ~EditedSince(c) => row[c] = snap[c]
    /\ pc = "arrived" => cands = {}
    /\ \A c \in cands : snap[c].enabled /\ snap[c].active
    /\ pc # "prepare" => \A c \in cands : ~EditedSince(c) => held[c] = row[c].key

(* Nothing is used before the first attempt; then its channel is a         *)
(* candidate.  A tier has attempts or a deadline only by a channel that    *)
(* was used.                                                               *)
Tried ==
    /\ pc \in {"arrived", "prepare", "cache", "lookup", "cacheReserve", "cacheSettle"} => used = {}
    /\ pc \in Preparing => cur \in cands /\ cur \in used
    /\ \A p \in TierRange : progress.attempts[p] > 0 \/ progress.deadlines[p] # 0 => p \in Tiers(used)

(* Why the request has come back from the channel it used last.            *)
Back ==
    /\ pc \in Preparing /\ ~PolicyOpen => closed
    /\ pc = "select" /\ cur \in used => outcome # "none" \/ EditedSince(cur) \/ closed \/ now >= deadline

(* The tiers that were passed over have had their turn, and an heir.       *)
Inherited ==
    \A p \in progress.skipped : p \in Tiers(used) /\ heir[p] \in used /\ Tier[heir[p]] > p

(* The deadline of a tier is set when it is first chosen with a backup.    *)
Timed ==
    \A p \in TierRange :
        IF progress.deadlines[p] = 0 THEN began[p] = TotalTimeout
        ELSE progress.deadlines[p] <= began[p] + PriorityTimeout /\ began[p] <= now

Tiered == Tried /\ Inherited /\ Timed /\ BackupInTime

IInv == TypeOK /\ Chosen /\ Settled /\ Answered /\ StillStopped /\ AsRead /\ Back /\ Tiered

-----------------------------------------------------------------------------
(* The reservations of the request: every step keeps account of them.      *)
LEMMA SettledKept ==
  ASSUME Settled, [Next]_vars
  PROVE  Settled'
<1> USE DEF Settled
<1>1. CASE Environment
  BY <1>1 DEF Environment, EditChannel, EditPolicy, Tick, ClientGone, route, tail
<1>2. CASE Prepare
  BY <1>2 DEF Prepare, Reject, RouteSnapshot, KeywordRule, Unprepared, RouteResources, Go, End, tail, route
<1>3. CASE Cached
  BY <1>3 DEF Cached, ReadCache, Lookup, LookupFails, Miss, SettleCached, Go, End, tail, route
<1>4. CASE Route
  BY <1>4 DEF Route, Select, NothingToCall, GiveUp, Recheck, ReadCredential, CredentialMisbound, PreparationFails,
              Reserve, ReserveFails, Assess, Settle, SettleFails, Attempt, Go, End, tail, route
<1>5. CASE Finish
  BY <1>5 DEF Finish, RequestCost, Record, RecordFails, Deferred, AfterRecord, Go, route
<1>6. CASE UNCHANGED vars
  BY <1>6 DEF vars, route, tail
<1> QED
  BY <1>1, <1>2, <1>3, <1>4, <1>5, <1>6 DEF Next, Done

(* The answer and the record.                                              *)
LEMMA AnsweredKept ==
  ASSUME TypeOK, Settled, Answered, [Next]_vars
  PROVE  Answered'
<1> USE DEF Answered
<1>1. CASE Environment
  BY <1>1 DEF Environment, EditChannel, EditPolicy, Tick, ClientGone, tail
<1>2. CASE Prepare
  BY <1>2 DEF Prepare, Reject, RouteSnapshot, KeywordRule, Unprepared, RouteResources, Go, End, tail, route
<1>3. CASE Cached
  BY <1>3 DEF Cached, ReadCache, Lookup, LookupFails, Miss, SettleCached, Go, End, tail, route
<1>4. CASE Route
  <2>1. pc \notin {"deferred", "done"} /\ pc' \notin {"deferred", "done"} /\ UNCHANGED <<answer, recorded, record>>
    <3>1. CASE \E eligible \in SUBSET (cands \ used) : Select(eligible) \/ NothingToCall(eligible)
      BY <3>1 DEF Select, NothingToCall, Go, End, tail
    <3>2. CASE GiveUp \/ Recheck \/ ReadCredential \/ CredentialMisbound \/ PreparationFails
      BY <3>2 DEF GiveUp, Recheck, ReadCredential, CredentialMisbound, PreparationFails, Attempt, Go, End, tail
    <3>3. CASE Reserve \/ ReserveFails \/ Assess \/ Settle \/ SettleFails
      BY <3>3 DEF Reserve, ReserveFails, Assess, Settle, SettleFails, Attempt, Go, End, tail
    <3> QED
      BY <1>4, <3>1, <3>2, <3>3 DEF Route
  <2> QED
    BY <2>1
<1>5. CASE Finish
  <2>1. result \in {"verdict", "error"} /\ NoRow \notin {"verdict", "error"}
    BY RequestAssumption DEF TypeOK
  <2> QED
    BY <1>5, <2>1 DEF Finish, RequestCost, Record, RecordFails, RecordUnavailable, Deferred, AfterRecord, Go, route, Settled
<1>6. CASE UNCHANGED vars
  BY <1>6 DEF vars, route, tail
<1> QED
  BY <1>1, <1>2, <1>3, <1>4, <1>5, <1>6 DEF Next, Done

(* The channel of the attempt, and how many there were.                    *)
LEMMA ChosenKept ==
  ASSUME TypeOK, Chosen, [Next]_vars
  PROVE  Chosen'
<1> USE DEF Chosen, Attempting, Preparing
<1>1. CASE Environment
  BY <1>1 DEF Environment, EditChannel, EditPolicy, Tick, ClientGone, route
<1>2. CASE Prepare
  BY <1>2 DEF Prepare, Reject, RouteSnapshot, KeywordRule, Unprepared, RouteResources, Go, End, tail, route
<1>3. CASE Cached
  <2>1. hits \subseteq Channels
    BY DEF TypeOK
  <2> QED
    BY <1>3, <2>1 DEF Cached, ReadCache, Lookup, LookupFails, Miss, SettleCached, Go, End, tail, route
<1>4. CASE Route
  <2>1. cands \subseteq Channels
    BY DEF TypeOK
  <2> QED
    BY <1>4, <2>1 DEF Route, Select, NothingToCall, GiveUp, Recheck, ReadCredential, CredentialMisbound, PreparationFails,
              Reserve, ReserveFails, Assess, Settle, SettleFails, Attempt, Go, End, tail, route
<1>5. CASE Finish
  BY <1>5 DEF Finish, RequestCost, Record, RecordFails, Deferred, AfterRecord, Go, route
<1>6. CASE UNCHANGED vars
  BY <1>6 DEF vars, route, tail
<1> QED
  BY <1>1, <1>2, <1>3, <1>4, <1>5, <1>6 DEF Next, Done

-----------------------------------------------------------------------------
(* What is smallest and greatest in a set of tiers, or of two instants.    *)
LEMMA LeastIn ==
  ASSUME NEW S, S \subseteq Nat, S # {}
  PROVE  \E x \in S : \A y \in S : x <= y
<1> DEFINE R == OpToRel(<, Nat)
<1>1. IsWellFoundedOn(R, Nat)
  BY NatLessThanWellFounded
<1>2. \A a, b \in Nat : a < b => <<a, b>> \in R
  BY DEF OpToRel
<1> HIDE DEF R
<1>3. PICK x \in S : \A y \in S : ~ (<<y, x>> \in R)
  BY <1>1, WFMin
<1>4. \A y \in S : ~ (y < x)
  BY <1>2, <1>3
<1>5. \A y \in S : x <= y
  BY <1>4
<1> QED
  BY <1>5

LEMMA MinIn ==
  ASSUME NEW S, S \subseteq Nat, S # {}
  PROVE  Min(S) \in S /\ \A y \in S : Min(S) <= y
<1> PICK x \in S : \A y \in S : x <= y
  BY LeastIn
<1> QED
  BY DEF Min

LEMMA GreatestIn ==
  ASSUME NEW k \in Nat, NEW S, S \subseteq 0 .. k, S # {}
  PROVE  \E x \in S : \A y \in S : y <= x
<1> DEFINE T == {n \in Nat : \E x \in S : n = k - x}
<1>1. T \subseteq Nat /\ T # {}
  <2> PICK x \in S : TRUE
    OBVIOUS
  <2>1. k - x \in T
    OBVIOUS
  <2> QED
    BY <2>1
<1>2. PICK n \in T : \A m \in T : n <= m
  <2> HIDE DEF T
  <2> QED
    BY <1>1, LeastIn
<1>3. PICK x \in S : n = k - x
  OBVIOUS
<1>4. \A y \in S : y <= x
  <2> TAKE y \in S
  <2>1. k - y \in T
    OBVIOUS
  <2>2. n <= k - y
    BY <1>2, <2>1
  <2> QED
    BY <1>3, <2>2
<1> QED
  BY <1>4

(* The tiers are few natural numbers.                                      *)
LEMMA TierType ==
  /\ \A c \in Channels : Tier[c] \in 1 .. 100 /\ Tier[c] \in TierRange
  /\ TierRange \subseteq 1 .. 100
  /\ \A S \in SUBSET Channels : Tiers(S) \subseteq TierRange
BY RequestAssumption DEF Tiers, TierRange

(* What is left of the time is more than half of it.                       *)
LEMMA HalfIsLess ==
  ASSUME TypeOK, ~Over
  PROVE  HalfLeft \in 0 .. TotalTimeout /\ HalfLeft < TotalTimeout
<1>1. now \in Nat /\ TotalTimeout \in Nat /\ now < TotalTimeout
  BY RequestAssumption DEF TypeOK, Over
<1> DEFINE left == TotalTimeout - now
<1>2. left \in Nat /\ left > 0
  BY <1>1
<1>3. left \div 2 \in Nat /\ left \div 2 < left
  BY <1>2
<1> QED
  BY <1>1, <1>3 DEF HalfLeft

LEMMA TierDeadlineType ==
  ASSUME TypeOK, ~Over, NEW p \in TierRange
  PROVE  TierDeadline(p) \in 0 .. TotalTimeout
<1>1. HalfLeft \in 0 .. TotalTimeout /\ HalfLeft < TotalTimeout
  BY HalfIsLess
<1>2. progress.deadlines[p] \in 0 .. TotalTimeout
  BY DEF TypeOK
<1>3. now + PriorityTimeout \in Nat
  BY RequestAssumption DEF TypeOK
<1> DEFINE S == {now + PriorityTimeout, HalfLeft}
<1>4. S \subseteq Nat /\ S # {} /\ HalfLeft \in S
  BY <1>1, <1>3
<1> HIDE DEF S
<1>5. Min(S) \in Nat /\ Min(S) <= HalfLeft
  BY <1>4, MinIn
<1>6. Min(S) \in 0 .. TotalTimeout
  BY <1>1, <1>5, RequestAssumption
<1> QED
  BY <1>2, <1>6 DEF TierDeadline, S

(* The deadline of a call; one that has a backup ends before the request.  *)
LEMMA CallDeadlineType ==
  ASSUME TypeOK, ~Over, NEW p \in TierRange, NEW eligible
  PROVE  /\ CallDeadline(p, eligible) \in 0 .. TotalTimeout
         /\ Remaining > 1 /\ HasLower(p, eligible) => CallDeadline(p, eligible) < TotalTimeout
<1>1. HalfLeft \in 0 .. TotalTimeout /\ HalfLeft < TotalTimeout
  BY HalfIsLess
<1>2. TierDeadline(p) \in 0 .. TotalTimeout
  BY TierDeadlineType
<1> DEFINE S == {TierDeadline(p), HalfLeft}
<1>3. S \subseteq Nat /\ S # {} /\ HalfLeft \in S
  BY <1>1, <1>2
<1> HIDE DEF S
<1>4. Min(S) \in Nat /\ Min(S) <= HalfLeft
  BY <1>3, MinIn
<1>5. Min(S) \in 0 .. TotalTimeout /\ Min(S) < TotalTimeout
  BY <1>1, <1>4, RequestAssumption
<1>6. TotalTimeout \in 0 .. TotalTimeout
  BY RequestAssumption
<1>7. CASE Remaining <= 1
  <2>1. Remaining \in Int
    BY DEF TypeOK, Remaining
  <2>2. ~ (Remaining > 1)
    BY <1>7, <2>1
  <2> QED
    BY <1>6, <1>7, <2>2 DEF CallDeadline
<1>8. CASE ~ (Remaining <= 1) /\ HasLower(p, eligible)
  BY <1>5, <1>8 DEF CallDeadline, S
<1>9. CASE ~ (Remaining <= 1) /\ ~HasLower(p, eligible)
  BY <1>1, <1>6, <1>9 DEF CallDeadline
<1> QED
  BY <1>7, <1>8, <1>9

-----------------------------------------------------------------------------
(* The steps that change what has a structure: the channels, and the       *)
(* progress of the route.                                                  *)
LEMMA EditMakes ==
  ASSUME NEW x \in Row, NEW y \in Edited(x)
  PROVE  y \in Row /\ y.revision = x.revision + 1
<1>1. PICK z \in {x, [x EXCEPT !.enabled = ~@], [x EXCEPT !.active = ~@], [x EXCEPT !.key = @ + 1], [x EXCEPT !.url = @ + 1]} :
        y = [z EXCEPT !.revision = x.revision + 1]
  BY DEF Edited
<1> DEFINE enabled == ~x.enabled
           active == ~x.active
<1>2. enabled \in BOOLEAN /\ active \in BOOLEAN /\ x.key + 1 \in Nat /\ x.url + 1 \in Nat
  BY DEF Row
<1>3. z \in {x, [x EXCEPT !.enabled = enabled], [x EXCEPT !.active = active], [x EXCEPT !.key = x.key + 1],
            [x EXCEPT !.url = x.url + 1]}
  BY <1>1
<1> HIDE DEF enabled, active
<1>4. z \in Row
  BY <1>2, <1>3 DEF Row
<1>5. x.revision + 1 \in Nat
  BY DEF Row
<1> QED
  BY <1>1, <1>4, <1>5 DEF Row

LEMMA EditChanges ==
  ASSUME TypeOK, NEW c \in Channels, EditChannel(c)
  PROVE  /\ row' \in [Channels -> Row]
         /\ \A d \in Channels : row'[d] = row[d] \/ row'[d].revision = row[d].revision + 1
<1>1. PICK y \in Edited(row[c]) : row' = [row EXCEPT ![c] = y]
  BY DEF EditChannel
<1>2. row[c] \in Row /\ row \in [Channels -> Row]
  BY DEF TypeOK
<1>3. y \in Row /\ y.revision = row[c].revision + 1
  BY <1>2, EditMakes
<1> QED
  BY <1>1, <1>2, <1>3

Progress == [attempts : [TierRange -> Nat], deadlines : [TierRange -> 0 .. TotalTimeout], skipped : SUBSET TierRange]

LEMMA SkipsTiers ==
  ASSUME NEW eligible \in SUBSET Channels
  PROVE  SkippedNow(eligible) \in SUBSET TierRange
BY TierType DEF SkippedNow, Asked

LEMMA MinOfTwo ==
  ASSUME NEW a \in Nat, NEW b \in Nat
  PROVE  Min({a, b}) = IF a <= b THEN a ELSE b
<1>1. {a, b} \subseteq Nat /\ {a, b} # {}
  OBVIOUS
<1>2. Min({a, b}) \in {a, b} /\ Min({a, b}) <= a /\ Min({a, b}) <= b
  BY <1>1, MinIn
<1> QED
  BY <1>2

(* The lowest tier that is asked has no lower one to give way to.          *)
LEMMA LastServes ==
  ASSUME NEW eligible \in SUBSET Channels, Serving(eligible) = {}
  PROVE  SkippedNow(eligible) = {}
<1> DEFINE L == Asked(eligible)
<1>1. L \subseteq 0 .. 100
  <2>1. Tiers(eligible) \subseteq 1 .. 100
    BY TierType
  <2> QED
    BY <2>1 DEF Asked
<1>2. SUFFICES ASSUME L # {} PROVE FALSE
  BY DEF SkippedNow
<1>3. PICK q \in L : \A other \in L : other <= q
  <2> HIDE DEF L
  <2> QED
    BY <1>1, <1>2, GreatestIn
<1>4. ASSUME NEW c \in eligible, Tier[c] \notin progress.skipped PROVE ~ (Tier[c] > q)
  <2>1. Tier[c] \in L
    BY <1>4 DEF Asked, Tiers
  <2> QED
    BY <1>1, <1>3, <2>1
<1>5. ~HasLower(q, eligible)
  BY <1>4 DEF HasLower
<1> QED
  BY <1>3, <1>5 DEF Serving, GivesWay

(* What selectTier and acquireRoute make of the progress.                  *)
LEMMA SelectServes ==
  ASSUME TypeOK, NEW eligible \in SUBSET Channels, Select(eligible)
  PROVE  /\ Tier[cur'] \in Serving(eligible) /\ \A q \in Serving(eligible) : Tier[cur'] <= q
         /\ cur' \in eligible /\ Tier[cur'] \in TierRange
         /\ deadline' = CallDeadline(Tier[cur'], eligible)
         /\ progress' = [progress EXCEPT !.skipped = @ \cup SkippedNow(eligible),
                                         !.deadlines = DeadlinesWith(Tier[cur'], eligible)]
         /\ backup' = (Remaining > 1 /\ HasLower(Tier[cur'], eligible))
         /\ began' = [began EXCEPT ![Tier[cur']] = IF backup' THEN Min({@, now}) ELSE @]
<1>1. PICK p : p = Min(Serving(eligible))
  OBVIOUS
<1>2. p \in Serving(eligible) /\ (\A q \in Serving(eligible) : p <= q) /\ p \in TierRange
  <2>1. Serving(eligible) \subseteq TierRange /\ Serving(eligible) # {} /\ Serving(eligible) \subseteq Nat
    BY TierType DEF Serving, Asked, Select
  <2> QED
    BY <1>1, <2>1, MinIn
<1>3. cur' \in eligible /\ Tier[cur'] = p
  BY <1>1 DEF Select
<1> QED
  BY <1>1, <1>2, <1>3 DEF Select, HasLower

LEMMA SelectProgresses ==
  ASSUME TypeOK, NEW eligible \in SUBSET Channels, Select(eligible)
  PROVE  /\ progress' \in Progress
         /\ progress'.attempts = progress.attempts
         /\ progress'.skipped = progress.skipped \cup SkippedNow(eligible)
         /\ progress'.deadlines = DeadlinesWith(Tier[cur'], eligible)
<1>1. PICK p : p = Tier[cur'] /\ p \in TierRange
  BY SelectServes
<1> DEFINE skipped == progress.skipped \cup SkippedNow(eligible)
           until == DeadlinesWith(p, eligible)
<1>2. until \in [TierRange -> 0 .. TotalTimeout] /\ skipped \in SUBSET TierRange
  <2>1. ~Over
    BY DEF Select
  <2>2. TierDeadline(p) \in 0 .. TotalTimeout
    BY <1>1, <2>1, TierDeadlineType
  <2> QED
    BY <2>2, SkipsTiers DEF TypeOK, DeadlinesWith
<1>3. progress' = [progress EXCEPT !.skipped = skipped, !.deadlines = until]
  BY <1>1, SelectServes
<1>4. progress \in Progress
  BY DEF TypeOK, Progress
<1> HIDE DEF until, skipped
<1>5. progress' \in Progress /\ progress'.attempts = progress.attempts /\ progress'.skipped = skipped
      /\ progress'.deadlines = until
  BY <1>2, <1>3, <1>4 DEF Progress
<1> QED
  BY <1>1, <1>5 DEF until, skipped

LEMMA SelectTyped ==
  ASSUME TypeOK, NEW eligible \in SUBSET (cands \ used), Select(eligible)
  PROVE  /\ deadline' \in 0 .. TotalTimeout /\ cur' \in Channels /\ backup' \in BOOLEAN
         /\ began' \in [TierRange -> 0 .. TotalTimeout]
         /\ heir' \in [TierRange -> Channels \cup {NoChannel}]
<1>1. eligible \subseteq Channels /\ ~Over
  BY DEF TypeOK, Select
<1>2. PICK p : p = Tier[cur'] /\ p \in TierRange
  BY <1>1, SelectServes
<1>3. deadline' \in 0 .. TotalTimeout
  <2>1. CallDeadline(p, eligible) \in 0 .. TotalTimeout
    BY <1>1, <1>2, CallDeadlineType
  <2>2. deadline' = CallDeadline(p, eligible)
    BY <1>1, <1>2, SelectServes
  <2> QED
    BY <2>1, <2>2
<1>4. cur' \in Channels /\ backup' \in BOOLEAN
  BY <1>1, SelectServes
<1>5. began \in [TierRange -> 0 .. TotalTimeout] /\ began[p] \in 0 .. TotalTimeout /\ now \in 0 .. TotalTimeout
  BY <1>2 DEF TypeOK
<1>6. Min({began[p], now}) \in 0 .. TotalTimeout
  BY <1>5, MinOfTwo, RequestAssumption
<1>7. began' = [began EXCEPT ![p] = IF backup' THEN Min({began[p], now}) ELSE began[p]]
  BY <1>1, <1>2, SelectServes
<1>8. began' \in [TierRange -> 0 .. TotalTimeout]
  BY <1>4, <1>5, <1>6, <1>7
<1>9. heir' \in [TierRange -> Channels \cup {NoChannel}]
  <2>1. heir' = [q \in TierRange |-> IF q \in progress'.skipped \ progress.skipped THEN cur' ELSE heir[q]]
    BY DEF Select
  <2> QED
    BY <1>4, <2>1 DEF TypeOK
<1> QED
  BY <1>3, <1>4, <1>8, <1>9

LEMMA NothingProgresses ==
  ASSUME TypeOK, NEW eligible \in SUBSET Channels, NothingToCall(eligible)
  PROVE  progress' = progress
<1>1. SkippedNow(eligible) = {}
  BY LastServes DEF NothingToCall
<1>2. progress' = [progress EXCEPT !.skipped = progress.skipped \cup {}]
  BY <1>1 DEF NothingToCall
<1>3. progress.skipped \cup {} = progress.skipped /\ progress \in Progress
  BY DEF TypeOK, Progress
<1>4. [progress EXCEPT !.skipped = progress.skipped] = progress
  BY <1>3 DEF Progress
<1> QED
  BY <1>2, <1>3, <1>4

LEMMA AssessProgresses ==
  ASSUME TypeOK, Chosen, Assess
  PROVE  /\ progress' \in Progress
         /\ progress'.skipped = progress.skipped /\ progress'.deadlines = progress.deadlines
         /\ \A p \in TierRange : p # Tier[cur] => progress'.attempts[p] = progress.attempts[p]
         /\ outcome' \in {"verdict", "retryable", "fatal"} /\ total' \in 0 .. limit
<1>1. PICK o \in {"verdict", "retryable", "fatal"}, sent \in BOOLEAN :
          /\ outcome' = IF Over THEN "fatal" ELSE o
          /\ total' = IF sent THEN total + 1 ELSE total
          /\ progress' = IF sent THEN [progress EXCEPT !.attempts[Tier[cur]] = @ + 1] ELSE progress
  BY DEF Assess
<1>2. Tier[cur] \in TierRange /\ total < limit /\ limit \in Nat /\ total \in Nat
  BY TierType, RequestAssumption DEF Assess, Chosen, Attempting, Preparing, TypeOK
<1>3. progress \in Progress
  BY DEF TypeOK, Progress
<1>4. /\ progress' \in Progress
      /\ progress'.skipped = progress.skipped /\ progress'.deadlines = progress.deadlines
      /\ \A p \in TierRange : p # Tier[cur] => progress'.attempts[p] = progress.attempts[p]
  BY <1>1, <1>2, <1>3 DEF Progress
<1> QED
  BY <1>1, <1>2, <1>4

-----------------------------------------------------------------------------
(* Types, a group of variables at a time.                                  *)
TypeDb ==
    /\ row \in [Channels -> Row] /\ policy \in {"enabled", "disabled", "archived"} /\ kind \in {"production", "test"}
    /\ changes \in 0 .. MaxChanges /\ edits \in 0 .. MaxEdits
TypeClock == pc \in Labels /\ now \in 0 .. TotalTimeout
TypeSnap == snap \in [Channels -> Row] /\ held \in [Channels -> Nat]
TypeSets == cands \subseteq Channels /\ used \subseteq Channels /\ hits \subseteq Channels
TypeHistory ==
    /\ before \subseteq Channels /\ backup \in BOOLEAN /\ closed \in BOOLEAN
    /\ began \in [TierRange -> 0 .. TotalTimeout] /\ heir \in [TierRange -> Channels \cup {NoChannel}]
TypeAttempt ==
    /\ limit \in 1 .. MaxAttempts /\ total \in 0 .. limit /\ progress \in Progress
    /\ cur \in Channels \cup {NoChannel} /\ deadline \in 0 .. TotalTimeout
TypeTail ==
    /\ outcome \in {"none", "verdict", "retryable", "fatal"} /\ pending \subseteq Channels
    /\ result \in {"verdict", "error"} /\ answer \in {"none", "verdict", "error"}
    /\ record \in {"verdict", "error", NoRow} /\ recorded \in BOOLEAN

LEMMA TypeParts ==
  TypeOK <=> TypeDb /\ TypeClock /\ TypeSnap /\ TypeSets /\ TypeHistory /\ TypeAttempt /\ TypeTail
BY DEF TypeOK, TypeDb, TypeClock, TypeSnap, TypeSets, TypeHistory, TypeAttempt, TypeTail, Progress

LEMMA TypePartsNext ==
  (TypeOK <=> TypeDb /\ TypeClock /\ TypeSnap /\ TypeSets /\ TypeHistory /\ TypeAttempt /\ TypeTail)'
BY TypeParts, PTL

LEMMA EnvironmentTyped ==
  ASSUME TypeOK, Environment
  PROVE  TypeOK'
<1>1. TypeDb /\ TypeClock /\ TypeSnap /\ TypeSets /\ TypeHistory /\ TypeAttempt /\ TypeTail
  BY TypeParts
<1>2. TypeDb'
  <2>1. ASSUME NEW c \in Channels, EditChannel(c) PROVE TypeDb'
    BY <1>1, <2>1, EditChanges, RequestAssumption DEF EditChannel, TypeDb
  <2>2. ASSUME EditPolicy PROVE TypeDb'
    BY <1>1, <2>2, RequestAssumption DEF EditPolicy, TypeDb
  <2>3. ASSUME Tick \/ ClientGone PROVE TypeDb'
    BY <1>1, <2>3 DEF Tick, ClientGone, TypeDb, db
  <2> QED
    BY <2>1, <2>2, <2>3, RequestAssumption DEF Environment
<1>3. TypeClock'
  BY <1>1, RequestAssumption DEF Environment, EditChannel, EditPolicy, Tick, ClientGone, TypeClock
<1>4. TypeHistory'
  <2>1. CASE EditPolicy
    BY <1>1, <2>1 DEF EditPolicy, TypeHistory, tiers
  <2>2. CASE (\E c \in Editable : EditChannel(c)) \/ Tick \/ ClientGone
    BY <1>1, <2>2 DEF EditChannel, Tick, ClientGone, TypeHistory, route, tiers
  <2> QED
    BY <2>1, <2>2 DEF Environment
<1>5. TypeSnap' /\ TypeSets' /\ TypeAttempt' /\ TypeTail'
  <2>1. /\ UNCHANGED <<snap, held, cands, used, hits, limit, total, progress, cur, deadline>>
        /\ UNCHANGED <<outcome, pending, result, answer, recorded, record>>
    BY DEF Environment, EditChannel, EditPolicy, Tick, ClientGone, route, tail
  <2> QED
    BY <1>1, <2>1 DEF TypeSnap, TypeSets, TypeAttempt, TypeTail
<1> QED
  BY <1>2, <1>3, <1>4, <1>5, TypePartsNext

(* The end of the route.                                                   *)
LEMMA EndTyped ==
  ASSUME TypeOK, NEW r \in {"verdict", "error"}, End(r), pending' \subseteq Channels
  PROVE  TypeOK' /\ UNCHANGED <<db, kind, now>>
<1>1. TypeDb /\ TypeClock /\ TypeSnap /\ TypeSets /\ TypeHistory /\ TypeAttempt /\ TypeTail
  BY TypeParts
<1>2. TypeDb' /\ TypeClock' /\ UNCHANGED <<db, kind, now>>
  BY <1>1 DEF End, Go, TypeDb, TypeClock, db, Labels
<1>3. TypeSnap' /\ TypeSets' /\ TypeTail'
  BY <1>1 DEF End, TypeSnap, TypeSets, TypeTail
<1>4. 0 \in 0 .. TotalTimeout /\ TotalTimeout \in 0 .. TotalTimeout /\ MaxAttempts \in 1 .. MaxAttempts
      /\ 0 \in 0 .. MaxAttempts
  BY RequestAssumption
<1>5. NoProgress \in Progress
  BY <1>4 DEF NoProgress, Progress
<1>6. TypeAttempt'
  BY <1>4, <1>5 DEF End, TypeAttempt
<1>7. TypeHistory'
  BY <1>4 DEF End, TypeHistory, Never, NoHeir
<1> QED
  BY <1>2, <1>3, <1>6, <1>7, TypePartsNext

(* The steps, by what they do to the route: they end it, leave it as it    *)
(* is, or are one of a few that change it.                                 *)
Early == {"arrived", "prepare", "cache", "lookup", "cacheReserve", "cacheSettle"}
Turns ==
    /\ pc # "prepare" /\ pc' \notin {"arrived", "prepare"}
    /\ pc' \in Preparing => pc \in Preparing
    /\ pc' \in Early => pc \in Early
    /\ pc' = "select" =>
          \/ pc = "lookup" \/ outcome # "none" \/ now >= deadline
          \/ pc \in Preparing /\ ~ (Callable(cur) /\ row[cur].key = held[cur])
Ends == (\E r \in {"verdict", "error"} : End(r)) /\ pending' \subseteq Channels
Keeps == UNCHANGED <<route, outcome>> /\ TypeTail' /\ Turns /\ \E label \in Labels : Go(label)
Chooses == \E eligible \in SUBSET (cands \ used) : Select(eligible) \/ NothingToCall(eligible)

LEMMA StepCases ==
  ASSUME TypeOK, Chosen, Prepare \/ Cached \/ Route \/ Finish
  PROVE  \/ Ends \/ Keeps \/ Chooses \/ Assess \/ RouteSnapshot \/ RouteResources \/ Lookup
         \/ (ReadCache /\ pc' = "lookup")
<1>1. TypeTail /\ pending \subseteq Channels
  BY TypeParts DEF TypeTail
<1>2. pc \in {"reserve", "cacheReserve"} => cur \in Channels
  BY DEF Chosen, Attempting, Preparing
<1>3. \A r \in {"verdict", "error"} : End(r) /\ UNCHANGED pending => Ends
  BY <1>1 DEF Ends
<1>4. CASE Prepare
  <2>1. Reject => Keeps
    BY <1>1 DEF Reject, Keeps, Turns, Go, Preparing, Early, TypeTail, Labels
  <2> QED
    BY <1>3, <1>4, <2>1 DEF Prepare, KeywordRule, Unprepared
<1>5. CASE Cached
  <2>1. Miss => Keeps
    BY <1>1 DEF Miss, Keeps, Turns, Go, Preparing, Early, TypeTail, Labels, tail
  <2>2. SettleCached => Ends
    BY <1>1 DEF SettleCached, Ends
  <2>3. ReadCache => Ends \/ (ReadCache /\ pc' = "lookup")
    BY <1>3 DEF ReadCache, Go
  <2> QED
    BY <1>3, <1>5, <2>1, <2>2, <2>3 DEF Cached, LookupFails
<1>6. CASE Route
  <2>1. \A label \in Labels : Attempt(label) /\ pending' \subseteq Channels /\ Turns => Keeps
    BY <1>1 DEF Attempt, Keeps, TypeTail, tail
  <2>2. GiveUp => Ends
    BY <1>3 DEF GiveUp
  <2>3. Recheck \/ ReadCredential => Keeps
    <3>1. Recheck \/ ReadCredential => Turns
      BY DEF Recheck, ReadCredential, Attempt, Go, Turns, Callable, Preparing, Early
    <3> QED
      BY <1>1, <2>1, <3>1 DEF Recheck, ReadCredential, Labels
  <2>4. PreparationFails \/ CredentialMisbound => Keeps \/ Ends
    <3>1. (PreparationFails \/ CredentialMisbound) /\ PreparationExpired => Turns
      BY DEF PreparationFails, CredentialMisbound, PreparationExpired, Attempt, Go, Turns, Preparing, Early
    <3> QED
      BY <1>1, <1>3, <2>1, <3>1 DEF PreparationFails, CredentialMisbound, Labels
  <2>5. Reserve => Keeps
    <3>1. Reserve => Turns
      BY DEF Reserve, Attempt, Go, Turns, Preparing, Early
    <3> QED
      BY <1>1, <1>2, <2>1, <3>1 DEF Reserve, Labels
  <2>6. ReserveFails => Ends
    BY <1>1, <1>2 DEF ReserveFails, Ends
  <2>7. Settle => Keeps \/ Ends
    <3>1. Settle /\ outcome = "retryable" => Turns
      BY DEF Settle, Attempt, Go, Turns, Preparing, Early
    <3> QED
      BY <1>1, <2>1, <3>1 DEF Settle, Ends, Labels
  <2>8. SettleFails => Ends
    BY <1>1 DEF SettleFails, Ends
  <2> QED
    BY <1>6, <2>2, <2>3, <2>4, <2>5, <2>6, <2>7, <2>8 DEF Route, Chooses
<1>7. CASE Finish
  <2>1. Turns
    BY <1>7 DEF Finish, RequestCost, Record, RecordFails, Deferred, AfterRecord, Go, Turns, Preparing, Early
  <2>2. Keeps
    BY <1>1, <1>7, <2>1 DEF Finish, RequestCost, Record, RecordFails, RecordUnavailable, Deferred, AfterRecord, Keeps, TypeTail, Labels
  <2> QED
    BY <2>2
<1> QED
  BY <1>4, <1>5, <1>6, <1>7

(* Every step of the request leaves the database and the clock alone.      *)
LEMMA StepTyped ==
  ASSUME TypeOK, Chosen, Prepare \/ Cached \/ Route \/ Finish
  PROVE  TypeOK' /\ UNCHANGED <<db, kind, now>>
<1>1. TypeDb /\ TypeClock /\ TypeSnap /\ TypeSets /\ TypeHistory /\ TypeAttempt /\ TypeTail
  BY TypeParts
<1>2. ASSUME NEW label \in Labels, Go(label) PROVE TypeDb' /\ TypeClock' /\ UNCHANGED <<db, kind, now>>
  BY <1>1, <1>2 DEF Go, TypeDb, TypeClock, db
<1>3. Stopped \subseteq Channels
  BY DEF Stopped
<1>4. CASE Ends
  BY <1>4, EndTyped DEF Ends
<1>5. CASE Keeps
  <2>1. TypeSnap' /\ TypeSets' /\ TypeHistory' /\ TypeAttempt'
    BY <1>1, <1>5 DEF Keeps, route, tiers, TypeSnap, TypeSets, TypeHistory, TypeAttempt
  <2> QED
    BY <1>2, <1>5, <2>1, TypePartsNext DEF Keeps
<1>6. CASE RouteSnapshot
  <2>1. limit' \in 1 .. MaxAttempts /\ total' \in 0 .. limit'
    BY <1>6, RequestAssumption DEF RouteSnapshot, Chosen
  <2>2. TypeSnap' /\ TypeSets' /\ TypeHistory' /\ TypeAttempt' /\ TypeTail'
    BY <1>1, <1>6, <2>1 DEF RouteSnapshot, TypeSnap, TypeSets, TypeHistory, TypeAttempt, TypeDb, TypeTail, tail, tiers
  <2>3. Go("prepare")
    BY <1>6 DEF RouteSnapshot
  <2> QED
    BY <1>2, <2>2, <2>3, TypePartsNext DEF Labels
<1>7. CASE RouteResources
  <2>1. \A c \in Channels : row[c].key \in Nat
    BY <1>1 DEF TypeDb, Row
  <2>2. TypeSnap' /\ TypeSets' /\ TypeHistory' /\ TypeAttempt' /\ TypeTail'
    BY <1>1, <1>7, <2>1 DEF RouteResources, TypeSnap, TypeSets, TypeHistory, TypeAttempt, TypeTail, tail, tiers
  <2>3. Go("select") \/ Go("cache")
    BY <1>7 DEF RouteResources
  <2> QED
    BY <1>2, <2>2, <2>3, TypePartsNext DEF Labels
<1>8. CASE ReadCache /\ pc' = "lookup"
  <2>1. /\ Go("lookup") /\ hits' \in SUBSET cands /\ before' = Stopped
        /\ UNCHANGED <<snap, held, cands, used, limit, progress, total, cur, deadline, closed, tiers, outcome, tail, pending>>
    BY <1>8 DEF ReadCache, End, Go
  <2>2. TypeSnap' /\ TypeSets' /\ TypeHistory' /\ TypeAttempt' /\ TypeTail'
    BY <1>1, <1>3, <2>1 DEF TypeSnap, TypeSets, TypeHistory, TypeAttempt, TypeTail, tail, tiers
  <2> QED
    BY <1>2, <2>1, <2>2, TypePartsNext DEF Labels
<1>9. CASE Lookup
  <2>1. TypeSnap' /\ TypeSets' /\ TypeHistory' /\ TypeAttempt' /\ TypeTail'
    BY <1>1, <1>9 DEF Lookup, TypeSnap, TypeSets, TypeHistory, TypeAttempt, TypeTail, tail, tiers
  <2>2. Go("cacheReserve") \/ Go("lookup")
    BY <1>9 DEF Lookup
  <2> QED
    BY <1>2, <2>1, <2>2, TypePartsNext DEF Labels
<1>10. ASSUME NEW eligible \in SUBSET (cands \ used), Select(eligible)
       PROVE  TypeOK' /\ UNCHANGED <<db, kind, now>>
  <2>1. eligible \in SUBSET Channels
    BY <1>1 DEF TypeSets
  <2>2. progress' \in Progress
    BY <1>10, <2>1, SelectProgresses
  <2>3. /\ deadline' \in 0 .. TotalTimeout /\ cur' \in Channels /\ backup' \in BOOLEAN
        /\ began' \in [TierRange -> 0 .. TotalTimeout] /\ heir' \in [TierRange -> Channels \cup {NoChannel}]
    BY <1>10, SelectTyped
  <2>4. /\ Go("recheck") /\ used' = used \cup {cur'} /\ before' = Stopped /\ closed' = ~PolicyOpen /\ outcome' = "none"
        /\ UNCHANGED <<snap, held, cands, limit, hits, total, pending, tail>>
    BY <1>10 DEF Select
  <2>5. TypeSnap' /\ TypeSets' /\ TypeHistory' /\ TypeAttempt' /\ TypeTail'
    BY <1>1, <1>3, <2>2, <2>3, <2>4 DEF TypeSnap, TypeSets, TypeHistory, TypeAttempt, TypeTail, tail
  <2> QED
    BY <1>2, <2>4, <2>5, TypePartsNext DEF Labels
<1>11. ASSUME NEW eligible \in SUBSET (cands \ used), NothingToCall(eligible)
       PROVE  TypeOK' /\ UNCHANGED <<db, kind, now>>
  <2>1. eligible \in SUBSET Channels
    BY <1>1 DEF TypeSets
  <2>2. progress' = progress
    BY <1>11, <2>1, NothingProgresses
  <2>3. TypeSnap' /\ TypeSets' /\ TypeHistory' /\ TypeAttempt' /\ TypeTail'
    BY <1>1, <1>11, <2>2 DEF NothingToCall, TypeSnap, TypeSets, TypeHistory, TypeAttempt, TypeTail, tail, tiers
  <2>4. Go("nothing")
    BY <1>11 DEF NothingToCall
  <2> QED
    BY <1>2, <2>3, <2>4, TypePartsNext DEF Labels
<1>12. CASE Assess
  <2>1. progress' \in Progress /\ outcome' \in {"verdict", "retryable", "fatal"} /\ total' \in 0 .. limit
    BY <1>12, AssessProgresses
  <2>2. TypeSnap' /\ TypeSets' /\ TypeHistory' /\ TypeAttempt' /\ TypeTail'
    BY <1>1, <1>12, <2>1 DEF Assess, TypeSnap, TypeSets, TypeHistory, TypeAttempt, TypeTail, tail, tiers
  <2>3. Go("settle")
    BY <1>12 DEF Assess
  <2> QED
    BY <1>2, <2>2, <2>3, TypePartsNext DEF Labels
<1> QED
  BY <1>4, <1>5, <1>6, <1>7, <1>8, <1>9, <1>10, <1>11, <1>12, StepCases DEF Chooses

-----------------------------------------------------------------------------
(* What was stopped stays stopped, and is seen by the recheck.             *)
LEMMA StoppedKept ==
  ASSUME TypeOK, TypeOK', StillStopped, [Next]_vars
  PROVE  StillStopped'
<1> DEFINE Seen == {"credential", "reserve", "calling", "cacheReserve", "cacheSettle"}
<1>1. \A c \in Channels : row[c].revision \in Nat /\ snap[c].revision \in Nat
  BY DEF TypeOK, Row
<1>2. before \subseteq Channels
  BY DEF TypeOK
<1>3. ASSUME NEW c \in Channels, EditChannel(c) PROVE StillStopped'
  <2>1. /\ UNCHANGED <<policy, kind, pc, snap, cur, before>>
        /\ \A d \in Channels : row'[d] = row[d] \/ row'[d].revision = row[d].revision + 1
    BY <1>3, EditChanges DEF EditChannel, route, tiers
  <2>2. \A d \in Channels : snap'[d].revision <= row'[d].revision
    BY <1>1, <2>1 DEF StillStopped
  <2>3. \A d \in Channels : EditedSince(d) => EditedSince(d)'
    BY <1>1, <2>1 DEF StillStopped, EditedSince
  <2> QED
    BY <1>2, <2>1, <2>2, <2>3 DEF StillStopped, PolicyOpen, OpenAs
<1>4. CASE EditPolicy
  <2>1. UNCHANGED <<row, kind, pc, snap, cur>> /\ before' \subseteq before
    BY <1>4 DEF EditPolicy
  <2>2. \A d \in Channels : EditedSince(d)' = EditedSince(d)
    BY <2>1 DEF EditedSince
  <2>3. \A d \in before' : ~PolicyOpen' \/ EditedSince(d)'
    <3>1. CASE OpenAs(policy')
      BY <1>2, <1>4, <2>2, <3>1 DEF EditPolicy
    <3>2. CASE ~OpenAs(policy')
      BY <2>1, <3>2 DEF PolicyOpen, OpenAs
    <3> QED
      BY <3>1, <3>2
  <2> QED
    BY <2>1, <2>3 DEF StillStopped
<1>5. CASE Tick \/ ClientGone \/ UNCHANGED vars
  <2>1. UNCHANGED <<row, policy, kind, pc, snap, cur, before>>
    BY <1>5 DEF Tick, ClientGone, vars, db, route, tiers
  <2> QED
    BY <2>1 DEF StillStopped, PolicyOpen, OpenAs, EditedSince
<1>6. ASSUME UNCHANGED <<row, policy, kind, snap, before>>, pc # "arrived" \/ before = {}, pc' # "arrived",
             pc' \in Seen => cur' \notin before
      PROVE  StillStopped'
  BY <1>6 DEF StillStopped, PolicyOpen, OpenAs, EditedSince
<1>7. ASSUME UNCHANGED <<row, policy, kind, snap>>, before' = Stopped, pc' \notin Seen, pc' # "arrived"
      PROVE  StillStopped'
  <2>1. \A c \in before' : ~PolicyOpen' \/ EditedSince(c)'
    BY <1>7 DEF Stopped, PolicyOpen, OpenAs, EditedSince
  <2> QED
    BY <1>7, <2>1 DEF StillStopped
<1>8. CASE RouteSnapshot
  <2>1. UNCHANGED <<row, policy, kind, before>> /\ snap' = row /\ pc' = "prepare" /\ before = {}
    BY <1>8 DEF RouteSnapshot, Go, db, StillStopped
  <2> QED
    BY <1>1, <2>1 DEF StillStopped
<1>9. CASE (\E eligible \in SUBSET (cands \ used) : Select(eligible)) \/ (ReadCache /\ pc' = "lookup")
  <2>1. UNCHANGED <<row, policy, kind, snap>> /\ before' = Stopped /\ pc' \in {"recheck", "lookup"}
    BY <1>9 DEF Select, ReadCache, Go, End, db
  <2> QED
    BY <1>7, <2>1
<1>10. \A c \in Channels : Callable(c) => c \notin before
  BY DEF Callable, StillStopped, EditedSince
<1>11. ASSUME UNCHANGED <<row, policy, kind, snap, before>>, pc # "arrived", pc' # "arrived",
              \/ pc' \notin Seen
              \/ pc \in Seen /\ cur' = cur
              \/ \E c \in Channels : cur' = c /\ Callable(c)
       PROVE  StillStopped'
  BY <1>6, <1>10, <1>11 DEF StillStopped
<1>12. ASSUME NEW r, End(r) PROVE StillStopped'
  <2>1. UNCHANGED <<row, policy, kind, snap>> /\ before' = {} /\ pc' = "cost"
    BY <1>12 DEF End, Go, db
  <2> QED
    BY <2>1 DEF StillStopped, EditedSince
<1>13. CASE Reject \/ RouteResources \/ Finish \/ Miss
  <2>1. /\ UNCHANGED <<row, policy, kind, snap, before>> /\ pc' \notin Seen /\ pc' # "arrived"
        /\ pc # "arrived" \/ before = {}
    BY <1>13 DEF Reject, RouteResources, Finish, RequestCost, Record, RecordFails, Deferred, Miss,
                 AfterRecord, Go, db, route, StillStopped
  <2> QED
    BY <1>6, <2>1
<1>14. CASE Lookup
  <2>1. UNCHANGED <<row, policy, kind, snap, before>> /\ pc # "arrived" /\ pc' # "arrived"
    BY <1>14 DEF Lookup, Go, db
  <2>2. pc' \notin Seen \/ \E c \in Channels : cur' = c /\ Callable(c)
    <3>1. PICK c \in hits : IF Callable(c) THEN cur' = c /\ Go("cacheReserve") ELSE cur' = NoChannel /\ Go("lookup")
      BY <1>14 DEF Lookup
    <3>2. c \in Channels
      BY DEF TypeOK
    <3>3. CASE Callable(c)
      BY <3>1, <3>2, <3>3
    <3>4. CASE ~Callable(c)
      <4>1. Go("lookup")
        BY <3>1, <3>4
      <4>2. pc' \notin Seen
        BY <4>1 DEF Go
      <4> QED
        BY <4>2
    <3> QED
      BY <3>3, <3>4
  <2> QED
    BY <1>11, <2>1, <2>2
<1>15. CASE (\E eligible \in SUBSET (cands \ used) : NothingToCall(eligible))
            \/ ((PreparationFails \/ CredentialMisbound \/ Settle) /\ pc' = "select")
  <2>1. UNCHANGED <<row, policy, kind, snap, before>> /\ pc # "arrived" /\ pc' \notin Seen /\ pc' # "arrived"
    BY <1>15 DEF NothingToCall, PreparationFails, CredentialMisbound, Settle, Attempt, Go, End, db, route
  <2> QED
    BY <1>11, <2>1
<1>16. CASE Recheck
  <2>1. /\ UNCHANGED <<row, policy, kind, snap, before>> /\ pc # "arrived" /\ pc' # "arrived"
        /\ cur' = cur
        /\ pc' \in Seen => Callable(cur)
    BY <1>16 DEF Recheck, Attempt, Go, db, route
  <2>2. before \subseteq Channels
    BY DEF TypeOK
  <2>3. pc' \in Seen => cur' \notin before
    BY <1>10, <2>1, <2>2
  <2> QED
    BY <1>6, <2>1, <2>3
<1>17. CASE ReadCredential \/ Reserve \/ Assess
  <2>1. /\ UNCHANGED <<row, policy, kind, snap, before>> /\ pc # "arrived" /\ pc' # "arrived"
        /\ pc' \notin Seen \/ (pc \in Seen /\ cur' = cur)
    BY <1>17 DEF ReadCredential, Reserve, Assess, Attempt, Go, db, route
  <2> QED
    BY <1>11, <2>1
<1>18. CASE Environment
  BY <1>3, <1>4, <1>5, <1>18, RequestAssumption DEF Environment
<1>19. CASE Prepare
  BY <1>8, <1>12, <1>13, <1>19 DEF Prepare, KeywordRule, Unprepared
<1>20. CASE Cached
  <2>1. ReadCache => pc' = "lookup" \/ End("error")
    BY DEF ReadCache, Go
  <2> QED
    BY <1>9, <1>12, <1>13, <1>14, <1>20, <2>1 DEF Cached, LookupFails, SettleCached
<1>21. CASE Route
  <2>1. PreparationFails \/ CredentialMisbound \/ Settle => pc' = "select" \/ (\E r : End(r))
    BY DEF PreparationFails, CredentialMisbound, Settle, Attempt, Go
  <2> QED
    BY <1>9, <1>12, <1>15, <1>16, <1>17, <1>21, <2>1 DEF Route, GiveUp, ReserveFails, SettleFails
<1> QED
  BY <1>5, <1>13, <1>18, <1>19, <1>20, <1>21 DEF Next, Done

-----------------------------------------------------------------------------
(* What is not edited is as it was read.                                   *)
LEMMA AsReadKept ==
  ASSUME TypeOK, Chosen, StillStopped, AsRead, [Next]_vars
  PROVE  AsRead'
<1>1. \A c \in Channels : row[c].revision \in Nat /\ snap[c].revision \in Nat
  BY DEF TypeOK, Row
<1>2. cands \subseteq Channels
  BY DEF TypeOK
<1>3. ASSUME UNCHANGED <<row, snap, held>>, cands' \subseteq cands, pc # "arrived" \/ cands' = {},
             pc' # "arrived" \/ pc = "arrived", pc' = "prepare" \/ pc # "prepare" \/ cands' = {}
      PROVE  AsRead'
  BY <1>3 DEF AsRead, EditedSince
<1>4. ASSUME NEW c \in Channels, EditChannel(c) PROVE AsRead'
  <2>1. /\ UNCHANGED <<pc, snap, held, cands>>
        /\ \A d \in Channels : row'[d] = row[d] \/ row'[d].revision = row[d].revision + 1
    BY <1>4, EditChanges DEF EditChannel, route
  <2>2. \A d \in Channels : ~EditedSince(d)' => ~EditedSince(d) /\ row'[d] = row[d]
    BY <1>1, <2>1 DEF StillStopped, EditedSince
  <2> QED
    BY <1>2, <2>1, <2>2 DEF AsRead
<1>5. CASE EditPolicy \/ Tick \/ ClientGone \/ UNCHANGED vars
  <2>1. UNCHANGED <<pc, row, snap, held, cands>>
    BY <1>5 DEF EditPolicy, Tick, ClientGone, vars, db, route
  <2> QED
    BY <2>1 DEF AsRead, EditedSince
<1>6. CASE Ends
  BY <1>3, <1>6 DEF Ends, End, Go, db
<1>7. CASE Keeps
  <2>1. UNCHANGED <<row, snap, held, cands>> /\ pc # "prepare" /\ pc' # "arrived"
    BY <1>7 DEF Keeps, Turns, Go, route, db
  <2>2. pc # "arrived" \/ cands' = {}
    BY <2>1 DEF AsRead
  <2> QED
    BY <1>3, <2>1, <2>2
<1>8. CASE RouteSnapshot
  <2>1. row' = row /\ snap' = row /\ pc' = "prepare" /\ \A c \in cands' : row[c].enabled /\ row[c].active
    BY <1>8 DEF RouteSnapshot, Go, db
  <2> QED
    BY <1>2, <2>1 DEF AsRead, EditedSince
<1>9. CASE RouteResources
  <2>1. /\ UNCHANGED <<row, snap>> /\ cands' \subseteq cands /\ pc' # "arrived"
        /\ \A c \in cands' : held'[c] = row[c].key
    BY <1>2, <1>9 DEF RouteResources, Go, db
  <2> QED
    BY <2>1 DEF AsRead, EditedSince
<1>10. CASE Chooses \/ Assess \/ Lookup \/ (ReadCache /\ pc' = "lookup")
  <2>1. UNCHANGED <<row, snap, held, cands>> /\ pc \notin {"arrived", "prepare"} /\ pc' # "arrived"
    BY <1>10 DEF Chooses, Select, NothingToCall, Assess, Lookup, ReadCache, End, Go, db
  <2> QED
    BY <1>3, <2>1
<1>11. CASE Environment
  BY <1>4, <1>5, <1>11, RequestAssumption DEF Environment
<1> QED
  BY <1>5, <1>6, <1>7, <1>8, <1>9, <1>10, <1>11, StepCases DEF Next, Done

(* Why the request is back from a channel.                                 *)
LEMMA BackKept ==
  ASSUME TypeOK, Chosen, StillStopped, AsRead, Tried, Back, [Next]_vars
  PROVE  Back'
<1>1. CASE pc' \notin Preparing \cup {"select"}
  BY <1>1 DEF Back, Preparing
<1>2. used \subseteq Channels /\ cands \subseteq Channels /\ now \in Nat /\ deadline \in Nat
  BY RequestAssumption DEF TypeOK
<1>3. ASSUME NEW c \in Channels, EditChannel(c) PROVE Back'
  <2>1. /\ UNCHANGED <<pc, used, cur, outcome, deadline, snap, kind, closed, now, policy>>
        /\ \A d \in Channels : row'[d] = row[d] \/ row'[d].revision = row[d].revision + 1
    BY <1>3, EditChanges DEF EditChannel, route
  <2>2. \A d \in Channels : EditedSince(d) => EditedSince(d)'
    <3>1. \A d \in Channels : row[d].revision \in Nat /\ snap[d].revision \in Nat
      BY DEF TypeOK, Row
    <3> QED
      BY <2>1, <3>1 DEF StillStopped, EditedSince
  <2> QED
    BY <1>2, <2>1, <2>2 DEF Back, PolicyOpen, OpenAs
<1>4. CASE EditPolicy
  <2>1. UNCHANGED <<row, pc, used, cur, outcome, deadline, snap, kind, now>> /\ closed' = (closed \/ ~OpenAs(policy'))
    BY <1>4 DEF EditPolicy
  <2> QED
    BY <2>1 DEF Back, PolicyOpen, OpenAs, EditedSince
<1>5. CASE Tick \/ ClientGone \/ UNCHANGED vars
  <2>1. UNCHANGED <<row, policy, pc, used, cur, outcome, deadline, snap, kind, closed>> /\ now' \in Nat /\ now' >= now
    BY <1>2, <1>5, RequestAssumption DEF Tick, ClientGone, vars, db, route, Over
  <2> QED
    BY <1>2, <2>1 DEF Back, PolicyOpen, OpenAs, EditedSince
<1>6. CASE Ends
  BY <1>1, <1>6 DEF Ends, End, Go, Preparing
<1>7. CASE Keeps
  <2>1. UNCHANGED <<row, policy, kind, now, snap, used, cur, deadline, closed, outcome>>
    BY <1>7 DEF Keeps, Go, route, db
  <2>2. pc' \in Preparing /\ ~PolicyOpen' => closed'
    BY <1>7, <2>1 DEF Keeps, Turns, Back, PolicyOpen, OpenAs
  <2>3. ASSUME pc \in Preparing, ~ (Callable(cur) /\ row[cur].key = held[cur])
        PROVE  EditedSince(cur) \/ closed
    <3>1. SUFFICES ASSUME ~EditedSince(cur), PolicyOpen PROVE FALSE
      BY <2>3 DEF Back
    <3>2. cur \in cands /\ cur \in Channels /\ pc # "prepare"
      BY <1>2, <2>3 DEF Tried, Preparing
    <3>3. row[cur] = snap[cur] /\ snap[cur].enabled /\ snap[cur].active /\ held[cur] = row[cur].key
      BY <3>1, <3>2 DEF AsRead
    <3> QED
      BY <2>3, <3>1, <3>3 DEF Callable
  <2>4. ASSUME pc' = "select", cur \in used
        PROVE  outcome # "none" \/ EditedSince(cur) \/ closed \/ now >= deadline
    BY <1>7, <2>3, <2>4 DEF Keeps, Turns, Tried
  <2> QED
    BY <2>1, <2>2, <2>4 DEF Back, EditedSince
<1>8. CASE RouteResources
  BY <1>8 DEF RouteResources, Go, Back, Tried, Preparing
<1>9. ASSUME NEW eligible, Select(eligible) PROVE Back'
  <2>1. pc' = "recheck" /\ closed' = ~PolicyOpen /\ UNCHANGED <<policy, kind>>
    BY <1>9 DEF Select, Go, db
  <2> QED
    BY <2>1 DEF Back, PolicyOpen, OpenAs
<1>10. CASE (\E eligible \in SUBSET (cands \ used) : NothingToCall(eligible)) \/ Assess \/ RouteSnapshot \/ Lookup
             \/ (ReadCache /\ pc' = "lookup")
  BY <1>1, <1>10 DEF NothingToCall, Assess, RouteSnapshot, Lookup, Go, Preparing
<1>11. CASE Environment
  BY <1>3, <1>4, <1>5, <1>11, RequestAssumption DEF Environment
<1> QED
  BY <1>5, <1>6, <1>7, <1>8, <1>9, <1>10, <1>11, StepCases DEF Next, Done, Chooses

(* The steps that leave the progress of the route as it is.                *)
Rests ==
    /\ UNCHANGED <<used, progress, began, heir, deadline, backup, limit, total>>
    /\ pc' \in Preparing => pc \in Preparing /\ UNCHANGED <<cands, cur>>
    /\ pc' \in Early => pc \in Early
    /\ now \in Nat /\ now' \in Nat /\ now' >= now

LEMMA RestCases ==
  ASSUME TypeOK, Chosen, [Next]_vars
  PROVE  Rests \/ Ends \/ Assess \/ RouteSnapshot \/ \E eligible \in SUBSET (cands \ used) : Select(eligible)
<1>1. now \in Nat
  BY RequestAssumption DEF TypeOK
<1>2. CASE Environment
  BY <1>1, <1>2, RequestAssumption DEF Environment, EditChannel, EditPolicy, Tick, ClientGone, Over, route, tiers, Rests
<1>3. CASE UNCHANGED vars
  BY <1>1, <1>3 DEF vars, route, tiers, Rests
<1>4. CASE Keeps
  BY <1>1, <1>4 DEF Keeps, Turns, Go, route, tiers, Rests
<1>5. CASE RouteResources \/ Lookup \/ (ReadCache /\ pc' = "lookup")
  BY <1>1, <1>5 DEF RouteResources, Lookup, ReadCache, End, Go, tiers, Rests, Preparing, Early
<1>6. ASSUME NEW eligible \in SUBSET (cands \ used), NothingToCall(eligible) PROVE Rests
  <2>1. eligible \in SUBSET Channels
    BY DEF TypeOK
  <2> QED
    BY <1>1, <1>6, <2>1, NothingProgresses DEF NothingToCall, Go, tiers, Rests, Preparing, Early
<1> QED
  BY <1>2, <1>3, <1>4, <1>5, <1>6, StepCases DEF Next, Done, Chooses

(* The end of the route forgets its progress.                              *)
LEMMA EndForgets ==
  ASSUME Ends
  PROVE  /\ pc' = "cost" /\ used' = {} /\ progress'.skipped = {} /\ began' = Never
         /\ \A p \in TierRange : progress'.attempts[p] = 0 /\ progress'.deadlines[p] = 0
BY DEF Ends, End, Go, NoProgress

(* A tier has had an attempt, or time, only through a channel that was     *)
(* used.                                                                   *)
LEMMA TriedKept ==
  ASSUME TypeOK, Chosen, Tried, [Next]_vars
  PROVE  Tried'
<1>1. CASE Rests
  BY <1>1 DEF Rests, Tried, Early
<1>2. CASE Ends
  BY <1>2, EndForgets DEF Tried, Preparing
<1>3. CASE RouteSnapshot
  BY <1>3 DEF RouteSnapshot, Go, Tried, Preparing
<1>4. CASE Assess
  <2>1. pc = "calling" /\ pc' = "settle" /\ used' = used
    BY <1>4 DEF Assess, Go
  <2>2. Tier[cur] \in Tiers(used)
    BY <2>1 DEF Tried, Preparing, Tiers
  <2> QED
    BY <1>4, <2>1, <2>2, AssessProgresses DEF Tried, Preparing
<1>5. ASSUME NEW eligible \in SUBSET (cands \ used), Select(eligible) PROVE Tried'
  <2>1. eligible \in SUBSET Channels
    BY DEF TypeOK
  <2>2. pc' = "recheck" /\ used' = used \cup {cur'} /\ cands' = cands /\ cur' \in cands
    BY <1>5, <2>1, SelectServes DEF Select, Go
  <2>3. PICK p : p = Tier[cur'] /\ p \in TierRange
    BY <1>5, <2>1, SelectServes
  <2>4. p \in Tiers(used') /\ \A q \in Tiers(used) : q \in Tiers(used')
    BY <2>2, <2>3 DEF Tiers
  <2>5. progress'.attempts = progress.attempts /\ progress'.deadlines = DeadlinesWith(p, eligible)
    BY <1>5, <2>1, <2>3, SelectProgresses
  <2>6. \A q \in TierRange : q # p => progress'.deadlines[q] = progress.deadlines[q]
    BY <2>5 DEF DeadlinesWith, TypeOK
  <2>7. \A q \in TierRange : progress'.attempts[q] > 0 \/ progress'.deadlines[q] # 0 => q \in Tiers(used')
    BY <2>4, <2>5, <2>6 DEF Tried
  <2> QED
    BY <2>2, <2>7 DEF Tried
<1> QED
  BY <1>1, <1>2, <1>3, <1>4, <1>5, RestCases

(* Where a tier gives way it was spent, and the heir is one that serves.   *)
LEMMA InheritedKept ==
  ASSUME TypeOK, Chosen, Tried, Inherited, [Next]_vars
  PROVE  Inherited'
<1>1. CASE Rests
  BY <1>1 DEF Rests, Inherited
<1>2. CASE Ends
  BY <1>2, EndForgets DEF Inherited
<1>3. CASE RouteSnapshot
  BY <1>3 DEF RouteSnapshot, tiers, Inherited
<1>4. CASE Assess
  BY <1>4, AssessProgresses DEF Assess, tiers, Inherited
<1>5. ASSUME NEW eligible \in SUBSET (cands \ used), Select(eligible) PROVE Inherited'
  <2>1. eligible \in SUBSET Channels
    BY DEF TypeOK
  <2>2. used' = used \cup {cur'} /\ progress'.skipped = progress.skipped \cup SkippedNow(eligible)
    BY <1>5, <2>1, SelectProgresses DEF Select
  <2>3. heir' = [q \in TierRange |-> IF q \in progress'.skipped \ progress.skipped THEN cur' ELSE heir[q]]
    BY <1>5 DEF Select
  <2>4. progress.skipped \subseteq TierRange /\ SkippedNow(eligible) \subseteq TierRange
    BY <2>1, SkipsTiers DEF TypeOK
  <2>5. \A q \in Tiers(used) : q \in Tiers(used')
    BY <2>2 DEF Tiers
  <2>6. ASSUME NEW q \in SkippedNow(eligible) PROVE q \in Tiers(used') /\ heir'[q] = cur' /\ Tier[cur'] > q
    <3>1. q \in Asked(eligible) /\ q \notin progress.skipped /\ \A other \in Serving(eligible) : q < other
      BY DEF SkippedNow, Asked
    <3>2. Tier[cur'] \in Serving(eligible) /\ Tier[cur'] \in TierRange
      BY <1>5, <2>1, SelectServes
    <3>3. q \in Nat /\ Tier[cur'] \in Nat
      <4>1. TierRange \subseteq 1 .. 100
        BY TierType
      <4>2. q \in TierRange
        BY <2>4
      <4>3. Tier[cur'] \in TierRange
        BY <3>2
      <4>4. \A x \in TierRange : x \in Nat
        BY <4>1
      <4> QED
        BY <4>2, <4>3, <4>4
    <3>4. Spent(q)
      BY <3>1, <3>3 DEF Serving, GivesWay
    <3>5. progress.attempts[q] > 0 \/ progress.deadlines[q] # 0
      <4>1. progress.attempts[q] \in Nat
        BY <2>4 DEF TypeOK
      <4> QED
        BY <3>4, <4>1, RequestAssumption DEF Spent
    <3> QED
      BY <2>2, <2>3, <2>4, <2>5, <3>1, <3>2, <3>3, <3>5 DEF Tried
  <2>7. ASSUME NEW q \in progress.skipped PROVE q \in Tiers(used') /\ heir'[q] = heir[q]
    BY <2>3, <2>4, <2>5 DEF Inherited
  <2> QED
    BY <2>2, <2>6, <2>7 DEF Inherited
<1> QED
  BY <1>1, <1>2, <1>3, <1>4, <1>5, RestCases

(* The time of a tier starts with its deadline.                            *)
LEMMA TimedKept ==
  ASSUME TypeOK, Chosen, Timed, [Next]_vars
  PROVE  Timed'
<1>1. CASE Rests
  <2>1. \A p \in TierRange : began[p] \in Nat
    BY RequestAssumption DEF TypeOK
  <2> QED
    BY <1>1, <2>1 DEF Rests, Timed
<1>2. CASE Ends
  BY <1>2, EndForgets DEF Timed, Never
<1>3. CASE RouteSnapshot
  BY <1>3 DEF RouteSnapshot, tiers, Timed, Go
<1>4. CASE Assess
  BY <1>4, AssessProgresses DEF Assess, tiers, Timed, Go
<1>5. ASSUME NEW eligible \in SUBSET (cands \ used), Select(eligible) PROVE Timed'
  <2>1. eligible \in SUBSET Channels /\ now' = now /\ ~Over
    BY <1>5 DEF TypeOK, Select, Go
  <2>2. PICK p : p = Tier[cur'] /\ p \in TierRange
    BY <1>5, <2>1, SelectServes
  <2>3. progress'.deadlines = DeadlinesWith(p, eligible)
    BY <1>5, <2>1, <2>2, SelectProgresses
  <2>4. began' = [began EXCEPT ![p] = IF backup' THEN Min({began[p], now}) ELSE began[p]]
        /\ backup' = (Remaining > 1 /\ HasLower(p, eligible))
    BY <1>5, <2>1, <2>2, SelectServes
  <2>5. /\ began \in [TierRange -> 0 .. TotalTimeout] /\ progress.deadlines \in [TierRange -> 0 .. TotalTimeout]
        /\ now \in Nat /\ now < TotalTimeout /\ began[p] \in Nat /\ TotalTimeout \in Nat
    BY <2>1, <2>2, RequestAssumption DEF TypeOK, Over
  <2>6. CASE ~backup'
    <3>1. progress'.deadlines = progress.deadlines /\ began' = began
      BY <2>3, <2>4, <2>5, <2>6 DEF DeadlinesWith
    <3> QED
      BY <2>1, <3>1 DEF Timed
  <2>7. CASE backup'
    <3>1. /\ progress'.deadlines = [progress.deadlines EXCEPT ![p] = TierDeadline(p)]
          /\ began' = [began EXCEPT ![p] = Min({began[p], now})]
      BY <2>3, <2>4, <2>7 DEF DeadlinesWith
    <3>2. Min({began[p], now}) = IF began[p] <= now THEN began[p] ELSE now
      BY <2>5, MinOfTwo
    <3>3. CASE progress.deadlines[p] # 0
      <4>1. TierDeadline(p) = progress.deadlines[p] /\ began[p] <= now
        BY <2>2, <3>3 DEF TierDeadline, Timed
      <4>2. progress'.deadlines = progress.deadlines /\ began' = began
        BY <2>5, <3>1, <3>2, <4>1
      <4> QED
        BY <2>1, <4>2 DEF Timed
    <3>4. CASE progress.deadlines[p] = 0
      <4>1. began[p] = TotalTimeout
        BY <2>2, <3>4 DEF Timed
      <4>2. began'[p] = now
        BY <2>2, <2>5, <3>1, <3>2, <4>1
      <4>3. progress'.deadlines[p] = Min({now + PriorityTimeout, HalfLeft})
        BY <2>2, <2>5, <3>1, <3>4 DEF TierDeadline
      <4>4. HalfLeft \in Nat /\ HalfLeft # 0
        BY <2>5, RequestAssumption DEF HalfLeft
      <4>5. now + PriorityTimeout \in Nat /\ now + PriorityTimeout # 0 /\ PriorityTimeout \in Nat
        BY <2>5, RequestAssumption
      <4>6. progress'.deadlines[p] # 0 /\ progress'.deadlines[p] <= now + PriorityTimeout
        BY <4>3, <4>4, <4>5, MinOfTwo
      <4>7. \A q \in TierRange : q # p => progress'.deadlines[q] = progress.deadlines[q] /\ began'[q] = began[q]
        BY <2>5, <3>1
      <4> QED
        BY <2>1, <2>5, <4>2, <4>6, <4>7 DEF Timed
    <3> QED
      BY <3>3, <3>4
  <2> QED
    BY <2>6, <2>7
<1> QED
  BY <1>1, <1>2, <1>3, <1>4, <1>5, RestCases

(* A tier that serves although it has a backup is not spent.               *)
LEMMA BackupKept ==
  ASSUME TypeOK, Chosen, Timed', BackupInTime, [Next]_vars
  PROVE  BackupInTime'
<1>1. CASE Rests
  BY <1>1 DEF Rests, BackupInTime, Remaining
<1>2. CASE Ends
  BY <1>2, EndForgets DEF BackupInTime, Preparing
<1>3. CASE Assess \/ RouteSnapshot
  BY <1>3 DEF Assess, RouteSnapshot, Go, BackupInTime, Preparing
<1>4. ASSUME NEW eligible \in SUBSET (cands \ used), Select(eligible), backup'
      PROVE  /\ deadline' <= began'[Tier[cur']] + PriorityTimeout /\ deadline' < TotalTimeout
             /\ progress'.attempts[Tier[cur']] < MaxAttemptsPerPriority /\ Remaining' > 1
  <2>1. eligible \in SUBSET Channels /\ ~Over /\ UNCHANGED <<limit, total>>
    BY <1>4 DEF TypeOK, Select
  <2>2. PICK p : p = Tier[cur'] /\ p \in TierRange
    BY <1>4, <2>1, SelectServes
  <2>3. /\ p \in Serving(eligible) /\ deadline' = CallDeadline(p, eligible)
        /\ Remaining > 1 /\ HasLower(p, eligible)
    BY <1>4, <2>1, <2>2, SelectServes
  <2>4. progress'.attempts = progress.attempts /\ progress'.deadlines = DeadlinesWith(p, eligible)
    BY <1>4, <2>1, <2>2, SelectProgresses
  <2>5. deadline' < TotalTimeout
    BY <2>1, <2>2, <2>3, CallDeadlineType
  <2>6. progress'.attempts[p] < MaxAttemptsPerPriority
    <3>1. ~Spent(p)
      BY <2>3 DEF Serving, GivesWay
    <3>2. progress.attempts[p] \in Nat
      BY <2>2 DEF TypeOK
    <3> QED
      BY <2>4, <3>1, <3>2, RequestAssumption DEF Spent
  <2>7. progress'.deadlines[p] = TierDeadline(p) /\ TierDeadline(p) \in 0 .. TotalTimeout
    BY <2>1, <2>2, <2>3, <2>4, TierDeadlineType DEF DeadlinesWith, TypeOK
  <2>8. HalfLeft \in 0 .. TotalTimeout
    BY <2>1, HalfIsLess
  <2>9. Remaining \in Int
    BY RequestAssumption DEF TypeOK, Remaining
  <2>10. deadline' = Min({TierDeadline(p), HalfLeft})
    BY <2>3, <2>9 DEF CallDeadline
  <2>11. deadline' <= TierDeadline(p)
    BY <2>7, <2>8, <2>10, MinOfTwo, RequestAssumption
  <2>12. TierDeadline(p) <= began'[p] + PriorityTimeout
    <3>1. TierDeadline(p) # 0
      <4>1. now \in Nat /\ PriorityTimeout \in Nat \ {0} /\ now < TotalTimeout /\ TotalTimeout \in Nat \ {0, 1}
        BY <2>1, RequestAssumption DEF TypeOK, Over
      <4>2. HalfLeft # 0 /\ HalfLeft \in Nat /\ now + PriorityTimeout \in Nat /\ now + PriorityTimeout # 0
        BY <4>1 DEF HalfLeft
      <4> QED
        BY <4>2, MinOfTwo DEF TierDeadline
    <3> QED
      BY <2>2, <2>7, <3>1 DEF Timed
  <2>13. began'[p] + PriorityTimeout \in Nat /\ deadline' \in Nat
    <3>1. began'[p] \in Nat
      BY <1>4, <2>2, SelectTyped, RequestAssumption
    <3> QED
      BY <1>4, <3>1, SelectTyped, RequestAssumption
  <2>14. deadline' <= began'[p] + PriorityTimeout
    BY <2>7, <2>11, <2>12, <2>13, RequestAssumption
  <2> QED
    BY <2>1, <2>2, <2>3, <2>5, <2>6, <2>14 DEF Remaining
<1>5. ASSUME NEW eligible \in SUBSET (cands \ used), Select(eligible) PROVE BackupInTime'
  BY <1>4, <1>5 DEF BackupInTime
<1> QED
  BY <1>1, <1>2, <1>3, <1>5, RestCases

-----------------------------------------------------------------------------
LEMMA InitHolds == Init => IInv
<1> SUFFICES ASSUME Init PROVE IInv
  OBVIOUS
<1> USE DEF Init
<1>1. TypeOK
  <2>1. FirstRow \in Row
    BY DEF FirstRow, Row
  <2>2. row \in [Channels -> Row] /\ snap \in [Channels -> Row] /\ held \in [Channels -> Nat]
    BY <2>1
  <2>3. /\ TotalTimeout \in Nat /\ 0 \in 0 .. TotalTimeout /\ TotalTimeout \in 0 .. TotalTimeout
        /\ limit \in 1 .. MaxAttempts /\ total \in 0 .. limit
        /\ changes \in 0 .. MaxChanges /\ edits \in 0 .. MaxEdits
    BY RequestAssumption
  <2>4. progress \in Progress
    BY <2>3 DEF NoProgress, Progress
  <2>5. began \in [TierRange -> 0 .. TotalTimeout] /\ heir \in [TierRange -> Channels \cup {NoChannel}]
    BY <2>3 DEF Never, NoHeir
  <2> QED
    BY <2>2, <2>3, <2>4, <2>5 DEF TypeOK, Labels, Progress
<1>2. Chosen /\ Settled /\ Answered
  BY DEF Chosen, Attempting, Preparing, Settled, Answered
<1>3. StillStopped
  <2>1. \A c \in Channels : row[c].revision \in Nat
    BY <1>1 DEF TypeOK, Row
  <2> QED
    BY <2>1 DEF StillStopped
<1>4. AsRead /\ Back
  BY DEF AsRead, Back, EditedSince, Preparing
<1>5. Tiered
  BY DEF Tiered, Tried, Inherited, Timed, BackupInTime, Preparing, NoProgress, Never
<1> QED
  BY <1>1, <1>2, <1>3, <1>4, <1>5 DEF IInv

LEMMA NextKeeps == IInv /\ [Next]_vars => IInv'
<1> SUFFICES ASSUME IInv, [Next]_vars PROVE IInv'
  OBVIOUS
<1>1. /\ TypeOK /\ Chosen /\ Settled /\ Answered /\ StillStopped /\ AsRead /\ Back
      /\ Tried /\ Inherited /\ Timed /\ BackupInTime
  BY DEF IInv, Tiered
<1>2. TypeOK'
  <2>1. CASE Environment
    BY <1>1, <2>1, EnvironmentTyped
  <2>2. CASE Prepare \/ Cached \/ Route \/ Finish
    BY <1>1, <2>2, StepTyped
  <2>3. CASE UNCHANGED vars
    <3>1. TypeOK' = TypeOK
      BY <2>3 DEF vars, db, route, tiers, tail, TypeOK
    <3> QED
      BY <1>1, <3>1
  <2> QED
    BY <2>1, <2>2, <2>3 DEF Next, Done
<1>3. Chosen' /\ Settled' /\ Answered'
  BY <1>1, ChosenKept, SettledKept, AnsweredKept
<1>4. StillStopped' /\ AsRead' /\ Back'
  BY <1>1, <1>2, StoppedKept, AsReadKept, BackKept
<1>5. Tried' /\ Inherited' /\ Timed'
  BY <1>1, TriedKept, InheritedKept, TimedKept
<1>6. BackupInTime'
  BY <1>1, <1>5, BackupKept
<1> QED
  BY <1>2, <1>3, <1>4, <1>5, <1>6 DEF IInv, Tiered

LEMMA InvariantHolds == Spec => []IInv
<1> QED
  BY InitHolds, NextKeeps, PTL DEF Spec

(* A request never makes more calls than it may, its deadlines lie within  *)
(* its time, and it passes over tiers that there are (router.go 405-797).  *)
THEOREM AuditTypeCorrect == Spec => []TypeOK
<1>1. IInv => TypeOK
  BY DEF IInv
<1> QED
  BY <1>1, InvariantHolds, PTL

(* A verdict is given only once it is recorded as one and paid for, and no *)
(* error is recorded as a verdict by a statement that succeeded.           *)
THEOREM AuditVerdictRecorded == Spec => []VerdictRecorded
<1>1. IInv => VerdictRecorded
  <2> SUFFICES ASSUME TypeOK, Answered PROVE VerdictRecorded
    BY DEF IInv
  <2>1. NoRow \notin {"verdict", "error"} /\ answer \in {"none", "verdict", "error"}
    BY RequestAssumption DEF TypeOK
  <2>2. CASE pc \in {"deferred", "done"}
    BY <2>1, <2>2 DEF Answered, VerdictRecorded
  <2>3. CASE pc \notin {"deferred", "done"}
    BY <2>1, <2>3 DEF Answered, VerdictRecorded
  <2> QED
    BY <2>2, <2>3
<1> QED
  BY <1>1, InvariantHolds, PTL

(* Nothing is called, and no cached verdict served, of a channel that was  *)
(* stopped or edited before the attempt was chosen: revisions only grow,   *)
(* and the recheck compares them.                                          *)
THEOREM AuditCalledAsConfigured == Spec => []CalledAsConfigured
<1>1. IInv => CalledAsConfigured
  BY DEF IInv, StillStopped, CalledAsConfigured
<1> QED
  BY <1>1, InvariantHolds, PTL

(* A tier is passed over only after its turn and for a channel of a lower  *)
(* tier that is reserved, and left without a call only if an administrator *)
(* or the clock takes it: with any number of tiers, whatever can be called *)
(* at each selection.  What is not edited is as it was read, so nothing    *)
(* but these sends the request back.                                       *)
THEOREM AuditLastTierKept == Spec => []LastTierKept
<1>1. IInv => LastTierKept
  <2> SUFFICES ASSUME Inherited, Back PROVE LastTierKept
    BY DEF IInv, Tiered
  <2> QED
    BY DEF Inherited, Back, LastTierKept
<1> QED
  BY <1>1, InvariantHolds, PTL

(* The attempts of a tier that has a backup stay within its number and its *)
(* time together, and each leaves the backup time and an attempt, for any  *)
(* tiers and limits: the tier's deadline is kept from attempt to attempt.  *)
THEOREM AuditBackupInTime == Spec => []BackupInTime
<1>1. IInv => BackupInTime
  BY DEF IInv, Tiered
<1> QED
  BY <1>1, InvariantHolds, PTL
=============================================================================
