--------------------------- MODULE AdmissionProofs ---------------------------
(***************************************************************************)
(* Admission for any number of requests and addresses, any limits, and any *)
(* fineness of the clock: what the counters of the guard and of            *)
(* requestAdmission count, what the row of rate_limits bounds, and what    *)
(* the tokens of an address are worth.                                     *)
(***************************************************************************)
EXTENDS Admission, SumTheorems

AllInside == {r \in Requests : request[r].at \in Inside}

(* The counters of the guard count the requests that are inside.           *)
Guarded ==
    /\ global.active = Cardinality(AllInside)
    /\ \A c \in Clients : IF clients[c] = NoBucket THEN InsideOf(c) = {}
                          ELSE clients[c].active = Cardinality(InsideOf(c))
    /\ \A r \in Requests : request[r].at \in Inside \cup {"arriving"} => request[r].client \in Clients

(* Those of requestAdmission count the bodies, each by what it may take.   *)
Budgeted ==
    /\ budget.active = Cardinality(Bodies)
    /\ budget.bytes = SumFunctionOnSet([r \in Bodies |-> Longest(r)], Bodies)
    /\ \A r \in Bodies : request[r].length <= BodyLimit

(* What the current window of the key has let through, and what is recent. *)
(* Hits before a window began are older than its start, but for the        *)
(* lateness of the hit that began it; those of the window before that one  *)
(* are not recent any more.                                                *)
Passed == IF window.hits <= KeyRPM THEN window.hits ELSE KeyRPM
Younger == {age \in Recent : age + MaxLate < window.starts}

Windows ==
    /\ SumFunctionOnSet(let, Recent) <= KeyRPM + Passed
    /\ SumFunctionOnSet(let, Younger) <= Passed

IInv == TypeOK /\ Guarded /\ Budgeted /\ Windows

-----------------------------------------------------------------------------
(* The smaller of two numbers, and products of natural numbers.            *)
LEMMA MinOfTwo ==
  ASSUME NEW a \in Int, NEW b \in Int
  PROVE  Min({a, b}) = IF a <= b THEN a ELSE b
<1> DEFINE m == IF a <= b THEN a ELSE b
<1>1. m \in {a, b} /\ \A y \in {a, b} : m <= y
  OBVIOUS
<1>2. \A x \in {a, b} : (\A y \in {a, b} : x <= y) => x = m
  OBVIOUS
<1> HIDE DEF m
<1>3. Min({a, b}) = m
  BY <1>1, <1>2 DEF Min
<1> QED
  BY <1>3 DEF m

LEMMA Products ==
  ASSUME NEW a \in Nat, NEW b \in Nat, NEW k \in Nat
  PROVE  /\ a * k \in Nat /\ (a + b) * k = a * k + b * k
         /\ a <= b => a * k <= b * k
         /\ b <= a => (a - b) * k = a * k - b * k
<1>1. a * k \in Nat /\ (a + b) * k = a * k + b * k
  BY SMT
<1>2. ASSUME a <= b PROVE a * k <= b * k
  <2>1. PICK d \in Nat : b = a + d
    BY <1>2
  <2> QED
    BY <2>1, SMT
<1>3. ASSUME b <= a PROVE (a - b) * k = a * k - b * k
  BY <1>3, SMT
<1> QED
  BY <1>1, <1>2, <1>3

(* The numbers the constants are made of.                                  *)
LEMMA Numbers ==
  /\ Oldest \in Nat /\ MaxLate \in 0 .. Minute - 1 /\ Minute \in Nat \ {0} /\ Oldest = Minute + MaxLate
  /\ {GlobalRPM, IPRPM, Concurrency, IPConcurrency, MaxClients, BodyLimit, BodyBudget, KeyRPM} \subseteq Nat \ {0}
  /\ IPRPM * Minute \in Nat /\ GlobalRPM * Minute \in Nat
  /\ IPRPM * Minute >= Minute /\ GlobalRPM * Minute >= Minute
<1>1. \A k \in Nat \ {0} : k * Minute \in Nat /\ k * Minute >= Minute
  <2> TAKE k \in Nat \ {0}
  <2>1. Minute \in Nat /\ 1 * Minute = Minute
    BY AdmissionAssumption
  <2> QED
    BY <2>1, Products
<1>2. /\ GlobalRPM \in Nat \ {0} /\ IPRPM \in Nat \ {0} /\ Minute \in Nat \ {0} /\ MaxLate \in 0 .. Minute - 1
      /\ {GlobalRPM, IPRPM, Concurrency, IPConcurrency, MaxClients, BodyLimit, BodyBudget, KeyRPM} \subseteq Nat \ {0}
  BY AdmissionAssumption
<1>3. Oldest \in Nat /\ Oldest = Minute + MaxLate
  BY <1>2 DEF Oldest
<1>4. /\ IPRPM * Minute \in Nat /\ GlobalRPM * Minute \in Nat
      /\ IPRPM * Minute >= Minute /\ GlobalRPM * Minute >= Minute
  BY <1>1, <1>2
<1> QED
  BY <1>2, <1>3, <1>4

(***************************************************************************)
(* The buckets: refilling and taking leave one a bucket, and refilling     *)
(* makes no allowance that time has not made.                              *)
(***************************************************************************)
LEMMA RefillMakes ==
  ASSUME NEW rpm \in Nat \ {0}, NEW most \in Nat, NEW b \in Bucket(rpm, most), NEW late \in 0 .. MaxLate
  PROVE  /\ Refill(b, rpm, late) \in Bucket(rpm, most)
         /\ Refill(b, rpm, late).active = b.active
         /\ Refill(b, rpm, late).updated <= late
         /\ Refill(b, rpm, late).tokens + Refill(b, rpm, late).updated * rpm <= b.tokens + b.updated * rpm
<1> DEFINE top == rpm * Minute
<1>1. top \in Nat /\ Oldest \in Nat /\ late \in Nat /\ late <= Oldest /\ rpm \in Nat
  BY Products, Numbers
<1>2. b.tokens \in 0 .. top /\ b.updated \in 0 .. Oldest /\ b.active \in 0 .. most
  BY DEF Bucket
<1>3. b.updated * rpm \in Nat /\ late * rpm \in Nat
  BY <1>1, <1>2, Products
<1>4. CASE b.updated > late
  <2> DEFINE gain == (b.updated - late) * rpm
             tokens == Min({rpm * Minute, b.tokens + (b.updated - late) * rpm})
  <2>1. gain = b.updated * rpm - late * rpm /\ late * rpm <= b.updated * rpm
    BY <1>1, <1>2, <1>4, Products
  <2>2. tokens = IF top <= b.tokens + gain THEN top ELSE b.tokens + gain
    <3>1. gain \in Int
      BY <1>3, <2>1
    <3> HIDE DEF gain, top
    <3>2. Min({top, b.tokens + gain}) = IF top <= b.tokens + gain THEN top ELSE b.tokens + gain
      BY <1>1, <1>2, <3>1, MinOfTwo
    <3> QED
      BY <3>2 DEF gain, top
  <2>3. Refill(b, rpm, late) = [b EXCEPT !.tokens = tokens, !.updated = late]
    BY <1>4 DEF Refill
  <2> HIDE DEF gain, top, tokens
  <2>4. tokens \in 0 .. top /\ tokens + late * rpm <= b.tokens + b.updated * rpm
    BY <1>1, <1>2, <1>3, <2>1, <2>2
  <2>5. [b EXCEPT !.tokens = tokens, !.updated = late] \in Bucket(rpm, most)
    <3>1. Bucket(rpm, most) = [tokens : 0 .. top, updated : 0 .. Oldest, active : 0 .. most]
      BY DEF Bucket, top
    <3>2. late \in 0 .. Oldest
      BY <1>1
    <3>3. [b EXCEPT !.tokens = tokens, !.updated = late] = [tokens |-> tokens, updated |-> late, active |-> b.active]
      <4> DEFINE T == 0 .. top
                 U == 0 .. Oldest
                 A == 0 .. most
      <4>1. b \in [tokens : T, updated : U, active : A] /\ tokens \in T /\ late \in U /\ b.active \in A
        BY <1>2, <2>4, <3>1, <3>2
      <4> HIDE DEF T, U, A
      <4> DEFINE e == [b EXCEPT !.tokens = tokens]
      <4>2. e = [tokens |-> tokens, updated |-> b.updated, active |-> b.active]
        BY <4>1
      <4>3. [b EXCEPT !.tokens = tokens, !.updated = late] = [e EXCEPT !.updated = late]
        OBVIOUS
      <4> HIDE DEF e
      <4> QED
        BY <4>2, <4>3
    <3> QED
      BY <1>2, <2>4, <3>1, <3>2, <3>3
  <2> QED
    BY <1>1, <2>3, <2>4, <2>5 DEF Bucket
<1>5. CASE ~ (b.updated > late)
  <2>1. Refill(b, rpm, late) = b
    BY <1>5 DEF Refill
  <2> QED
    BY <1>1, <1>2, <1>3, <1>5, <2>1
<1> QED
  BY <1>4, <1>5

LEMMA TakeMakes ==
  ASSUME NEW rpm, NEW most \in Nat, NEW b \in Bucket(rpm, most), rpm * Minute \in Nat,
         b.tokens >= Minute, b.active < most
  PROVE  /\ Take(b) \in Bucket(rpm, most)
         /\ Take(b).active = b.active + 1 /\ Take(b).tokens = b.tokens - Minute /\ Take(b).updated = b.updated
<1> DEFINE top == rpm * Minute
<1>1. Minute \in Nat /\ top \in Nat /\ Bucket(rpm, most) = [tokens : 0 .. top, updated : 0 .. Oldest, active : 0 .. most]
  BY Numbers DEF Bucket
<1> HIDE DEF top
<1>2. b.tokens - Minute \in 0 .. top /\ b.active + 1 \in 0 .. most
  BY <1>1
<1>3. Take(b) = [tokens |-> b.tokens - Minute, updated |-> b.updated, active |-> b.active + 1]
  <2>1. Take(b) = [b EXCEPT !.tokens = b.tokens - Minute, !.active = b.active + 1]
    BY DEF Take
  <2> DEFINE T == 0 .. top
             U == 0 .. Oldest
             A == 0 .. most
  <2>2. b \in [tokens : T, updated : U, active : A] /\ b.tokens - Minute \in T /\ b.updated \in U /\ b.active + 1 \in A
    BY <1>1, <1>2
  <2> HIDE DEF T, U, A
  <2> QED
    BY <2>1, <2>2
<1> QED
  BY <1>1, <1>2, <1>3

(* A full table forgets idle addresses, and nothing else changes in it.    *)
LEMMA TableMakes ==
  ASSUME TypeOK, NEW c \in Clients, NEW late \in 0 .. MaxLate
  PROVE  /\ TableFor(c, late) \in [Clients -> Bucket(IPRPM, IPConcurrency) \cup {NoBucket}]
         /\ TableFor(c, late)[c] = clients[c]
         /\ \A d \in Clients :
               \/ TableFor(c, late)[d] = clients[d]
               \/ TableFor(c, late)[d] = NoBucket /\ clients[d] # NoBucket /\ Idle(clients[d], late)
<1> USE DEF TypeOK, TableFor
<1>1. CASE Cleans(c, late)
  BY <1>1 DEF Cleans, Known
<1>2. CASE ~ Cleans(c, late)
  BY <1>2
<1> QED
  BY <1>1, <1>2

(* Where a step leaves the request it is a step of.                        *)
Req == [at : Stages, client : Clients \cup {Nobody}, late : 0 .. MaxLate, length : Lengths \cup {-1}]

Moved(r, at, client, length) ==
    /\ request' \in [Requests -> Req]
    /\ \A q \in Requests \ {r} : request'[q] = request[q]
    /\ request'[r].at = at /\ request'[r].client = client /\ request'[r].length = length

LEMMA AwayTyped == Away \in Req /\ Away.at = "away" /\ Away.client = Nobody /\ Away.length = -1
BY AdmissionAssumption DEF Away, Req, Stages, NoLength

LEMMA ArriveMoves ==
  ASSUME TypeOK, NEW r \in Requests, NEW c \in Clients, Arrive(r, c)
  PROVE  Moved(r, "arriving", c, -1)
<1> DEFINE away == [at |-> "away", client |-> Nobody, late |-> 0, length |-> -1]
           arrived == [at |-> "arriving", client |-> c, late |-> 0, length |-> -1]
<1>1. request' = [request EXCEPT ![r] = arrived]
  <2> DEFINE e == [away EXCEPT !.at = "arriving"]
  <2>1. [away EXCEPT !.at = "arriving", !.client = c] = arrived
    <3>1. e = [at |-> "arriving", client |-> Nobody, late |-> 0, length |-> -1]
      OBVIOUS
    <3>2. [away EXCEPT !.at = "arriving", !.client = c] = [e EXCEPT !.client = c]
      OBVIOUS
    <3> HIDE DEF e
    <3> QED
      BY <3>1, <3>2
  <2> QED
    BY <2>1 DEF Arrive, Away, NoLength
<1>2. arrived \in Req
  BY AdmissionAssumption DEF Req, Stages
<1>3. request \in [Requests -> Req]
  BY DEF TypeOK, Req
<1> QED
  BY <1>1, <1>2, <1>3 DEF Moved

LEMMA StageMoves ==
  ASSUME TypeOK, NEW r \in Requests, NEW at \in Stages
  PROVE  /\ Goes(r, at) => Moved(r, at, request[r].client, request[r].length)
         /\ request' = [request EXCEPT ![r].at = at, ![r].late = 0] => Moved(r, at, request[r].client, request[r].length)
         /\ request' = [request EXCEPT ![r] = Away] => Moved(r, "away", Nobody, -1)
         /\ \A length \in Lengths \cup {-1} :
               request' = [request EXCEPT ![r].at = at, ![r].length = length] => Moved(r, at, request[r].client, length)
<1> DEFINE q == request[r]
           q1 == [at |-> at, client |-> q.client, late |-> q.late, length |-> q.length]
           q2 == [at |-> at, client |-> q.client, late |-> 0, length |-> q.length]
           q3(length) == [at |-> at, client |-> q.client, late |-> q.late, length |-> length]
<1>1. request \in [Requests -> Req] /\ q \in Req
  BY DEF TypeOK, Req
<1>2. q = [at |-> q.at, client |-> q.client, late |-> q.late, length |-> q.length]
  BY <1>1 DEF Req
<1> DEFINE e == [q EXCEPT !.at = at]
<1>e. e = q1
  BY <1>1 DEF Req
<1>3. q1 \in Req /\ q2 \in Req /\ \A length \in Lengths \cup {-1} : q3(length) \in Req
  BY <1>1, AdmissionAssumption DEF Req
<1>4. ASSUME Goes(r, at) PROVE Moved(r, at, q.client, q.length)
  <2>1. request' = [request EXCEPT ![r] = q1]
    <3>1. request' = [request EXCEPT ![r] = e]
      BY <1>4 DEF Goes
    <3> QED
      BY <1>e, <3>1
  <2> QED
    BY <1>1, <1>3, <2>1 DEF Moved
<1>5. ASSUME request' = [request EXCEPT ![r].at = at, ![r].late = 0] PROVE Moved(r, at, q.client, q.length)
  <2>1. request' = [request EXCEPT ![r] = q2]
    <3>1. request' = [request EXCEPT ![r] = [e EXCEPT !.late = 0]]
      BY <1>1, <1>5
    <3> HIDE DEF e
    <3>2. [e EXCEPT !.late = 0] = q2
      BY <1>e
    <3> QED
      BY <3>1, <3>2
  <2> QED
    BY <1>1, <1>3, <2>1 DEF Moved
<1>6. ASSUME request' = [request EXCEPT ![r] = Away] PROVE Moved(r, "away", Nobody, -1)
  BY <1>1, <1>6, AwayTyped DEF Moved
<1>7. ASSUME NEW length \in Lengths \cup {-1}, request' = [request EXCEPT ![r].at = at, ![r].length = length]
      PROVE  Moved(r, at, q.client, length)
  <2>1. request' = [request EXCEPT ![r] = q3(length)]
    <3>1. request' = [request EXCEPT ![r] = [e EXCEPT !.length = length]]
      BY <1>1, <1>7
    <3> HIDE DEF e
    <3>2. [e EXCEPT !.length = length] = q3(length)
      BY <1>e
    <3> QED
      BY <3>1, <3>2
  <2> QED
    BY <1>1, <1>3, <2>1 DEF Moved
<1> QED
  BY <1>4, <1>5, <1>6, <1>7

(***************************************************************************)
(* What is counted: one request moves at a time, and is counted once       *)
(* wherever it is.                                                         *)
(***************************************************************************)
One(p) == IF p THEN 1 ELSE 0

LEMMA MovedInside ==
  ASSUME TypeOK, NEW r \in Requests, NEW at, NEW client, NEW length, Moved(r, at, client, length)
  PROVE  /\ Cardinality(AllInside') - One(at \in Inside) = Cardinality(AllInside) - One(request[r].at \in Inside)
         /\ \A c \in Clients :
               /\ IsFiniteSet(InsideOf(c)) /\ IsFiniteSet(InsideOf(c)')
               /\ Cardinality(InsideOf(c)') - One(at \in Inside /\ client = c)
                    = Cardinality(InsideOf(c)) - One(request[r].at \in Inside /\ request[r].client = c)
<1>1. IsFiniteSet(AllInside) /\ \A c \in Clients : IsFiniteSet(InsideOf(c))
  BY FS_Subset, AdmissionAssumption DEF AllInside, InsideOf
<1>2. AllInside \ {r} = AllInside' \ {r} /\ (r \in AllInside <=> request[r].at \in Inside) /\ (r \in AllInside' <=> at \in Inside)
  BY DEF AllInside, Moved
<1>3. \A c \in Clients : /\ InsideOf(c) \ {r} = InsideOf(c)' \ {r}
                         /\ r \in InsideOf(c) <=> request[r].at \in Inside /\ request[r].client = c
                         /\ r \in InsideOf(c)' <=> at \in Inside /\ client = c
  BY DEF InsideOf, Moved
<1>4. Cardinality(AllInside') - One(at \in Inside) = Cardinality(AllInside) - One(request[r].at \in Inside)
  BY <1>1, <1>2, CardinalityExchanged DEF One
<1>5. ASSUME NEW c \in Clients
      PROVE  /\ IsFiniteSet(InsideOf(c)')
             /\ Cardinality(InsideOf(c)') - One(at \in Inside /\ client = c)
                    = Cardinality(InsideOf(c)) - One(request[r].at \in Inside /\ request[r].client = c)
  BY <1>1, <1>3, CardinalityExchanged DEF One
<1> QED
  BY <1>1, <1>4, <1>5

LEMMA LongestType == TypeOK => \A r \in Requests : Longest(r) \in Nat
BY AdmissionAssumption DEF TypeOK, Longest, NoLength

LEMMA MovedBodies ==
  ASSUME TypeOK, NEW r \in Requests, NEW at, NEW client, NEW length, Moved(r, at, client, length)
  PROVE  /\ IsFiniteSet(Bodies) /\ IsFiniteSet(Bodies')
         /\ Cardinality(Bodies') - One(at \in WithBody) = Cardinality(Bodies) - One(request[r].at \in WithBody)
         /\ SumFunctionOnSet([q \in Bodies' |-> Longest(q)'], Bodies') - (IF at \in WithBody THEN Longest(r)' ELSE 0)
              = SumFunctionOnSet([q \in Bodies |-> Longest(q)], Bodies) - (IF request[r].at \in WithBody THEN Longest(r) ELSE 0)
<1> DEFINE v == [q \in Bodies' |-> Longest(q)']
           w == [q \in Bodies |-> Longest(q)]
<1>1. IsFiniteSet(Bodies)
  BY FS_Subset, AdmissionAssumption DEF Bodies
<1>2. Bodies \ {r} = Bodies' \ {r} /\ (r \in Bodies <=> request[r].at \in WithBody) /\ (r \in Bodies' <=> at \in WithBody)
  BY DEF Bodies, Moved
<1>3. /\ \A q \in Bodies : w[q] \in Int /\ w[q] = Longest(q)
      /\ \A q \in Bodies' : v[q] \in Int /\ v[q] = Longest(q)'
      /\ \A q \in Bodies \ {r} : v[q] = w[q]
  <2>1. \A q \in Requests : Longest(q) \in Int
    BY LongestType
  <2>2. \A q \in Requests : Longest(q)' \in Int
    <3>1. \A q \in Requests : request'[q].length \in Lengths \cup {-1}
      BY DEF Moved, Req
    <3>2. BodyLimit \in Int /\ Lengths \cup {-1} \subseteq Int
      BY AdmissionAssumption
    <3> QED
      BY <3>1, <3>2 DEF Longest
  <2>3. \A q \in Requests \ {r} : Longest(q)' = Longest(q)
    BY DEF Moved, Longest
  <2>4. Bodies \subseteq Requests /\ Bodies' \subseteq Requests
    BY DEF Bodies
  <2> QED
    BY <1>2, <2>1, <2>2, <2>3, <2>4
<1> HIDE DEF v, w
<1>4. IsFiniteSet(Bodies') /\ Cardinality(Bodies') - One(at \in WithBody) = Cardinality(Bodies) - One(request[r].at \in WithBody)
  BY <1>1, <1>2, CardinalityExchanged DEF One
<1>5. SumFunctionOnSet(v, Bodies') - (IF r \in Bodies' THEN v[r] ELSE 0)
        = SumFunctionOnSet(w, Bodies) - (IF r \in Bodies THEN w[r] ELSE 0)
  <2>1. Bodies \ {r} = Bodies' \ {r} /\ \A q \in Bodies : w[q] \in Int
    BY <1>2, <1>3
  <2>2. \A q \in Bodies' : v[q] \in Int
    BY <1>3
  <2>3. \A q \in Bodies \ {r} : v[q] = w[q]
    BY <1>3
  <2> QED
    BY <1>1, <2>1, <2>2, <2>3, SumExchanged
<1>6. SumFunctionOnSet(v, Bodies') - (IF at \in WithBody THEN Longest(r)' ELSE 0)
        = SumFunctionOnSet(w, Bodies) - (IF request[r].at \in WithBody THEN Longest(r) ELSE 0)
  BY <1>2, <1>3, <1>5
<1> QED
  BY <1>1, <1>4, <1>6 DEF v, w

(***************************************************************************)
(* What the guard decides: a request is let in for a token of its address  *)
(* and one of all, or it is refused and nothing but refilled.              *)
(***************************************************************************)
OwnWorth(b) == b.tokens + b.updated * IPRPM

LetsIn(r) ==
    LET c == request[r].client
        table == TableFor(c, request[r].late)
    IN \E own \in Bucket(IPRPM, IPConcurrency) :
          /\ clients' = [table EXCEPT ![c] = own]
          /\ own.active = (IF clients[c] = NoBucket THEN 0 ELSE clients[c].active) + 1
          /\ global' \in Bucket(GlobalRPM, Concurrency) /\ global'.active = global.active + 1
          /\ OwnWorth(own) + Minute <= MostTokens
          /\ clients[c] # NoBucket => OwnWorth(own) + Minute <= OwnWorth(clients[c])
          /\ Moved(r, "entered", c, request[r].length)

Refuses(r) ==
    LET c == request[r].client
        table == TableFor(c, request[r].late)
    IN /\ \/ clients' = table
          \/ /\ clients[c] # NoBucket
             /\ \E own \in Bucket(IPRPM, IPConcurrency) :
                  /\ clients' = [table EXCEPT ![c] = own]
                  /\ own.active = clients[c].active
                  /\ OwnWorth(own) <= OwnWorth(clients[c])
       /\ global' \in Bucket(GlobalRPM, Concurrency) /\ global'.active = global.active
       /\ Moved(r, "away", Nobody, -1)

LEMMA AcquireDecides ==
  ASSUME TypeOK, Guarded, NEW r \in Requests, Acquire(r)
  PROVE  /\ At(r, "arriving") /\ request[r].client \in Clients /\ request[r].late \in 0 .. MaxLate
         /\ cleaned' \in 0 .. Oldest
         /\ LetsIn(r) \/ Refuses(r)
<1> DEFINE c == request[r].client
           late == request[r].late
           table == TableFor(c, late)
           known == table[c] # NoBucket
           room == known \/ Cardinality(Known(table)) < MaxClients
           base == IF known THEN table[c] ELSE NewBucket(late)
           own == Refill(base, IPRPM, late)
           all == Refill(global, GlobalRPM, late)
           admits == /\ room
                     /\ own.tokens >= Minute /\ all.tokens >= Minute
                     /\ own.active < IPConcurrency /\ all.active < Concurrency
<1>1. /\ At(r, "arriving")
      /\ cleaned' = IF Cleans(c, late) THEN late ELSE cleaned
      /\ \/ /\ admits
            /\ clients' = [table EXCEPT ![c] = Take(own)]
            /\ global' = Take(all)
            /\ request' = [request EXCEPT ![r].at = "entered", ![r].late = 0]
         \/ /\ ~ admits
            /\ clients' = IF known THEN [table EXCEPT ![c] = own] ELSE table
            /\ global' = IF room THEN all ELSE global
            /\ request' = [request EXCEPT ![r] = Away]
  BY Zenon DEF Acquire
<1>2. c \in Clients /\ late \in 0 .. MaxLate
  BY <1>1 DEF Guarded, At, TypeOK
<1>3. cleaned' \in 0 .. Oldest
  BY <1>1, <1>2, Numbers DEF TypeOK
<1>4. /\ table \in [Clients -> Bucket(IPRPM, IPConcurrency) \cup {NoBucket}] /\ table[c] = clients[c]
  BY <1>2, TableMakes
<1> HIDE DEF table
<1>5. /\ NewBucket(late) \in Bucket(IPRPM, IPConcurrency) /\ NewBucket(late).active = 0
      /\ OwnWorth(NewBucket(late)) <= MostTokens
  <2> DEFINE top == IPRPM * Minute
  <2>1. top \in Nat /\ late \in 0 .. Oldest /\ late \in Nat /\ IPConcurrency \in Nat
    BY <1>2, Numbers
  <2>2. NewBucket(late) = [tokens |-> top, updated |-> late, active |-> 0]
    BY DEF NewBucket
  <2>3. Bucket(IPRPM, IPConcurrency) = [tokens : 0 .. top, updated : 0 .. Oldest, active : 0 .. IPConcurrency]
    BY DEF Bucket
  <2>4. (Minute + MaxLate) * IPRPM = Minute * IPRPM + MaxLate * IPRPM /\ late * IPRPM <= MaxLate * IPRPM
    BY <1>2, Numbers, Products
  <2>5. Minute * IPRPM = top
    BY Numbers
  <2>6. late * IPRPM \in Nat /\ MaxLate * IPRPM \in Nat
    BY <1>2, Numbers, Products
  <2> HIDE DEF top
  <2> QED
    BY <2>1, <2>2, <2>3, <2>4, <2>5, <2>6 DEF OwnWorth, MostTokens
<1>6. /\ base \in Bucket(IPRPM, IPConcurrency)
      /\ base.active = IF clients[c] = NoBucket THEN 0 ELSE clients[c].active
      /\ clients[c] # NoBucket => base = clients[c]
  BY <1>2, <1>4, <1>5
<1> HIDE DEF base
<1>7. /\ own \in Bucket(IPRPM, IPConcurrency) /\ own.active = base.active /\ own.updated <= late
      /\ OwnWorth(own) <= OwnWorth(base)
  BY <1>2, <1>6, RefillMakes, Numbers DEF OwnWorth
<1>8. all \in Bucket(GlobalRPM, Concurrency) /\ all.active = global.active
  BY <1>2, RefillMakes, Numbers DEF TypeOK
<1> HIDE DEF own, all
<1>9. CASE /\ admits
           /\ clients' = [table EXCEPT ![c] = Take(own)]
           /\ global' = Take(all)
           /\ request' = [request EXCEPT ![r].at = "entered", ![r].late = 0]
  <2>1. /\ Take(own) \in Bucket(IPRPM, IPConcurrency)
        /\ Take(own).active = own.active + 1 /\ Take(own).tokens = own.tokens - Minute /\ Take(own).updated = own.updated
    BY <1>7, <1>9, TakeMakes, Numbers
  <2>2. Take(all) \in Bucket(GlobalRPM, Concurrency) /\ Take(all).active = all.active + 1
    BY <1>8, <1>9, TakeMakes, Numbers
  <2>3. Moved(r, "entered", c, request[r].length)
    BY <1>9, StageMoves DEF Stages, Inside
  <2>4. /\ own.tokens \in 0 .. IPRPM * Minute /\ own.updated \in 0 .. Oldest
        /\ base.tokens \in 0 .. IPRPM * Minute /\ base.updated \in 0 .. Oldest
    BY <1>6, <1>7 DEF Bucket
  <2>5. OwnWorth(Take(own)) + Minute = OwnWorth(own) /\ OwnWorth(own) \in Nat /\ OwnWorth(base) \in Nat
    <3>1. own.updated * IPRPM \in Nat /\ base.updated * IPRPM \in Nat
      BY <2>4, Numbers, Products
    <3>2. own.tokens \in Nat /\ base.tokens \in Nat /\ Minute \in Nat
      BY <2>4, Numbers
    <3> QED
      BY <2>1, <3>1, <3>2 DEF OwnWorth
  <2>6. OwnWorth(own) <= MostTokens
    <3>1. own.updated * IPRPM <= MaxLate * IPRPM /\ MaxLate * IPRPM \in Nat
      BY <1>2, <1>7, <2>4, Numbers, Products
    <3>2. MostTokens = IPRPM * Minute + MaxLate * IPRPM
      <4>1. (Minute + MaxLate) * IPRPM = Minute * IPRPM + MaxLate * IPRPM
        BY Numbers, Products
      <4>2. Minute * IPRPM = IPRPM * Minute
        BY Numbers
      <4> QED
        BY <4>1, <4>2 DEF MostTokens
    <3>3. own.updated * IPRPM \in Nat
      BY <2>4, Numbers, Products
    <3>4. own.tokens \in Nat /\ own.tokens <= IPRPM * Minute /\ IPRPM * Minute \in Nat
      BY <2>4, Numbers
    <3> QED
      BY <3>1, <3>2, <3>3, <3>4 DEF OwnWorth
  <2>7. clients[c] # NoBucket => OwnWorth(own) <= OwnWorth(clients[c])
    BY <1>6, <1>7
  <2>8. LetsIn(r)
    <3>1. Take(own).active = (IF clients[c] = NoBucket THEN 0 ELSE clients[c].active) + 1
      BY <1>6, <1>7, <2>1
    <3>2. global' \in Bucket(GlobalRPM, Concurrency) /\ global'.active = global.active + 1
      BY <1>8, <1>9, <2>2
    <3>3. clients' = [table EXCEPT ![c] = Take(own)]
      BY <1>9
    <3>4. OwnWorth(Take(own)) + Minute <= MostTokens /\ (clients[c] # NoBucket => OwnWorth(Take(own)) + Minute <= OwnWorth(clients[c]))
      BY <2>5, <2>6, <2>7
    <3> QED
      BY <2>1, <2>3, <3>1, <3>2, <3>3, <3>4 DEF LetsIn, table
  <2> QED
    BY <1>1, <1>2, <1>3, <2>8
<1>10. CASE /\ ~ admits
            /\ clients' = IF known THEN [table EXCEPT ![c] = own] ELSE table
            /\ global' = IF room THEN all ELSE global
            /\ request' = [request EXCEPT ![r] = Away]
  <2>1. Moved(r, "away", Nobody, -1)
    BY <1>10, StageMoves DEF Stages
  <2>2. global' \in Bucket(GlobalRPM, Concurrency) /\ global'.active = global.active
    BY <1>8, <1>10 DEF TypeOK
  <2>3. ASSUME known PROVE Refuses(r)
    <3>1. clients' = [table EXCEPT ![c] = own] /\ clients[c] # NoBucket
      BY <1>4, <1>10, <2>3
    <3>2. own.active = clients[c].active /\ OwnWorth(own) <= OwnWorth(clients[c])
      BY <1>6, <1>7, <3>1
    <3> QED
      BY <1>7, <2>1, <2>2, <3>1, <3>2 DEF Refuses, table
  <2>4. ASSUME ~ known PROVE Refuses(r)
    BY <1>10, <2>1, <2>2, <2>4 DEF Refuses, table
  <2> QED
    BY <1>1, <1>2, <1>3, <2>3, <2>4
<1> QED
  BY <1>1, <1>9, <1>10

(* Only who has nobody inside is forgotten.                                *)
LEMMA ForgetsIdle ==
  ASSUME TypeOK, Guarded, NEW c \in Clients, NEW late \in 0 .. MaxLate
  PROVE  \A d \in Clients : IF TableFor(c, late)[d] = NoBucket THEN InsideOf(d) = {}
                            ELSE TableFor(c, late)[d].active = Cardinality(InsideOf(d))
<1> SUFFICES ASSUME NEW d \in Clients
             PROVE  IF TableFor(c, late)[d] = NoBucket THEN InsideOf(d) = {}
                    ELSE TableFor(c, late)[d].active = Cardinality(InsideOf(d))
  OBVIOUS
<1>1. CASE TableFor(c, late)[d] = clients[d]
  BY <1>1 DEF Guarded
<1>2. CASE TableFor(c, late)[d] = NoBucket /\ clients[d] # NoBucket /\ Idle(clients[d], late)
  <2>1. Cardinality(InsideOf(d)) = 0
    BY <1>2 DEF Guarded, Idle
  <2>2. IsFiniteSet(InsideOf(d))
    BY FS_Subset, AdmissionAssumption DEF InsideOf
  <2> QED
    BY <1>2, <2>1, <2>2, FS_EmptySet
<1> QED
  BY <1>1, <1>2, TableMakes

LEMMA LetsInKeeps ==
  ASSUME TypeOK, Guarded, NEW r \in Requests, At(r, "arriving"), request[r].client \in Clients,
         request[r].late \in 0 .. MaxLate, LetsIn(r)
  PROVE  clients' \in [Clients -> Bucket(IPRPM, IPConcurrency) \cup {NoBucket}] /\ Guarded'
<1>1. PICK c, late : c = request[r].client /\ late = request[r].late
  OBVIOUS
<1> DEFINE table == TableFor(c, late)
<1>2. PICK own \in Bucket(IPRPM, IPConcurrency) :
          /\ clients' = [table EXCEPT ![c] = own]
          /\ own.active = (IF clients[c] = NoBucket THEN 0 ELSE clients[c].active) + 1
  BY <1>1 DEF LetsIn
<1>3. global'.active = global.active + 1 /\ Moved(r, "entered", c, request[r].length)
  BY <1>1 DEF LetsIn
<1>4. table \in [Clients -> Bucket(IPRPM, IPConcurrency) \cup {NoBucket}] /\ table[c] = clients[c]
  BY <1>1, TableMakes
<1>5. \A d \in Clients : IF table[d] = NoBucket THEN InsideOf(d) = {} ELSE table[d].active = Cardinality(InsideOf(d))
  BY <1>1, ForgetsIdle
<1> HIDE DEF table
<1>6. clients'[c] = own /\ clients'[c] # NoBucket /\ \A d \in Clients \ {c} : clients'[d] = table[d]
  BY <1>1, <1>2, <1>4, BucketAssumption
<1>7. request[r].at \notin Inside /\ "entered" \in Inside
  BY DEF At, Inside
<1>8. Cardinality(AllInside') - 1 = Cardinality(AllInside) /\ Cardinality(AllInside') \in Int
  <2>1. Cardinality(AllInside') - One("entered" \in Inside) = Cardinality(AllInside) - One(request[r].at \in Inside)
    BY <1>3, MovedInside
  <2>2. IsFiniteSet(AllInside) /\ IsFiniteSet(AllInside')
    BY FS_Subset, AdmissionAssumption DEF AllInside
  <2>3. Cardinality(AllInside') \in Int /\ Cardinality(AllInside) \in Int
    BY <2>2, FS_CardinalityType
  <2> QED
    BY <1>7, <2>1, <2>3 DEF One
<1>9. \A d \in Clients : /\ Cardinality(InsideOf(d)') = Cardinality(InsideOf(d)) + One(d = c)
                         /\ IsFiniteSet(InsideOf(d)') /\ IsFiniteSet(InsideOf(d)) /\ Cardinality(InsideOf(d)') \in Nat
  <2> TAKE d \in Clients
  <2>1. /\ IsFiniteSet(InsideOf(d)) /\ IsFiniteSet(InsideOf(d)')
        /\ Cardinality(InsideOf(d)') - One("entered" \in Inside /\ c = d)
                    = Cardinality(InsideOf(d)) - One(request[r].at \in Inside /\ request[r].client = d)
    BY <1>3, MovedInside
  <2>2. Cardinality(InsideOf(d)) \in Nat /\ Cardinality(InsideOf(d)') \in Nat
    BY <2>1, FS_CardinalityType
  <2> QED
    BY <1>7, <2>1, <2>2 DEF One
<1>10. \A d \in Clients : IF clients'[d] = NoBucket THEN InsideOf(d)' = {} ELSE clients'[d].active = Cardinality(InsideOf(d)')
  <2> TAKE d \in Clients
  <2>1. CASE d = c
    <3>1. Cardinality(InsideOf(c)) = IF clients[c] = NoBucket THEN 0 ELSE clients[c].active
      BY <1>1, <1>4, <1>5, FS_EmptySet
    <3> QED
      BY <1>1, <1>2, <1>6, <1>9, <2>1, <3>1 DEF One
  <2>2. CASE d # c
    <3>1. Cardinality(InsideOf(d)') = Cardinality(InsideOf(d)) /\ clients'[d] = table[d]
      BY <1>6, <1>9, <2>2, FS_CardinalityType DEF One
    <3> QED
      BY <1>5, <1>9, <3>1, FS_EmptySet
  <2> QED
    BY <2>1, <2>2
<1>11. \A q \in Requests : request'[q].at \in Inside \cup {"arriving"} => request'[q].client \in Clients
  BY <1>1, <1>3 DEF Moved, Guarded
<1>12. global'.active = Cardinality(AllInside')
  BY <1>3, <1>8 DEF Guarded
<1> QED
  BY <1>2, <1>4, <1>10, <1>11, <1>12 DEF Guarded

(* A request that neither comes in nor goes out changes no counter.        *)
LEMMA SameInside ==
  ASSUME TypeOK, Guarded, NEW r \in Requests, NEW at, NEW client, NEW length, Moved(r, at, client, length),
         at \in Inside <=> request[r].at \in Inside, at \in Inside => client = request[r].client,
         at = "arriving" => client \in Clients, global'.active = global.active,
         \A d \in Clients : IF clients'[d] = NoBucket THEN InsideOf(d) = {} ELSE clients'[d].active = Cardinality(InsideOf(d))
  PROVE  Guarded'
<1>1. AllInside' = AllInside /\ \A d \in Clients : InsideOf(d)' = InsideOf(d)
  BY DEF AllInside, InsideOf, Moved
<1>2. \A q \in Requests : request'[q].at \in Inside \cup {"arriving"} => request'[q].client \in Clients
  BY DEF Moved, Guarded
<1> QED
  BY <1>1, <1>2 DEF Guarded

LEMMA RefusesKeeps ==
  ASSUME TypeOK, Guarded, NEW r \in Requests, At(r, "arriving"), request[r].client \in Clients,
         request[r].late \in 0 .. MaxLate, Refuses(r)
  PROVE  clients' \in [Clients -> Bucket(IPRPM, IPConcurrency) \cup {NoBucket}] /\ Guarded'
<1>1. PICK c, late : c = request[r].client /\ late = request[r].late
  OBVIOUS
<1> DEFINE table == TableFor(c, late)
<1>2. \/ clients' = table
      \/ /\ clients[c] # NoBucket
         /\ \E own \in Bucket(IPRPM, IPConcurrency) : clients' = [table EXCEPT ![c] = own] /\ own.active = clients[c].active
  BY <1>1 DEF Refuses
<1>3. global'.active = global.active /\ Moved(r, "away", Nobody, -1)
  BY DEF Refuses
<1>4. table \in [Clients -> Bucket(IPRPM, IPConcurrency) \cup {NoBucket}] /\ table[c] = clients[c]
  BY <1>1, TableMakes
<1>5. \A d \in Clients : IF table[d] = NoBucket THEN InsideOf(d) = {} ELSE table[d].active = Cardinality(InsideOf(d))
  BY <1>1, ForgetsIdle
<1> HIDE DEF table
<1>6. \A d \in Clients : IF clients'[d] = NoBucket THEN InsideOf(d) = {} ELSE clients'[d].active = Cardinality(InsideOf(d))
  BY <1>2, <1>4, <1>5, BucketAssumption
<1>7. request[r].at \notin Inside /\ "away" \notin Inside
  BY DEF At, Inside
<1>8. Guarded'
  BY <1>3, <1>6, <1>7, SameInside
<1> QED
  BY <1>2, <1>4, <1>8

LEMMA ReleaseKeeps ==
  ASSUME TypeOK, Guarded, NEW r \in Requests, ReleaseIngress(r)
  PROVE  /\ clients' \in [Clients -> Bucket(IPRPM, IPConcurrency) \cup {NoBucket}]
         /\ global' \in Bucket(GlobalRPM, Concurrency) /\ Guarded' /\ Moved(r, "away", Nobody, -1)
         /\ request[r].client \in Clients /\ clients[request[r].client] # NoBucket
         /\ \A d \in Clients : clients'[d] # NoBucket => OwnWorth(clients'[d]) = OwnWorth(clients[d])
         /\ \A d \in Clients : clients'[d] = NoBucket <=> clients[d] = NoBucket
<1>1. PICK c : c = request[r].client
  OBVIOUS
<1>2. /\ request[r].at = "leaving" /\ clients' = [clients EXCEPT ![c].active = @ - 1]
      /\ global' = [global EXCEPT !.active = @ - 1]
      /\ Moved(r, "away", Nobody, -1) /\ UNCHANGED <<cleaned, budget, window, let>>
  BY <1>1, StageMoves DEF ReleaseIngress, At, Stages
<1>3. "leaving" \in Inside /\ "away" \notin Inside
  BY DEF Inside
<1>4. c \in Clients /\ r \in InsideOf(c) /\ r \in AllInside
  BY <1>1, <1>2, <1>3 DEF Guarded, InsideOf, AllInside
<1>5. /\ IsFiniteSet(AllInside) /\ IsFiniteSet(AllInside') /\ Cardinality(AllInside) \in Nat /\ Cardinality(AllInside') \in Nat
      /\ \A d \in Clients : /\ IsFiniteSet(InsideOf(d)) /\ IsFiniteSet(InsideOf(d)')
                            /\ Cardinality(InsideOf(d)) \in Nat /\ Cardinality(InsideOf(d)') \in Nat
  <2>1. IsFiniteSet(AllInside) /\ IsFiniteSet(AllInside')
    BY FS_Subset, AdmissionAssumption DEF AllInside
  <2>2. \A d \in Clients : IsFiniteSet(InsideOf(d)) /\ IsFiniteSet(InsideOf(d)')
    BY FS_Subset, AdmissionAssumption DEF InsideOf
  <2> QED
    BY <2>1, <2>2, FS_CardinalityType
<1>6. Cardinality(AllInside') = Cardinality(AllInside) - 1
  <2>1. Cardinality(AllInside') - One("away" \in Inside) = Cardinality(AllInside) - One(request[r].at \in Inside)
    BY <1>2, MovedInside
  <2> QED
    BY <1>2, <1>3, <1>5, <2>1 DEF One
<1>7. \A d \in Clients : Cardinality(InsideOf(d)') = Cardinality(InsideOf(d)) - One(d = c)
  <2> TAKE d \in Clients
  <2>1. Cardinality(InsideOf(d)') - One("away" \in Inside /\ Nobody = d)
                    = Cardinality(InsideOf(d)) - One(request[r].at \in Inside /\ request[r].client = d)
    BY <1>2, MovedInside
  <2> QED
    BY <1>1, <1>2, <1>3, <1>5, <2>1 DEF One
<1>8. clients[c] # NoBucket /\ clients[c] \in Bucket(IPRPM, IPConcurrency) /\ clients[c].active = Cardinality(InsideOf(c))
  BY <1>4 DEF Guarded, TypeOK
<1>9. /\ clients'[c] = [clients[c] EXCEPT !.active = @ - 1] /\ \A d \in Clients \ {c} : clients'[d] = clients[d]
      /\ DOMAIN clients' = Clients
  BY <1>2, <1>4 DEF TypeOK
<1>10. clients[c].active - 1 \in 0 .. IPConcurrency /\ global.active - 1 \in 0 .. Concurrency
  <2>1. Cardinality(InsideOf(c)') \in Nat /\ Cardinality(AllInside') \in Nat /\ One(c = c) = 1
    BY <1>4, <1>5 DEF One
  <2>2. clients[c].active \in 0 .. IPConcurrency /\ global.active \in 0 .. Concurrency /\ IPConcurrency \in Nat /\ Concurrency \in Nat
    BY <1>8, Numbers DEF Bucket, TypeOK
  <2>3. global.active = Cardinality(AllInside)
    BY DEF Guarded
  <2> QED
    BY <1>4, <1>6, <1>7, <1>8, <2>1, <2>2, <2>3
<1>11. /\ clients'[c] = [tokens |-> clients[c].tokens, updated |-> clients[c].updated, active |-> clients[c].active - 1]
       /\ clients'[c] \in Bucket(IPRPM, IPConcurrency)
  BY <1>8, <1>9, <1>10 DEF Bucket
<1>12. global' \in Bucket(GlobalRPM, Concurrency) /\ global'.active = global.active - 1
  BY <1>2, <1>10 DEF Bucket, TypeOK
<1>13. clients'[c] # NoBucket
  BY <1>11, BucketAssumption
<1>14. clients' \in [Clients -> Bucket(IPRPM, IPConcurrency) \cup {NoBucket}]
  <2>1. clients' = [clients EXCEPT ![c] = clients'[c]]
    BY <1>2, <1>4, <1>9 DEF TypeOK
  <2> QED
    BY <1>11, <2>1 DEF TypeOK
<1>15. \A d \in Clients : IF clients'[d] = NoBucket THEN InsideOf(d)' = {} ELSE clients'[d].active = Cardinality(InsideOf(d)')
  <2> TAKE d \in Clients
  <2>1. CASE d = c
    BY <1>7, <1>8, <1>11, <1>13, <2>1 DEF One
  <2>2. CASE d # c
    <3>1. Cardinality(InsideOf(d)') = Cardinality(InsideOf(d)) /\ clients'[d] = clients[d]
      BY <1>5, <1>7, <1>9, <2>2 DEF One
    <3> QED
      BY <1>5, <3>1, FS_EmptySet DEF Guarded
  <2> QED
    BY <2>1, <2>2
<1>16. \A q \in Requests : request'[q].at \in Inside \cup {"arriving"} => request'[q].client \in Clients
  BY <1>2, <1>3 DEF Moved, Guarded
<1>17. Guarded'
  BY <1>6, <1>12, <1>15, <1>16 DEF Guarded
<1>18. \A d \in Clients : clients'[d] # NoBucket => OwnWorth(clients'[d]) = OwnWorth(clients[d])
  BY <1>9, <1>11 DEF OwnWorth
<1> QED
  BY <1>1, <1>2, <1>4, <1>8, <1>9, <1>12, <1>13, <1>14, <1>17, <1>18

(***************************************************************************)
(* The budget for bodies.                                                  *)
(***************************************************************************)
LEMMA CountsLongest ==
  ASSUME NEW length \in Lengths \cup {-1}
  PROVE  Counted(length) = (IF length = NoLength THEN BodyLimit ELSE length) /\ Counted(length) \in Nat
BY AdmissionAssumption DEF Counted, NoLength

LEMMA SameBodies ==
  ASSUME TypeOK, Budgeted, NEW r \in Requests, NEW at, NEW client, NEW length, Moved(r, at, client, length),
         at \in WithBody <=> request[r].at \in WithBody, at \in WithBody => length = request[r].length, budget' = budget
  PROVE  Budgeted'
<1>1. Bodies' = Bodies /\ \A q \in Bodies : request'[q].length = request[q].length
  BY DEF Bodies, Moved
<1>2. \A q \in Bodies : Longest(q)' = Longest(q)
  BY <1>1 DEF Longest
<1>3. [q \in Bodies' |-> Longest(q)'] = [q \in Bodies |-> Longest(q)]
  BY <1>1, <1>2
<1> QED
  BY <1>1, <1>3 DEF Budgeted

LEMMA TakesBody ==
  ASSUME TypeOK, Budgeted, NEW r \in Requests, NEW length \in Lengths \cup {-1}, NEW stage \in WithBody,
         request[r].at \notin WithBody, TakeBody(r, length, stage)
  PROVE  /\ budget' \in [active : 0 .. Concurrency, bytes : 0 .. BodyBudget]
         /\ Budgeted' /\ Moved(r, stage, request[r].client, length)
<1>1. /\ BodyFits(length) /\ budget' = [active |-> budget.active + 1, bytes |-> budget.bytes + Counted(length)]
      /\ Moved(r, stage, request[r].client, length)
  BY StageMoves DEF TakeBody, Stages
<1>2. Longest(r)' = Counted(length) /\ Counted(length) \in Nat
  BY <1>1, CountsLongest DEF Longest, Moved
<1>3. budget.active \in 0 .. Concurrency /\ budget.bytes \in 0 .. BodyBudget /\ Concurrency \in Nat /\ BodyBudget \in Nat
  BY Numbers DEF TypeOK
<1>4. budget' \in [active : 0 .. Concurrency, bytes : 0 .. BodyBudget]
  BY <1>1, <1>2, <1>3 DEF BodyFits
<1> DEFINE v == SumFunctionOnSet([q \in Bodies' |-> Longest(q)'], Bodies')
           w == SumFunctionOnSet([q \in Bodies |-> Longest(q)], Bodies)
<1>5. /\ Cardinality(Bodies') - One(stage \in WithBody) = Cardinality(Bodies) - One(request[r].at \in WithBody)
      /\ v - (IF stage \in WithBody THEN Longest(r)' ELSE 0) = w - (IF request[r].at \in WithBody THEN Longest(r) ELSE 0)
      /\ IsFiniteSet(Bodies')
  BY <1>1, MovedBodies
<1>6. Cardinality(Bodies) = budget.active /\ w = budget.bytes
  BY DEF Budgeted
<1>7. v \in Int /\ Cardinality(Bodies') \in Int
  <2>1. \A q \in Bodies' : [x \in Bodies' |-> Longest(x)'][q] \in Int
    <3>1. \A q \in Requests : request'[q].length \in Lengths \cup {-1}
      BY <1>1 DEF Moved, Req
    <3>2. BodyLimit \in Int /\ Lengths \cup {-1} \subseteq Int
      BY AdmissionAssumption
    <3> QED
      BY <3>1, <3>2 DEF Longest, Bodies
  <2> QED
    BY <1>5, <2>1, SumType, FS_CardinalityType
<1> HIDE DEF v, w
<1>8. budget'.active = Cardinality(Bodies') /\ budget'.bytes = v
  BY <1>1, <1>2, <1>3, <1>5, <1>6, <1>7 DEF One
<1>9. \A q \in Bodies' : request'[q].length <= BodyLimit
  BY <1>1 DEF Bodies, Budgeted, BodyFits, Moved
<1> QED
  BY <1>1, <1>4, <1>8, <1>9 DEF Budgeted, v

LEMMA ReleasesBody ==
  ASSUME TypeOK, Budgeted, NEW r \in Requests, NEW at, NEW client, NEW length, at \notin WithBody,
         request[r].at \in WithBody, ReleaseBody(r), Moved(r, at, client, length)
  PROVE  budget' \in [active : 0 .. Concurrency, bytes : 0 .. BodyBudget] /\ Budgeted'
<1>1. budget' = [active |-> budget.active - 1, bytes |-> budget.bytes - Counted(request[r].length)]
  BY DEF ReleaseBody
<1>2. Longest(r) = Counted(request[r].length) /\ Counted(request[r].length) \in Nat
  <2>1. request[r].length \in Lengths \cup {-1}
    BY DEF TypeOK
  <2> QED
    BY <2>1, CountsLongest DEF Longest
<1>3. budget.active \in 0 .. Concurrency /\ budget.bytes \in 0 .. BodyBudget /\ Concurrency \in Nat /\ BodyBudget \in Nat
  BY Numbers DEF TypeOK
<1> DEFINE v == SumFunctionOnSet([q \in Bodies' |-> Longest(q)'], Bodies')
           w == SumFunctionOnSet([q \in Bodies |-> Longest(q)], Bodies)
<1>5. /\ Cardinality(Bodies') - One(at \in WithBody) = Cardinality(Bodies) - One(request[r].at \in WithBody)
      /\ v - (IF at \in WithBody THEN Longest(r)' ELSE 0) = w - (IF request[r].at \in WithBody THEN Longest(r) ELSE 0)
      /\ IsFiniteSet(Bodies')
  BY MovedBodies
<1>6. Cardinality(Bodies) = budget.active /\ w = budget.bytes
  BY DEF Budgeted
<1>7. v \in Nat /\ Cardinality(Bodies') \in Nat
  <2>1. \A q \in Bodies' : [x \in Bodies' |-> Longest(x)'][q] \in Nat
    <3>1. \A q \in Requests : request'[q].length \in Lengths \cup {-1}
      BY DEF Moved, Req
    <3>2. BodyLimit \in Nat /\ Lengths \subseteq Nat \cup {-1}
      BY AdmissionAssumption
    <3> QED
      BY <3>1, <3>2 DEF Longest, NoLength, Bodies
  <2> QED
    BY <1>5, <2>1, SumNat, FS_CardinalityType
<1> HIDE DEF v, w
<1>8. budget'.active = Cardinality(Bodies') /\ budget'.bytes = v
  BY <1>1, <1>2, <1>3, <1>5, <1>6, <1>7 DEF One
<1>4. budget' \in [active : 0 .. Concurrency, bytes : 0 .. BodyBudget]
  BY <1>1, <1>2, <1>3, <1>7, <1>8
<1>9. \A q \in Bodies' : request'[q].length <= BodyLimit
  BY DEF Bodies, Budgeted, Moved
<1> QED
  BY <1>4, <1>8, <1>9 DEF Budgeted, v

(***************************************************************************)
(* The rate of the key.  A hit that is let through counts in the current   *)
(* window; a tick makes all of them older.                                 *)
(***************************************************************************)
LEMMA RecentAges ==
  ASSUME TypeOK
  PROVE  /\ 0 \in Recent /\ Recent \subseteq Nat /\ IsFiniteSet(Recent)
         /\ \A age \in Recent : age + MaxLate <= Minute /\ let[age] \in Nat
         /\ \A age \in Recent \ {0} : age - 1 \in Recent
         /\ Younger \subseteq Recent /\ IsFiniteSet(Younger)
         /\ window.starts \in 0 .. Oldest + 1 /\ window.hits \in 0 .. KeyRPM + 1
         /\ Minute \in Nat /\ MaxLate \in Nat /\ Oldest \in Nat /\ KeyRPM \in Nat \ {0} /\ Oldest = Minute + MaxLate
<1>1. Minute \in Nat /\ MaxLate \in Nat /\ Oldest \in Nat /\ KeyRPM \in Nat \ {0} /\ Oldest = Minute + MaxLate /\ MaxLate <= Minute - 1
  BY Numbers
<1>2. /\ 0 \in Recent /\ Recent \subseteq Nat /\ \A age \in Recent : age + MaxLate <= Minute
      /\ \A age \in Recent \ {0} : age - 1 \in Recent
  BY <1>1 DEF Recent
<1>3. IsFiniteSet(Recent)
  BY <1>1, FS_Interval DEF Recent
<1>4. Younger \subseteq Recent /\ IsFiniteSet(Younger)
  BY <1>3, FS_Subset DEF Younger
<1>5. (\A age \in Recent : let[age] \in Nat) /\ window.starts \in 0 .. Oldest + 1 /\ window.hits \in 0 .. KeyRPM + 1
  BY DEF TypeOK
<1> QED
  BY <1>1, <1>2, <1>3, <1>4, <1>5

LEMMA SumsOfHits ==
  ASSUME TypeOK
  PROVE  \A S \in SUBSET Recent : IsFiniteSet(S) /\ SumFunctionOnSet(let, S) \in Nat
<1> TAKE S \in SUBSET Recent
<1>1. IsFiniteSet(S) /\ \A age \in S : let[age] \in Nat
  BY RecentAges, FS_Subset
<1> QED
  BY <1>1, SumNat

LetsThrough == let' = [let EXCEPT ![0] = @ + 1]

LEMMA HitAdds ==
  ASSUME TypeOK, LetsThrough, NEW S \in SUBSET Recent
  PROVE  SumFunctionOnSet(let', S) = SumFunctionOnSet(let, S) + One(0 \in S)
<1>1. IsFiniteSet(S) /\ 0 \in Recent
  BY SumsOfHits, RecentAges
<1>2. \A age \in S : let[age] \in Int
  BY RecentAges
<1>3. let[0] \in Int
  BY RecentAges
<1>4. let'[0] = let[0] + 1
  BY <1>1 DEF TypeOK, LetsThrough
<1>5. \A age \in S \ {0} : let'[age] = let[age]
  BY DEF TypeOK, LetsThrough
<1>6. \A v, w, x : /\ w[x] \in Int /\ v[x] = w[x] + 1
                   /\ \A y \in S : w[y] \in Int
                   /\ \A y \in S \ {x} : v[y] = w[y]
                   => SumFunctionOnSet(v, S) = SumFunctionOnSet(w, S) + (IF x \in S THEN 1 ELSE 0)
  BY <1>1, SumRaised
<1> QED
  BY <1>2, <1>3, <1>4, <1>5, <1>6 DEF One

LEMMA TickShifts ==
  ASSUME TypeOK, let' = [age \in Recent |-> IF age = 0 THEN 0 ELSE let[age - 1]],
         NEW S \in SUBSET Recent, NEW T \in SUBSET Recent, \A age \in S \ {0} : age - 1 \in T
  PROVE  SumFunctionOnSet(let', S) <= SumFunctionOnSet(let, T)
<1> DEFINE R == S \ {0}
           f == [age \in R |-> age - 1]
           P == {f[age] : age \in R}
<1>1. IsFiniteSet(R) /\ IsFiniteSet(S) /\ IsFiniteSet(T) /\ \A age \in T : let[age] \in Nat
  BY RecentAges, FS_Subset
<1>2. \A age \in R : let'[age] = let[f[age]] /\ let[f[age]] \in Nat
  BY RecentAges
<1>3. \A a, b \in R : f[a] = f[b] => a = b
  BY RecentAges
<1>4. P \subseteq T
  OBVIOUS
<1>5. \A age \in S : let'[age] \in Nat
  BY <1>2, RecentAges
<1>6. SumFunctionOnSet(let', S) = SumFunctionOnSet(let', R)
  <2>1. CASE 0 \in S
    <3>1. SumFunctionOnSet(let', S) = let'[0] + SumFunctionOnSet(let', S \ {0})
      BY <1>1, <1>5, <2>1, SumTakes
    <3>2. let'[0] = 0
      BY RecentAges
    <3>3. SumFunctionOnSet(let', R) \in Nat
      BY <1>1, <1>5, SumNat
    <3> QED
      BY <3>1, <3>2, <3>3
  <2>2. CASE 0 \notin S
    <3>1. S = R
      BY <2>2
    <3> HIDE DEF R
    <3> QED
      BY <3>1
  <2> QED
    BY <2>1, <2>2
<1> HIDE DEF f, R
<1>7. SumFunctionOnSet(let', R) <= SumFunctionOnSet(let, P)
  BY <1>1, <1>2, <1>3, SumMoved
<1>8. SumFunctionOnSet(let, P) <= SumFunctionOnSet(let, T)
  <2> HIDE DEF P
  <2> QED
    BY <1>1, <1>4, SumPart
<1>9. SumFunctionOnSet(let, P) \in Nat /\ SumFunctionOnSet(let, T) \in Nat /\ SumFunctionOnSet(let', R) \in Nat
  <2>1. P \in SUBSET Recent
    BY <1>4
  <2> HIDE DEF P
  <2>2. SumFunctionOnSet(let', R) \in Nat
    BY <1>1, <1>5, SumNat DEF R
  <2> QED
    BY <2>1, <2>2, SumsOfHits
<1> HIDE DEF P
<1> QED
  BY <1>6, <1>7, <1>8, <1>9

LEMMA RateKeeps ==
  ASSUME TypeOK, Windows, NEW r \in Requests, Rate(r)
  PROVE  /\ window' \in [starts : 0 .. Oldest + 1, hits : 0 .. KeyRPM + 1] /\ let' \in [Recent -> Nat] /\ Windows'
<1> DEFINE late == request[r].late
           hits == IF Restarts(late) THEN 1 ELSE Min({window.hits + 1, KeyRPM + 1})
<1>1. /\ window' = [starts |-> StartsAt(late), hits |-> hits]
      /\ let' = IF hits <= KeyRPM THEN [let EXCEPT ![0] = @ + 1] ELSE let
  BY Zenon DEF Rate
<1>2. late \in 0 .. MaxLate
  BY DEF TypeOK
<1>3. hits = IF window.starts > Minute + late THEN 1 ELSE IF window.hits + 1 <= KeyRPM + 1 THEN window.hits + 1 ELSE KeyRPM + 1
  BY RecentAges, MinOfTwo DEF Restarts
<1>4. StartsAt(late) = IF window.starts > Minute + late THEN late ELSE window.starts
  BY DEF StartsAt, Restarts
<1>5. let' \in [Recent -> Nat]
  BY <1>1, RecentAges DEF TypeOK
<1> HIDE DEF late, hits
<1>6. window' \in [starts : 0 .. Oldest + 1, hits : 0 .. KeyRPM + 1] /\ window'.starts = StartsAt(late) /\ window'.hits = hits
  BY <1>1, <1>2, <1>3, <1>4, RecentAges
<1>7. \A S \in SUBSET Recent : /\ SumFunctionOnSet(let, S) \in Nat
                               /\ SumFunctionOnSet(let', S) = SumFunctionOnSet(let, S) + (IF hits <= KeyRPM THEN One(0 \in S) ELSE 0)
  <2> TAKE S \in SUBSET Recent
  <2>1. SumFunctionOnSet(let, S) \in Nat
    BY SumsOfHits
  <2>2. CASE hits <= KeyRPM
    <3>1. LetsThrough
      BY <1>1, <2>2 DEF LetsThrough
    <3> QED
      BY <2>1, <2>2, <3>1, HitAdds
  <2>3. CASE ~ (hits <= KeyRPM)
    BY <1>1, <2>1, <2>3
  <2> QED
    BY <2>1, <2>2, <2>3
<1>8. Recent \in SUBSET Recent /\ Younger \in SUBSET Recent /\ Younger' \in SUBSET Recent /\ 0 \in Recent
  BY RecentAges DEF Younger
<1>9. CASE window.starts > Minute + late
  <2>1. Younger = Recent
    BY <1>2, <1>9, RecentAges DEF Younger
  <2>2. Younger' = {}
    <3>1. \A age \in Recent : age \in Nat /\ MaxLate \in Nat
      BY RecentAges
    <3> QED
      BY <1>2, <1>4, <1>6, <1>9, <3>1 DEF Younger
  <2>3. hits = 1 /\ Passed' = 1 /\ Passed \in Nat /\ Passed <= KeyRPM
    BY <1>3, <1>6, <1>9, RecentAges DEF Passed
  <2>4. SumFunctionOnSet(let', Recent) = SumFunctionOnSet(let, Recent) + 1 /\ SumFunctionOnSet(let, Recent) <= Passed
        /\ SumFunctionOnSet(let, Recent) \in Nat
    BY <1>7, <1>8, <2>1, <2>3, RecentAges DEF Windows, One
  <2>5. SumFunctionOnSet(let', Younger') = 0
    BY <2>2, SumEmpty
  <2> QED
    BY <1>5, <1>6, <2>3, <2>4, <2>5, RecentAges DEF Windows
<1>10. CASE ~ (window.starts > Minute + late)
  <2>1. Younger' = Younger
    BY <1>4, <1>6, <1>10 DEF Younger
  <2>2. Passed \in Nat /\ Passed' = Passed + (IF hits <= KeyRPM THEN 1 ELSE 0)
    BY <1>3, <1>6, <1>10, RecentAges DEF Passed
  <2>3. /\ SumFunctionOnSet(let', Recent) = SumFunctionOnSet(let, Recent) + (IF hits <= KeyRPM THEN 1 ELSE 0)
        /\ SumFunctionOnSet(let', Younger) <= SumFunctionOnSet(let, Younger) + (IF hits <= KeyRPM THEN 1 ELSE 0)
        /\ SumFunctionOnSet(let, Recent) \in Nat /\ SumFunctionOnSet(let, Younger) \in Nat
        /\ SumFunctionOnSet(let', Younger) \in Nat
    BY <1>7, <1>8 DEF One
  <2>4. SumFunctionOnSet(let, Recent) <= KeyRPM + Passed /\ SumFunctionOnSet(let, Younger) <= Passed
    BY DEF Windows
  <2>5. SumFunctionOnSet(let', Recent) <= KeyRPM + Passed' /\ SumFunctionOnSet(let', Younger) <= Passed'
    BY <2>2, <2>3, <2>4, RecentAges
  <2> QED
    BY <1>5, <1>6, <2>1, <2>5 DEF Windows
<1> QED
  BY <1>9, <1>10

(***************************************************************************)
(* A tick makes everything older by one, as far as it is told apart.       *)
(***************************************************************************)
LEMMA OlderBy ==
  ASSUME NEW most \in Nat, NEW age \in 0 .. most
  PROVE  Older(age, most) \in 0 .. most /\ Older(age, most) <= age + 1
<1>1. Min({most, age + 1}) = IF most <= age + 1 THEN most ELSE age + 1
  BY MinOfTwo
<1> QED
  BY <1>1 DEF Older

LEMMA OlderBucket ==
  ASSUME NEW rpm, NEW most, NEW b \in Bucket(rpm, most)
  PROVE  /\ [b EXCEPT !.updated = Older(@, Oldest)] \in Bucket(rpm, most)
         /\ [b EXCEPT !.updated = Older(@, Oldest)].active = b.active
<1> DEFINE T == 0 .. rpm * Minute
           U == 0 .. Oldest
           A == 0 .. most
           u == Older(b.updated, Oldest)
<1>1. b \in [tokens : T, updated : U, active : A]
  BY DEF Bucket
<1>2. u \in U
  <2>1. b.updated \in 0 .. Oldest /\ Oldest \in Nat
    BY <1>1, Numbers
  <2> QED
    BY <2>1, OlderBy
<1>3. [b EXCEPT !.updated = Older(@, Oldest)] = [b EXCEPT !.updated = u]
  OBVIOUS
<1> HIDE DEF T, U, A, u
<1>4. [b EXCEPT !.updated = u] \in [tokens : T, updated : U, active : A] /\ [b EXCEPT !.updated = u].active = b.active
  BY <1>1, <1>2
<1> QED
  BY <1>3, <1>4 DEF Bucket, T, U, A

LEMMA TickAges ==
  ASSUME TypeOK, Guarded, Tick
  PROVE  /\ global' \in Bucket(GlobalRPM, Concurrency) /\ global'.active = global.active
         /\ clients' \in [Clients -> Bucket(IPRPM, IPConcurrency) \cup {NoBucket}]
         /\ \A c \in Clients : IF clients[c] = NoBucket THEN clients'[c] = NoBucket
                               ELSE clients'[c] # NoBucket /\ clients'[c].active = clients[c].active
         /\ cleaned' \in 0 .. Oldest
<1>1. global' \in Bucket(GlobalRPM, Concurrency) /\ global'.active = global.active
  <2>1. global \in Bucket(GlobalRPM, Concurrency) /\ global' = [global EXCEPT !.updated = Older(@, Oldest)]
    BY DEF TypeOK, Tick
  <2> QED
    BY <2>1, OlderBucket
<1>2. ASSUME NEW c \in Clients
      PROVE  /\ clients'[c] \in Bucket(IPRPM, IPConcurrency) \cup {NoBucket}
             /\ IF clients[c] = NoBucket THEN clients'[c] = NoBucket
                ELSE clients'[c] # NoBucket /\ clients'[c].active = clients[c].active
  <2>1. clients'[c] = IF clients[c] = NoBucket THEN NoBucket ELSE [clients[c] EXCEPT !.updated = Older(@, Oldest)]
    BY DEF Tick
  <2>2. CASE clients[c] = NoBucket
    BY <2>1, <2>2
  <2>3. CASE clients[c] # NoBucket
    <3>1. clients[c] \in Bucket(IPRPM, IPConcurrency)
      BY <2>3 DEF TypeOK
    <3> DEFINE b == [clients[c] EXCEPT !.updated = Older(@, Oldest)]
    <3>2. b \in Bucket(IPRPM, IPConcurrency) /\ b.active = clients[c].active
      BY <3>1, OlderBucket
    <3>3. clients'[c] = b
      BY <2>1, <2>3
    <3> HIDE DEF b
    <3> QED
      BY <2>3, <3>2, <3>3, BucketAssumption
  <2> QED
    BY <2>2, <2>3
<1>3. clients' = [c \in Clients |-> clients'[c]]
  BY DEF Tick
<1>4. clients' \in [Clients -> Bucket(IPRPM, IPConcurrency) \cup {NoBucket}]
  BY <1>2, <1>3
<1>5. cleaned' \in 0 .. Oldest
  <2>1. cleaned' = Older(cleaned, Oldest) /\ cleaned \in 0 .. Oldest
    BY DEF TypeOK, Tick
  <2> QED
    BY <2>1, OlderBy, Numbers
<1> QED
  BY <1>1, <1>2, <1>4, <1>5

LEMMA TickWaits ==
  ASSUME TypeOK, Tick
  PROVE  /\ request' \in [Requests -> Req]
         /\ \A r \in Requests : /\ request'[r].at = request[r].at /\ request'[r].client = request[r].client
                                /\ request'[r].length = request[r].length
<1>1. ASSUME NEW r \in Requests
      PROVE  /\ request'[r] \in Req
             /\ request'[r].at = request[r].at /\ request'[r].client = request[r].client
             /\ request'[r].length = request[r].length
  <2> DEFINE L == 0 .. MaxLate
             late == IF Waiting(r) THEN request[r].late + 1 ELSE request[r].late
  <2>1. request[r] \in [at : Stages, client : Clients \cup {Nobody}, late : L, length : Lengths \cup {-1}]
    BY DEF TypeOK
  <2>2. late \in L
    BY <2>1, Numbers DEF Tick
  <2>3. request'[r] = [request[r] EXCEPT !.late = late]
    BY DEF Tick
  <2> HIDE DEF late, L
  <2>4. /\ request'[r] \in [at : Stages, client : Clients \cup {Nobody}, late : L, length : Lengths \cup {-1}]
        /\ request'[r].at = request[r].at /\ request'[r].client = request[r].client
        /\ request'[r].length = request[r].length
    BY <2>1, <2>2, <2>3
  <2> QED
    BY <2>4 DEF Req, L
<1>2. request' = [r \in Requests |-> request'[r]]
  BY DEF Tick
<1>3. request' \in [Requests -> Req]
  BY <1>1, <1>2
<1> QED
  BY <1>1, <1>3

LEMMA TickKeepsCounts ==
  ASSUME TypeOK, Guarded, Budgeted, Tick
  PROVE  Guarded' /\ Budgeted'
<1>1. /\ AllInside' = AllInside /\ \A c \in Clients : InsideOf(c)' = InsideOf(c)
      /\ Bodies' = Bodies
  BY TickWaits DEF AllInside, InsideOf, Bodies
<1>2. Guarded'
  <2>1. \A c \in Clients : IF clients'[c] = NoBucket THEN InsideOf(c)' = {}
                           ELSE clients'[c].active = Cardinality(InsideOf(c)')
    BY <1>1, TickAges DEF Guarded
  <2>2. \A q \in Requests : request'[q].at \in Inside \cup {"arriving"} => request'[q].client \in Clients
    BY TickWaits DEF Guarded
  <2> QED
    BY <1>1, <2>1, <2>2, TickAges DEF Guarded
<1>3. \A q \in Requests : Longest(q)' = Longest(q)
  BY TickWaits DEF Longest
<1>4. [q \in Bodies' |-> Longest(q)'] = [q \in Bodies |-> Longest(q)]
  BY <1>1, <1>3 DEF Bodies
<1>5. \A q \in Bodies' : request'[q].length <= BodyLimit
  BY <1>1, TickWaits DEF Budgeted, Bodies
<1>6. budget' = budget
  BY DEF Tick
<1> QED
  BY <1>1, <1>2, <1>4, <1>5, <1>6 DEF Budgeted

LEMMA TickKeepsWindows ==
  ASSUME TypeOK, Windows, Tick
  PROVE  /\ window' \in [starts : 0 .. Oldest + 1, hits : 0 .. KeyRPM + 1]
         /\ let' \in [Recent -> Nat] /\ Windows'
<1>1. /\ let' = [age \in Recent |-> IF age = 0 THEN 0 ELSE let[age - 1]]
      /\ window' = [window EXCEPT !.starts = Older(window.starts, Oldest + 1)]
  BY DEF Tick
<1>2. Older(window.starts, Oldest + 1) \in 0 .. Oldest + 1 /\ Older(window.starts, Oldest + 1) <= window.starts + 1
  <2>1. window.starts \in 0 .. Oldest + 1 /\ Oldest + 1 \in Nat
    BY RecentAges
  <2> QED
    BY <2>1, OlderBy
<1>3. /\ window' \in [starts : 0 .. Oldest + 1, hits : 0 .. KeyRPM + 1]
      /\ window'.starts <= window.starts + 1 /\ window'.hits = window.hits
  BY <1>1, <1>2 DEF TypeOK
<1>4. let' \in [Recent -> Nat]
  BY <1>1, RecentAges DEF TypeOK
<1>5. Passed' = Passed /\ Passed \in Int
  BY <1>3, RecentAges DEF Passed
<1>6. Recent \in SUBSET Recent /\ Younger \in SUBSET Recent /\ Younger' \in SUBSET Recent
  BY RecentAges DEF Younger
<1>7. SumFunctionOnSet(let', Recent) <= SumFunctionOnSet(let, Recent)
  BY <1>1, <1>6, RecentAges, TickShifts
<1>8. SumFunctionOnSet(let', Younger') <= SumFunctionOnSet(let, Younger)
  <2>1. \A age \in Younger' \ {0} : age - 1 \in Younger
    <3> TAKE age \in Younger' \ {0}
    <3>1. age - 1 \in Recent /\ age \in Nat /\ age + MaxLate < window'.starts
      BY RecentAges DEF Younger
    <3> QED
      BY <1>3, <3>1, RecentAges DEF Younger
  <2> QED
    BY <1>1, <1>6, <2>1, TickShifts
<1>9. /\ SumFunctionOnSet(let, Recent) \in Nat /\ SumFunctionOnSet(let, Younger) \in Nat
  BY <1>6, SumsOfHits
<1>10. SumFunctionOnSet(let', Recent) \in Nat /\ SumFunctionOnSet(let', Younger') \in Nat
  <2>1. \A S \in SUBSET Recent : IsFiniteSet(S) /\ \A age \in S : let'[age] \in Nat
    BY <1>4, RecentAges, FS_Subset
  <2> QED
    BY <1>6, <2>1, SumNat
<1>11. /\ SumFunctionOnSet(let', Recent) <= KeyRPM + Passed
       /\ SumFunctionOnSet(let', Younger') <= Passed
  BY <1>5, <1>7, <1>8, <1>9, <1>10, RecentAges DEF Windows
<1> QED
  BY <1>3, <1>4, <1>5, <1>11 DEF Windows

(***************************************************************************)
(* Every step keeps all of it.                                             *)
(***************************************************************************)
RateType == window \in [starts : 0 .. Oldest + 1, hits : 0 .. KeyRPM + 1] /\ let \in [Recent -> Nat]
BudgetType == budget \in [active : 0 .. Concurrency, bytes : 0 .. BodyBudget]
GuardType ==
    /\ global \in Bucket(GlobalRPM, Concurrency) /\ cleaned \in 0 .. Oldest
    /\ clients \in [Clients -> Bucket(IPRPM, IPConcurrency) \cup {NoBucket}]
RequestType == request \in [Requests -> Req]

LEMMA TypeParts == TypeOK <=> RateType /\ BudgetType /\ GuardType /\ RequestType
BY DEF TypeOK, RateType, BudgetType, GuardType, RequestType, Req

LEMMA RateStays ==
  ASSUME RateType, Windows, UNCHANGED <<window, let>>
  PROVE  RateType' /\ Windows'
BY DEF RateType, Windows, Younger, Passed

LEMMA GuardStays ==
  ASSUME TypeOK, Guarded, UNCHANGED guard, NEW r \in Requests, NEW at, NEW client, NEW length,
         Moved(r, at, client, length), at \in Inside <=> request[r].at \in Inside,
         at \in Inside => client = request[r].client, at = "arriving" => client \in Clients
  PROVE  GuardType' /\ Guarded'
<1>1. global' = global /\ clients' = clients /\ cleaned' = cleaned
  BY DEF guard
<1>2. GuardType'
  BY <1>1, TypeParts DEF GuardType
<1>3. \A d \in Clients : IF clients'[d] = NoBucket THEN InsideOf(d) = {} ELSE clients'[d].active = Cardinality(InsideOf(d))
  BY <1>1 DEF Guarded
<1> QED
  BY <1>1, <1>2, <1>3, SameInside

LEMMA StepKeeps ==
  ASSUME IInv, NEW r \in Requests,
         \/ \E c \in Clients : Arrive(r, c)
         \/ Acquire(r) \/ ReleaseIngress(r)
         \/ \E length \in Lengths : AdmitBody(r, length) \/ TestPolicy(r, length)
         \/ Leave(r) \/ EndTest(r)
         \/ CountHit(r) \/ Rate(r)
  PROVE  IInv'
<1> DEFINE q == request[r]
<1>1. TypeOK /\ Guarded /\ Budgeted /\ Windows /\ RateType /\ BudgetType /\ GuardType /\ RequestType
  BY TypeParts DEF IInv
<1>2. q.at \in Stages /\ q.length \in Lengths \cup {-1}
  BY <1>1 DEF TypeOK
<1> SUFFICES (RateType' /\ Windows') /\ (BudgetType' /\ Budgeted') /\ (GuardType' /\ Guarded') /\ RequestType'
  BY TypeParts DEF IInv, TypeOK, RateType, BudgetType, GuardType, RequestType, Req
<1>3. ASSUME NEW at, NEW client, NEW length, Moved(r, at, client, length) PROVE RequestType'
  BY <1>3 DEF Moved, RequestType
<1> HIDE DEF q
<1>4. CASE \E c \in Clients : Arrive(r, c)
  <2> PICK c \in Clients : Arrive(r, c)
    BY <1>4
  <2>1. q.at = "away" /\ UNCHANGED guard /\ budget' = budget /\ UNCHANGED <<window, let>>
    BY DEF Arrive, At, q
  <2>2. Moved(r, "arriving", c, -1)
    BY <1>1, ArriveMoves
  <2>3. GuardType' /\ Guarded'
    BY <1>1, <2>1, <2>2, GuardStays DEF Inside, q
  <2>4. BudgetType' /\ Budgeted'
    BY <1>1, <2>1, <2>2, SameBodies DEF WithBody, q, BudgetType
  <2> QED
    BY <1>1, <1>3, <2>1, <2>2, <2>3, <2>4, RateStays
<1>5. CASE Acquire(r)
  <2>1. /\ At(r, "arriving") /\ q.client \in Clients /\ q.late \in 0 .. MaxLate
        /\ cleaned' \in 0 .. Oldest /\ (LetsIn(r) \/ Refuses(r))
    BY <1>1, <1>5, AcquireDecides DEF q
  <2>2. budget' = budget /\ UNCHANGED <<window, let>>
    BY <1>5 DEF Acquire
  <2>3. CASE LetsIn(r)
    <3>1. clients' \in [Clients -> Bucket(IPRPM, IPConcurrency) \cup {NoBucket}] /\ Guarded'
      BY <1>1, <2>1, <2>3, LetsInKeeps DEF q
    <3>2. global' \in Bucket(GlobalRPM, Concurrency) /\ Moved(r, "entered", q.client, q.length)
      BY <2>3 DEF LetsIn, q
    <3>3. BudgetType' /\ Budgeted'
      BY <1>1, <2>1, <2>2, <3>2, SameBodies DEF WithBody, q, BudgetType, At
    <3> QED
      BY <1>1, <1>3, <2>1, <2>2, <3>1, <3>2, <3>3, RateStays DEF GuardType
  <2>4. CASE Refuses(r)
    <3>1. clients' \in [Clients -> Bucket(IPRPM, IPConcurrency) \cup {NoBucket}] /\ Guarded'
      BY <1>1, <2>1, <2>4, RefusesKeeps DEF q
    <3>2. global' \in Bucket(GlobalRPM, Concurrency) /\ Moved(r, "away", Nobody, -1)
      BY <2>4 DEF Refuses, q
    <3>3. BudgetType' /\ Budgeted'
      BY <1>1, <2>1, <2>2, <3>2, SameBodies DEF WithBody, q, BudgetType, At
    <3> QED
      BY <1>1, <1>3, <2>1, <2>2, <3>1, <3>2, <3>3, RateStays DEF GuardType
  <2> QED
    BY <2>1, <2>3, <2>4
<1>6. CASE ReleaseIngress(r)
  <2>1. /\ clients' \in [Clients -> Bucket(IPRPM, IPConcurrency) \cup {NoBucket}]
        /\ global' \in Bucket(GlobalRPM, Concurrency) /\ Guarded' /\ Moved(r, "away", Nobody, -1)
    BY <1>1, <1>6, ReleaseKeeps
  <2>2. q.at = "leaving" /\ cleaned' = cleaned /\ budget' = budget /\ UNCHANGED <<window, let>>
    BY <1>6 DEF ReleaseIngress, At, q
  <2>3. BudgetType' /\ Budgeted'
    BY <1>1, <2>1, <2>2, SameBodies DEF WithBody, q, BudgetType
  <2> QED
    BY <1>1, <1>3, <2>1, <2>2, <2>3, RateStays DEF GuardType
<1>7. ASSUME NEW length \in Lengths, AdmitBody(r, length)
      PROVE  (RateType' /\ Windows') /\ (BudgetType' /\ Budgeted') /\ (GuardType' /\ Guarded') /\ RequestType'
  <2>1. q.at = "entered" /\ UNCHANGED guard /\ UNCHANGED <<window, let>>
    BY <1>7 DEF AdmitBody, At, q
  <2>2. CASE TakeBody(r, length, "reading")
    <3>1. BudgetType' /\ Budgeted' /\ Moved(r, "reading", q.client, length)
      BY <1>1, <2>1, <2>2, TakesBody DEF WithBody, q, BudgetType
    <3>2. GuardType' /\ Guarded'
      BY <1>1, <2>1, <3>1, GuardStays DEF Inside, q
    <3> QED
      BY <1>1, <1>3, <2>1, <3>1, <3>2, RateStays
  <2>3. CASE Goes(r, "leaving") /\ UNCHANGED budget
    <3>1. Moved(r, "leaving", q.client, q.length)
      BY <1>1, <2>3, StageMoves DEF Stages, Inside, q
    <3>2. GuardType' /\ Guarded'
      BY <1>1, <2>1, <3>1, GuardStays DEF Inside, q
    <3>3. BudgetType' /\ Budgeted'
      BY <1>1, <2>1, <2>3, <3>1, SameBodies DEF WithBody, q, BudgetType
    <3> QED
      BY <1>1, <1>3, <2>1, <3>1, <3>2, <3>3, RateStays
  <2> QED
    BY <1>7, <2>2, <2>3 DEF AdmitBody
<1>8. ASSUME NEW length \in Lengths, TestPolicy(r, length)
      PROVE  (RateType' /\ Windows') /\ (BudgetType' /\ Budgeted') /\ (GuardType' /\ Guarded') /\ RequestType'
  <2>1. q.at = "away" /\ UNCHANGED guard /\ UNCHANGED <<window, let>> /\ TakeBody(r, length, "testing")
    BY <1>8 DEF TestPolicy, At, q
  <2>2. BudgetType' /\ Budgeted' /\ Moved(r, "testing", q.client, length)
    BY <1>1, <2>1, TakesBody DEF WithBody, q, BudgetType
  <2>3. GuardType' /\ Guarded'
    BY <1>1, <2>1, <2>2, GuardStays DEF Inside, q
  <2> QED
    BY <1>1, <1>3, <2>1, <2>2, <2>3, RateStays
<1>9. CASE Leave(r)
  <2>1. /\ q.at \in {"reading", "answering"} /\ UNCHANGED guard /\ UNCHANGED <<window, let>> /\ ReleaseBody(r)
        /\ request' = [request EXCEPT ![r].at = "leaving", ![r].length = -1]
    BY <1>9 DEF Leave, At, q, NoLength
  <2>2. Moved(r, "leaving", q.client, -1)
    BY <1>1, <2>1, StageMoves DEF Stages, Inside, q
  <2>3. BudgetType' /\ Budgeted'
    BY <1>1, <2>1, <2>2, ReleasesBody DEF WithBody, q, BudgetType
  <2>4. GuardType' /\ Guarded'
    BY <1>1, <2>1, <2>2, GuardStays DEF Inside, q
  <2> QED
    BY <1>1, <1>3, <2>1, <2>2, <2>3, <2>4, RateStays
<1>10. CASE EndTest(r)
  <2>1. /\ q.at = "testing" /\ UNCHANGED guard /\ UNCHANGED <<window, let>> /\ ReleaseBody(r)
        /\ request' = [request EXCEPT ![r] = Away]
    BY <1>10 DEF EndTest, At, q
  <2>2. Moved(r, "away", Nobody, -1)
    BY <1>1, <2>1, StageMoves DEF Stages, q
  <2>3. BudgetType' /\ Budgeted'
    BY <1>1, <2>1, <2>2, ReleasesBody DEF WithBody, q, BudgetType
  <2>4. GuardType' /\ Guarded'
    BY <1>1, <2>1, <2>2, GuardStays DEF Inside, q
  <2> QED
    BY <1>1, <1>3, <2>1, <2>2, <2>3, <2>4, RateStays
<1>11. CASE CountHit(r)
  <2>1. q.at = "reading" /\ UNCHANGED guard /\ budget' = budget /\ UNCHANGED <<window, let>> /\ Goes(r, "rating")
    BY <1>11 DEF CountHit, At, q
  <2>2. Moved(r, "rating", q.client, q.length)
    BY <1>1, <2>1, StageMoves DEF Stages, Inside, q
  <2>3. BudgetType' /\ Budgeted'
    BY <1>1, <2>1, <2>2, SameBodies DEF WithBody, q, BudgetType
  <2>4. GuardType' /\ Guarded'
    BY <1>1, <2>1, <2>2, GuardStays DEF Inside, q
  <2> QED
    BY <1>1, <1>3, <2>1, <2>2, <2>3, <2>4, RateStays
<1>12. CASE Rate(r)
  <2>1. /\ q.at = "rating" /\ UNCHANGED guard /\ budget' = budget
        /\ request' = [request EXCEPT ![r].at = "answering", ![r].late = 0]
    BY <1>12 DEF Rate, At, q
  <2>2. Moved(r, "answering", q.client, q.length)
    BY <1>1, <2>1, StageMoves DEF Stages, Inside, q
  <2>3. BudgetType' /\ Budgeted'
    BY <1>1, <2>1, <2>2, SameBodies DEF WithBody, q, BudgetType
  <2>4. GuardType' /\ Guarded'
    BY <1>1, <2>1, <2>2, GuardStays DEF Inside, q
  <2>5. RateType' /\ Windows'
    BY <1>1, <1>12, RateKeeps DEF RateType
  <2> QED
    BY <1>3, <2>2, <2>3, <2>4, <2>5
<1> QED
  BY <1>4, <1>5, <1>6, <1>7, <1>8, <1>9, <1>10, <1>11, <1>12

LEMMA InitHolds == Init => IInv
<1> SUFFICES ASSUME Init PROVE IInv
  OBVIOUS
<1> USE DEF Init
<1>1. request \in [Requests -> Req] /\ \A r \in Requests : request[r].at = "away"
  BY AwayTyped
<1>2. AllInside = {} /\ (\A c \in Clients : InsideOf(c) = {}) /\ Bodies = {}
  BY <1>1 DEF AllInside, InsideOf, Bodies, Inside, WithBody
<1>3. global \in Bucket(GlobalRPM, Concurrency) /\ cleaned \in 0 .. Oldest
  BY Numbers DEF Bucket
<1>4. TypeOK
  <2>1. clients \in [Clients -> Bucket(IPRPM, IPConcurrency) \cup {NoBucket}]
    OBVIOUS
  <2>2. budget \in [active : 0 .. Concurrency, bytes : 0 .. BodyBudget]
    BY Numbers
  <2>3. window \in [starts : 0 .. Oldest + 1, hits : 0 .. KeyRPM + 1]
    BY Numbers
  <2>4. let \in [Recent -> Nat]
    OBVIOUS
  <2> QED
    BY <1>1, <1>3, <2>1, <2>2, <2>3, <2>4 DEF TypeOK, Req
<1>5. Guarded
  BY <1>1, <1>2, FS_EmptySet DEF Guarded, Inside
<1>6. Budgeted
  BY <1>2, FS_EmptySet, SumEmpty DEF Budgeted
<1>7. Windows
  <2>1. SumFunctionOnSet(let, Recent) = 0 /\ SumFunctionOnSet(let, Younger) = 0
    <3>1. \A age \in Recent : let[age] = 0
      OBVIOUS
    <3>2. IsFiniteSet(Recent) /\ IsFiniteSet(Younger) /\ Younger \subseteq Recent
      BY <1>4, RecentAges
    <3> QED
      BY <3>1, <3>2, SumZero
  <2>2. Passed = 0 /\ KeyRPM \in Nat
    BY Numbers DEF Passed
  <2> QED
    BY <2>1, <2>2 DEF Windows
<1> QED
  BY <1>4, <1>5, <1>6, <1>7 DEF IInv

LEMMA NextKeeps == IInv /\ [Next]_vars => IInv'
<1> SUFFICES ASSUME IInv, [Next]_vars PROVE IInv'
  OBVIOUS
<1>1. CASE Tick
  <2>1. TypeOK /\ Guarded /\ Budgeted /\ Windows /\ BudgetType
    BY TypeParts DEF IInv
  <2>2. Guarded' /\ Budgeted' /\ GuardType' /\ RequestType'
    BY <1>1, <2>1, TickKeepsCounts, TickAges, TickWaits DEF GuardType, RequestType
  <2>3. RateType' /\ Windows'
    BY <1>1, <2>1, TickKeepsWindows DEF RateType
  <2>4. BudgetType'
    BY <1>1, <2>1 DEF Tick, BudgetType
  <2> QED
    BY <2>2, <2>3, <2>4, TypeParts DEF IInv, TypeOK, RateType, BudgetType, GuardType, RequestType, Req
<1>2. CASE UNCHANGED vars
  <2>1. IInv' = IInv
    BY <1>2 DEF IInv, TypeOK, Guarded, Budgeted, Windows, AllInside, InsideOf, Bodies, Longest, Younger, Passed, vars, guard
  <2> QED
    BY <2>1
<1>3. CASE Next /\ ~ Tick
  BY <1>3, StepKeeps DEF Next
<1> QED
  BY <1>1, <1>2, <1>3

LEMMA InvariantHolds == Spec => []IInv
<1> QED
  BY InitHolds, NextKeeps, PTL DEF Spec

(* The guard, the budget and the row of the key keep to their ranges: no   *)
(* bucket has less than no token, more than its fill, or more requests     *)
(* inside than its limit, whatever the requests do.                        *)
THEOREM AdmissionTypeCorrect == Spec => []TypeOK
<1>1. IInv => TypeOK
  BY DEF IInv
<1> QED
  BY <1>1, InvariantHolds, PTL

(* Never more requests inside than ingressLimits allow, of an address or   *)
(* of all, and never more bodies, or longer ones, than requestAdmission.   *)
THEOREM AdmissionWithinLimits == Spec => []WithinLimits
<1>1. IInv => WithinLimits
  <2> SUFFICES ASSUME TypeOK, Guarded, Budgeted PROVE WithinLimits
    BY DEF IInv
  <2>1. \A c \in Clients : Cardinality(InsideOf(c)) <= IPConcurrency
    <3> TAKE c \in Clients
    <3>1. CASE clients[c] = NoBucket
      <4>1. Cardinality(InsideOf(c)) = 0 /\ IPConcurrency \in Nat
        BY <3>1, FS_EmptySet, Numbers DEF Guarded
      <4> QED
        BY <4>1
    <3>2. CASE clients[c] # NoBucket
      <4>1. clients[c] \in Bucket(IPRPM, IPConcurrency) /\ clients[c].active = Cardinality(InsideOf(c))
        BY <3>2 DEF TypeOK, Guarded
      <4>2. clients[c].active \in 0 .. IPConcurrency
        BY <4>1 DEF Bucket
      <4> QED
        BY <4>1, <4>2, Numbers
    <3> QED
      BY <3>1, <3>2
  <2>2. Cardinality(AllInside) <= Concurrency
    BY DEF TypeOK, Guarded, Bucket
  <2>3. budget.active <= Concurrency /\ budget.bytes <= BodyBudget
    BY DEF TypeOK
  <2> QED
    BY <2>1, <2>2, <2>3 DEF WithinLimits, Budgeted, AllInside
<1> QED
  BY <1>1, InvariantHolds, PTL

(* Store.Rate lets at most twice the limit of a key through in a minute,   *)
(* less what its statements wait.                                          *)
THEOREM AdmissionRateWithin == Spec => []RateWithin
<1>1. IInv => RateWithin
  <2> SUFFICES ASSUME TypeOK, Windows PROVE RateWithin
    BY DEF IInv
  <2>1. SumFunctionOnSet(let, Recent) \in Nat /\ SumFunctionOnSet(let, Recent) <= KeyRPM + Passed
    BY SumsOfHits DEF Windows
  <2>2. Passed <= KeyRPM /\ Passed \in Nat /\ KeyRPM \in Nat
    BY RecentAges DEF Passed
  <2> QED
    BY <2>1, <2>2 DEF RateWithin
<1> QED
  BY <1>1, InvariantHolds, PTL

(***************************************************************************)
(* What an address may still spend.                                        *)
(***************************************************************************)
Worth(b) == IF b = NoBucket THEN MostTokens ELSE IF MostTokens <= OwnWorth(b) THEN MostTokens ELSE OwnWorth(b)

LEMMA WorthType ==
  /\ MostTokens \in Nat /\ MaxLate * IPRPM \in Nat /\ Minute * IPRPM \in Nat
  /\ MostTokens = Minute * IPRPM + MaxLate * IPRPM
  /\ \A b \in Bucket(IPRPM, IPConcurrency) :
        OwnWorth(b) \in Nat /\ (b.updated >= Minute => Minute * IPRPM <= OwnWorth(b))
<1>1. Minute \in Nat /\ MaxLate \in Nat /\ IPRPM \in Nat /\ Oldest \in Nat
  BY Numbers
<1>2. /\ MaxLate * IPRPM \in Nat /\ Minute * IPRPM \in Nat
      /\ MostTokens = Minute * IPRPM + MaxLate * IPRPM
  BY <1>1, Products DEF MostTokens
<1>3. ASSUME NEW b \in Bucket(IPRPM, IPConcurrency)
      PROVE  OwnWorth(b) \in Nat /\ (b.updated >= Minute => Minute * IPRPM <= OwnWorth(b))
  <2>1. b.updated \in Nat /\ b.tokens \in Nat
    <3> DEFINE top == IPRPM * Minute
    <3>1. top \in Nat /\ b.tokens \in 0 .. top /\ b.updated \in 0 .. Oldest
      BY Numbers DEF Bucket
    <3> HIDE DEF top
    <3> QED
      BY <1>1, <3>1
  <2>2. b.updated * IPRPM \in Nat /\ (Minute <= b.updated => Minute * IPRPM <= b.updated * IPRPM)
    BY <1>1, <2>1, Products
  <2> DEFINE p == b.updated * IPRPM
             m == Minute * IPRPM
  <2>3. p \in Nat /\ m \in Nat /\ (Minute <= b.updated => m <= p) /\ OwnWorth(b) = b.tokens + p
    BY <1>2, <2>2 DEF OwnWorth
  <2> HIDE DEF p, m
  <2>4. OwnWorth(b) \in Nat /\ (b.updated >= Minute => m <= OwnWorth(b))
    BY <1>1, <2>1, <2>3
  <2> QED
    BY <2>4 DEF m
<1> QED
  BY <1>2, <1>3

LEMMA AllowanceIsWorth ==
  ASSUME TypeOK, NEW c \in Clients
  PROVE  Allowance(c) = Worth(clients[c])
<1>1. CASE clients[c] = NoBucket
  BY <1>1 DEF Allowance, Worth
<1>2. CASE clients[c] # NoBucket
  <2>1. clients[c] \in Bucket(IPRPM, IPConcurrency)
    BY <1>2 DEF TypeOK
  <2>2. OwnWorth(clients[c]) \in Nat /\ MostTokens \in Nat
    BY <2>1, WorthType
  <2>3. Min({MostTokens, OwnWorth(clients[c])}) = IF MostTokens <= OwnWorth(clients[c]) THEN MostTokens ELSE OwnWorth(clients[c])
    BY <2>2, MinOfTwo
  <2> QED
    BY <1>2, <2>3 DEF Allowance, Worth, OwnWorth
<1> QED
  BY <1>1, <1>2

(* Only a request that arrived can be let in, and by one step one is.      *)
LEMMA LetsInOne ==
  ASSUME TypeOK, NEW r \in Requests, NEW at, NEW client, NEW length, Moved(r, at, client, length), NEW c \in Clients
  PROVE  /\ ~ (at \in Inside /\ At(r, "arriving")) => LetIn(c) = 0
         /\ c # client => LetIn(c) = 0
         /\ c = client => LetIn(c) \in {0, 1}
<1> DEFINE S == {q \in InsideOf(c)' : At(q, "arriving")}
<1>1. \A q \in S : q = r /\ at \in Inside /\ At(r, "arriving") /\ client = c
  BY DEF InsideOf, At, Inside, Moved
<1>2. LetIn(c) = Cardinality(S)
  BY DEF LetIn
<1> HIDE DEF S
<1>3. S = {} \/ S = {r}
  BY <1>1
<1>4. Cardinality({}) = 0 /\ Cardinality({r}) = 1
  BY FS_EmptySet, FS_Singleton
<1> QED
  BY <1>1, <1>2, <1>3, <1>4

LEMMA TablePays ==
  ASSUME TypeOK, NEW c \in Clients, NEW late \in 0 .. MaxLate, NEW d \in Clients, clients'[d] = TableFor(c, late)[d]
  PROVE  Worth(clients'[d]) <= Worth(clients[d]) + ByForgetting(d)
<1>1. \/ clients'[d] = clients[d]
      \/ clients'[d] = NoBucket /\ clients[d] # NoBucket /\ Idle(clients[d], late)
  BY TableMakes
<1>2. clients[d] # NoBucket => clients[d] \in Bucket(IPRPM, IPConcurrency)
  BY DEF TypeOK
<1>3. Worth(clients[d]) \in Nat
  BY <1>2, WorthType DEF Worth
<1>4. CASE clients'[d] = clients[d]
  <2>1. ByForgetting(d) = 0
    BY <1>4 DEF ByForgetting
  <2> QED
    BY <1>3, <1>4, <2>1
<1>5. CASE clients'[d] = NoBucket /\ clients[d] # NoBucket /\ Idle(clients[d], late)
  <2>1. ByForgetting(d) = MaxLate * IPRPM /\ Worth(clients'[d]) = MostTokens
    BY <1>5 DEF ByForgetting, Worth
  <2>2. clients[d].updated >= Minute
    <3>1. clients[d].updated \in 0 .. Oldest
      BY <1>2, <1>5 DEF Bucket
    <3> QED
      BY <1>5, <3>1, Numbers DEF Idle
  <2>3. Minute * IPRPM <= OwnWorth(clients[d]) /\ OwnWorth(clients[d]) \in Nat
    BY <1>2, <1>5, <2>2, WorthType
  <2>4. Worth(clients[d]) = IF MostTokens <= OwnWorth(clients[d]) THEN MostTokens ELSE OwnWorth(clients[d])
    BY <1>5 DEF Worth
  <2> DEFINE m == Minute * IPRPM
             l == MaxLate * IPRPM
             w == OwnWorth(clients[d])
  <2>5. m \in Nat /\ l \in Nat /\ MostTokens = m + l /\ m <= w /\ w \in Nat
    BY <2>3, WorthType
  <2>6. Worth(clients'[d]) = MostTokens /\ ByForgetting(d) = l /\ Worth(clients[d]) = IF MostTokens <= w THEN MostTokens ELSE w
    BY <2>1, <2>4
  <2> HIDE DEF m, l, w
  <2> QED
    BY <2>5, <2>6
<1> QED
  BY <1>1, <1>4, <1>5

LEMMA ForgettingType == \A d \in Clients : ByForgetting(d) \in Nat
<1>1. MaxLate * IPRPM \in Nat
  BY WorthType
<1> DEFINE l == MaxLate * IPRPM
<1>2. \A d \in Clients : ByForgetting(d) \in {0, l}
  BY DEF ByForgetting
<1> HIDE DEF l
<1> QED
  BY <1>1, <1>2 DEF l

LEMMA LetsInPays ==
  ASSUME TypeOK, Guarded, NEW r \in Requests, At(r, "arriving"), request[r].client \in Clients,
         request[r].late \in 0 .. MaxLate, LetsIn(r), NEW d \in Clients
  PROVE  Worth(clients'[d]) + LetIn(d) * Minute <= Worth(clients[d]) + ByForgetting(d)
<1>1. PICK c, late : c = request[r].client /\ late = request[r].late
  OBVIOUS
<1> DEFINE table == TableFor(c, late)
<1>2. PICK own \in Bucket(IPRPM, IPConcurrency) :
          /\ clients' = [table EXCEPT ![c] = own]
          /\ OwnWorth(own) + Minute <= MostTokens
          /\ clients[c] # NoBucket => OwnWorth(own) + Minute <= OwnWorth(clients[c])
          /\ Moved(r, "entered", c, request[r].length)
  BY <1>1 DEF LetsIn
<1>3. c \in Clients /\ late \in 0 .. MaxLate /\ Minute \in Nat
  BY <1>1, Numbers
<1>4. table \in [Clients -> Bucket(IPRPM, IPConcurrency) \cup {NoBucket}]
  BY <1>3, TableMakes
<1>5. clients'[c] = own /\ \A x \in Clients \ {c} : clients'[x] = table[x]
  <2> HIDE DEF table
  <2> QED
    BY <1>2, <1>3, <1>4
<1>6. (d # c => LetIn(d) = 0) /\ (d = c => LetIn(d) \in {0, 1})
  BY <1>2, LetsInOne
<1>7. LetIn(d) * Minute = 0 \/ (d = c /\ LetIn(d) * Minute = Minute)
  <2>1. 0 * Minute = 0 /\ 1 * Minute = Minute
    BY <1>3
  <2> QED
    BY <1>6, <2>1
<1>8. clients[d] # NoBucket => OwnWorth(clients[d]) \in Nat
  BY WorthType DEF TypeOK
<1>9. OwnWorth(own) \in Nat /\ own # NoBucket /\ MostTokens \in Nat
  BY WorthType, BucketAssumption
<1>10. ByForgetting(d) \in Nat
  BY ForgettingType
<1>11. Worth(clients[d]) \in Nat
  BY <1>8, <1>9 DEF Worth
<1> DEFINE paid == LetIn(d) * Minute
<1>12. paid = 0 \/ (d = c /\ paid = Minute)
  BY <1>7
<1> HIDE DEF paid
<1>13. CASE d = c
  <2>1. Worth(clients'[d]) = OwnWorth(own)
    BY <1>2, <1>3, <1>5, <1>9, <1>13 DEF Worth
  <2>2. OwnWorth(own) + Minute <= Worth(clients[d])
    BY <1>2, <1>3, <1>8, <1>9, <1>13 DEF Worth
  <2>3. Worth(clients'[d]) + paid <= Worth(clients[d]) + ByForgetting(d)
    BY <1>3, <1>9, <1>10, <1>11, <1>12, <2>1, <2>2
  <2> QED
    BY <2>3 DEF paid
<1>14. CASE d # c
  <2>1. Worth(clients'[d]) <= Worth(clients[d]) + ByForgetting(d)
    BY <1>3, <1>5, <1>14, TablePays
  <2>2. paid = 0
    BY <1>12, <1>14
  <2>3. Worth(clients'[d]) \in Int
    <3>1. clients'[d] = table[d]
      BY <1>5, <1>14
    <3>2. clients'[d] # NoBucket => clients'[d] \in Bucket(IPRPM, IPConcurrency)
      <4> HIDE DEF table
      <4> QED
        BY <1>4, <3>1
    <3>3. clients'[d] # NoBucket => OwnWorth(clients'[d]) \in Nat
      BY <3>2, WorthType
    <3> QED
      BY <1>9, <3>3 DEF Worth
  <2>4. Worth(clients'[d]) + paid <= Worth(clients[d]) + ByForgetting(d)
    BY <2>1, <2>2, <2>3
  <2> QED
    BY <2>4 DEF paid
<1> QED
  BY <1>13, <1>14

LEMMA NobodyPays ==
  ASSUME TypeOK, TypeOK', NEW d \in Clients, LetIn(d) = 0,
         \/ clients'[d] = clients[d]
         \/ clients[d] # NoBucket /\ clients'[d] # NoBucket /\ OwnWorth(clients'[d]) <= OwnWorth(clients[d])
         \/ Worth(clients'[d]) <= Worth(clients[d]) + ByForgetting(d)
  PROVE  Worth(clients'[d]) + LetIn(d) * Minute <= Worth(clients[d]) + ByForgetting(d)
<1>1. /\ clients[d] # NoBucket => OwnWorth(clients[d]) \in Nat
      /\ clients'[d] # NoBucket => OwnWorth(clients'[d]) \in Nat
  BY WorthType DEF TypeOK
<1>2. MostTokens \in Nat /\ ByForgetting(d) \in Nat
  BY WorthType, ForgettingType
<1>3. Worth(clients[d]) \in Nat /\ Worth(clients'[d]) \in Nat
  BY <1>1, <1>2 DEF Worth
<1>4. LetIn(d) * Minute = 0
  BY Numbers
<1>5. Worth(clients'[d]) <= Worth(clients[d]) + ByForgetting(d)
  <2>1. CASE clients'[d] = clients[d]
    BY <1>2, <1>3, <2>1
  <2>2. CASE clients[d] # NoBucket /\ clients'[d] # NoBucket /\ OwnWorth(clients'[d]) <= OwnWorth(clients[d])
    <3>1. Worth(clients'[d]) <= Worth(clients[d])
      BY <1>1, <1>2, <2>2 DEF Worth
    <3> QED
      BY <1>2, <1>3, <3>1
  <2> QED
    BY <2>1, <2>2
<1> QED
  BY <1>3, <1>4, <1>5

LEMMA RefusesPays ==
  ASSUME TypeOK, TypeOK', Guarded, NEW r \in Requests, At(r, "arriving"), request[r].client \in Clients,
         request[r].late \in 0 .. MaxLate, Refuses(r), NEW d \in Clients
  PROVE  Worth(clients'[d]) + LetIn(d) * Minute <= Worth(clients[d]) + ByForgetting(d)
<1>1. PICK c, late : c = request[r].client /\ late = request[r].late
  OBVIOUS
<1> DEFINE table == TableFor(c, late)
<1>2. \/ clients' = table
      \/ /\ clients[c] # NoBucket
         /\ \E own \in Bucket(IPRPM, IPConcurrency) : clients' = [table EXCEPT ![c] = own] /\ OwnWorth(own) <= OwnWorth(clients[c])
  BY <1>1 DEF Refuses
<1>3. c \in Clients /\ late \in 0 .. MaxLate
  BY <1>1
<1>4. table \in [Clients -> Bucket(IPRPM, IPConcurrency) \cup {NoBucket}]
  BY <1>3, TableMakes
<1>5. LetIn(d) = 0
  <2>1. Moved(r, "away", Nobody, -1)
    BY DEF Refuses
  <2> QED
    BY <2>1, LetsInOne DEF Inside
<1>6. CASE clients' = table
  <2>1. Worth(clients'[d]) <= Worth(clients[d]) + ByForgetting(d)
    BY <1>3, <1>6, TablePays
  <2> QED
    BY <1>5, <2>1, NobodyPays
<1>7. ASSUME clients[c] # NoBucket, NEW own \in Bucket(IPRPM, IPConcurrency),
             clients' = [table EXCEPT ![c] = own], OwnWorth(own) <= OwnWorth(clients[c])
      PROVE  Worth(clients'[d]) + LetIn(d) * Minute <= Worth(clients[d]) + ByForgetting(d)
  <2>1. clients'[c] = own /\ \A x \in Clients \ {c} : clients'[x] = table[x]
    <3> HIDE DEF table
    <3> QED
      BY <1>3, <1>4, <1>7
  <2>2. CASE d = c
    BY <1>5, <1>7, <2>1, <2>2, NobodyPays, BucketAssumption
  <2>3. CASE d # c
    <3>1. Worth(clients'[d]) <= Worth(clients[d]) + ByForgetting(d)
      BY <1>3, <2>1, <2>3, TablePays
    <3> QED
      BY <1>5, <3>1, NobodyPays
  <2> QED
    BY <2>2, <2>3
<1> QED
  BY <1>2, <1>6, <1>7

(* Only time gives an address allowance, and each request of its that is   *)
(* let in costs a token, although the table of buckets forgets.            *)
THEOREM AdmissionAllowancePaid == Spec => AllowancePaid
<1>a. TypeOK => \A c \in Clients : Allowance(c) = Worth(clients[c])
  BY AllowanceIsWorth
<1>0. TypeOK' => (\A c \in Clients : Allowance(c) = Worth(clients[c]))'
  BY <1>a, PTL
<1> DEFINE Paid(c) == Allowance(c)' + LetIn(c) * Minute <= Allowance(c) + ByForgetting(c)
<1>1. ASSUME IInv, IInv', NEW r \in Requests, NEW c \in Clients,
             \/ \E k \in Clients : Arrive(r, k)
             \/ Acquire(r) \/ ReleaseIngress(r)
             \/ \E length \in Lengths : AdmitBody(r, length) \/ TestPolicy(r, length)
             \/ Leave(r) \/ EndTest(r)
             \/ CountHit(r) \/ Rate(r)
      PROVE  Paid(c)
  <2>1. TypeOK /\ TypeOK' /\ Guarded
    BY <1>1 DEF IInv
  <2>2. Allowance(c) = Worth(clients[c])
    BY <2>1, AllowanceIsWorth
  <2>3. Allowance(c)' = Worth(clients'[c])
    BY <1>0, <2>1
  <2> SUFFICES Worth(clients'[c]) + LetIn(c) * Minute <= Worth(clients[c]) + ByForgetting(c)
    BY <2>2, <2>3
  <2>4. CASE Acquire(r)
    <3>1. /\ At(r, "arriving") /\ request[r].client \in Clients /\ request[r].late \in 0 .. MaxLate
          /\ LetsIn(r) \/ Refuses(r)
      BY <2>1, <2>4, AcquireDecides
    <3> QED
      BY <2>1, <3>1, LetsInPays, RefusesPays
  <2>5. CASE ReleaseIngress(r)
    <3>1. /\ Moved(r, "away", Nobody, -1)
          /\ \A d \in Clients : clients'[d] # NoBucket => OwnWorth(clients'[d]) = OwnWorth(clients[d])
          /\ \A d \in Clients : clients'[d] = NoBucket <=> clients[d] = NoBucket
      BY <2>1, <2>5, ReleaseKeeps
    <3>2. LetIn(c) = 0
      BY <2>1, <3>1, LetsInOne DEF Inside
    <3>3. clients[c] # NoBucket => OwnWorth(clients[c]) \in Nat
      BY <2>1, WorthType DEF TypeOK
    <3> QED
      BY <2>1, <3>1, <3>2, <3>3, NobodyPays
  <2>6. CASE ~ Acquire(r) /\ ~ ReleaseIngress(r)
    <3>1. clients' = clients
      BY <1>1, <2>6 DEF Arrive, AdmitBody, TestPolicy, Leave, EndTest, CountHit, Rate, guard
    <3>2. /\ ~ At(r, "arriving") \/ request'[r].at \notin Inside
          /\ \A q \in Requests \ {r} : request'[q] = request[q]
      <4>1. CASE \E k \in Clients : Arrive(r, k)
        <5> PICK k \in Clients : Arrive(r, k)
          BY <4>1
        <5> QED
          BY <2>1, ArriveMoves DEF Moved, Arrive, At
      <4>2. CASE ~ \E k \in Clients : Arrive(r, k)
        <5>1. ~ At(r, "arriving")
          BY <1>1, <2>6, <4>2 DEF AdmitBody, TestPolicy, Leave, EndTest, CountHit, Rate, At
        <5>2. \A q \in Requests \ {r} : request'[q] = request[q]
          BY <1>1, <2>1, <2>6, <4>2 DEF AdmitBody, TestPolicy, Leave, EndTest, CountHit, Rate, Goes, TakeBody, TypeOK
        <5> QED
          BY <5>1, <5>2
      <4> QED
        BY <4>1, <4>2
    <3>3. {q \in InsideOf(c)' : At(q, "arriving")} = {}
      BY <3>2 DEF InsideOf, At, Inside
    <3>4. LetIn(c) = 0
      BY <3>3, FS_EmptySet DEF LetIn
    <3> QED
      BY <2>1, <3>1, <3>4, NobodyPays
  <2> QED
    BY <2>4, <2>5, <2>6
<1>2. IInv /\ IInv' /\ [Next]_vars => [Tick \/ \A c \in Clients : Paid(c)]_vars
  BY <1>1 DEF Next
<1> QED
  BY <1>2, InvariantHolds, PTL DEF Spec, AllowancePaid
=============================================================================
