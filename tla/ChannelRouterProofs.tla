------------------------ MODULE ChannelRouterProofs -------------------------
(***************************************************************************)
(* Proofs about ChannelRouter for any channels, requests, limits, clocks   *)
(* and edits.                                                              *)
(*                                                                         *)
(* The counters are only natural numbers because they are exact, and they  *)
(* are exact because a request has a reservation just while it is held,    *)
(* checked or sent (Phases): types, phases and counts go together as       *)
(* Conserved.  Health rests on it: a cooldown needs an adopted             *)
(* configuration, and revision and signature agree while one is adopted.   *)
(* The probe flag has an owner because whoever sets it holds the channel   *)
(* under the current signature, and every release by the owner clears it.  *)
(* Until the first edit of a channel all signatures of it agree, so the    *)
(* owner is the only probe (SoleProbe).  The window is sorted, so what is  *)
(* forgotten is what is old, and its counts are kept per tick: a tick then *)
(* takes the same number out of the window and of the minute (Metered).    *)
(***************************************************************************)
EXTENDS ChannelRouter, SumTheorems, FiniteSetTheorems, SequenceTheorems, WellFoundedInduction, TLAPS

(***************************************************************************)
(* A request has a reservation, of a channel among its candidates, from    *)
(* Acquire to its release; what it knows of a candidate is a committed     *)
(* revision, never the empty one, and from ReadKeys on a signature of it.  *)
(***************************************************************************)
Phase(r) ==
    /\ held[r] = NoChannel <=> pc[r] \in {"idle", "snapshot", "routing"}
    /\ held[r] # NoChannel => held[r] \in cands[r]
    /\ \A c \in cands[r] : snap[r][c] # 0
    /\ pc[r] \notin {"idle", "snapshot"} => \A c \in cands[r] : sig[r][c][1] = snap[r][c]

Phases == (\A c \in Channels : db[c] # 0) /\ (\A r \in Requests : Phase(r))

Conserved == TypeOK /\ Phases /\ ReservationsConserved

(***************************************************************************)
(* What every way of giving a reservation back has in common.              *)
(***************************************************************************)
Release(r) ==
    /\ pc[r] \in {"held", "checked", "sent"}
    /\ Unhold(r)
    /\ Continue(r)
    /\ probe' = IF Current(r) /\ isProbe[r] THEN [probe EXCEPT ![held[r]] = FALSE] ELSE probe
    /\ UNCHANGED <<now, db, keys, resets, revision, signature, sends>>

-----------------------------------------------------------------------------
(***************************************************************************)
(* The reservations of a channel are finitely many.                        *)
(***************************************************************************)
LEMMA HoldersFinite == \A c : IsFiniteSet(Holders(c)) /\ Cardinality(Holders(c)) \in Nat
  <1>1. \A c : Holders(c) \in SUBSET Requests
    BY DEF Holders
  <1>2. \A c : IsFiniteSet(Holders(c))
    BY <1>1, RequestsAssumption, FS_Subset
  <1>3. QED
    BY <1>2, FS_CardinalityType

(***************************************************************************)
(* A set of positions is no larger than the sequence.                      *)
(***************************************************************************)
LEMMA PositionsBound == ASSUME NEW n \in Nat, NEW T \in SUBSET (1 .. n)
                        PROVE  Cardinality(T) \in 0 .. n
  <1>1. IsFiniteSet(1 .. n) /\ Cardinality(1 .. n) = n
    BY FS_Interval
  <1>2. IsFiniteSet(T) /\ Cardinality(T) <= n
    BY <1>1, FS_Subset
  <1>3. QED
    BY <1>2, FS_CardinalityType

(***************************************************************************)
(* Forgetting old calls and inserting a new one keep a sequence of times.  *)
(***************************************************************************)
LEMMA RecentType == ASSUME NEW s \in Seq(Times) PROVE Recent(s) \in Seq(Times)
  <1>1. Len(s) \in Nat /\ Expired(s) \in SUBSET (1 .. Len(s))
    BY DEF Expired
  <1>2. PICK n \in 0 .. Len(s) : n = Cardinality(Expired(s))
    BY <1>1, PositionsBound
  <1>3. \A i \in n + 1 .. Len(s) : s[i] \in Times
    BY <1>1, ElementOfSeq
  <1>4. SubSeq(s, n + 1, Len(s)) \in Seq(Times)
    BY <1>1, <1>3, SubSeqProperties
  <1>5. QED
    BY <1>2, <1>4 DEF Recent

LEMMA InsertCallType == ASSUME NEW s \in Seq(Times), NEW t \in Times
                        PROVE  InsertCall(s, t) \in Seq(Times)
  <1> DEFINE T == {i \in 1 .. Len(s) : s[i] < t}
  <1>1. Len(s) \in Nat /\ T \in SUBSET (1 .. Len(s))
    OBVIOUS
  <1>2. PICK n \in 0 .. Len(s) : n = Cardinality(T)
    BY <1>1, PositionsBound
  <1>3. (\A i \in 1 .. n : s[i] \in Times) /\ (\A i \in n + 1 .. Len(s) : s[i] \in Times)
    BY <1>1, ElementOfSeq
  <1>4. SubSeq(s, 1, n) \in Seq(Times)
    BY <1>3, SubSeqProperties
  <1>5. SubSeq(s, n + 1, Len(s)) \in Seq(Times)
    BY <1>1, <1>3, SubSeqProperties
  <1>6. SubSeq(s, 1, n) \o <<t>> \o SubSeq(s, n + 1, Len(s)) \in Seq(Times)
    BY <1>4, <1>5, ConcatProperties
  <1>7. QED
    BY <1>2, <1>6 DEF InsertCall

(***************************************************************************)
(* The parts of a step keep the types of what they assign.                 *)
(***************************************************************************)
LEMMA ForgetTypes ==
    ASSUME TypeOK, NEW r \in Requests, Forget(r)
    PROVE  /\ pc' \in [Requests -> {"idle", "snapshot", "routing", "held", "checked", "sent"}]
           /\ cands' \in [Requests -> SUBSET Channels]
           /\ snap' \in [Requests -> [Channels -> Nat]]
           /\ sig' \in [Requests -> [Channels -> Nat \X Nat]]
           /\ used' \in [Requests -> SUBSET Channels]
  <1>1. [c \in Channels |-> 0] \in [Channels -> Nat]
    OBVIOUS
  <1>2. [c \in Channels |-> NoSignature] \in [Channels -> Nat \X Nat]
    BY DEF NoSignature
  <1>3. pc' \in [Requests -> {"idle", "snapshot", "routing", "held", "checked", "sent"}]
    BY DEF TypeOK, Forget
  <1>4. cands' \in [Requests -> SUBSET Channels] /\ used' \in [Requests -> SUBSET Channels]
    BY DEF TypeOK, Forget
  <1>5. snap' \in [Requests -> [Channels -> Nat]]
    BY <1>1 DEF TypeOK, Forget
  <1>6. sig' \in [Requests -> [Channels -> Nat \X Nat]]
    BY <1>2 DEF TypeOK, Forget
  <1>7. QED
    BY <1>3, <1>4, <1>5, <1>6

LEMMA ContinueTypes ==
    ASSUME TypeOK, NEW r \in Requests, Continue(r)
    PROVE  /\ pc' \in [Requests -> {"idle", "snapshot", "routing", "held", "checked", "sent"}]
           /\ cands' \in [Requests -> SUBSET Channels]
           /\ snap' \in [Requests -> [Channels -> Nat]]
           /\ sig' \in [Requests -> [Channels -> Nat \X Nat]]
           /\ used' \in [Requests -> SUBSET Channels]
  <1>1. CASE Forget(r)
    BY <1>1, ForgetTypes
  <1>2. CASE ~Forget(r)
    BY <1>2 DEF TypeOK, Continue
  <1>3. QED
    BY <1>1, <1>2

LEMMA VisitTypes ==
    ASSUME TypeOK, NEW r \in Requests, Visit(r)
    PROVE  /\ revision' \in [Channels -> Nat]
           /\ signature' \in [Channels -> Nat \X Nat]
           /\ until' \in [Channels -> Nat]
           /\ consecutive' \in [Channels -> 0 .. Threshold]
           /\ rpmCalls' \in [Channels -> Seq(Times)]
  <1>1. revision' \in [Channels -> Nat] /\ signature' \in [Channels -> Nat \X Nat]
    BY SMTT(40) DEF TypeOK, Visit
  <1>2. until' \in [Channels -> Nat] /\ consecutive' \in [Channels -> 0 .. Threshold]
    BY LimitsAssumption DEF TypeOK, Visit
  <1>3. \A c \in Channels : Recent(rpmCalls[c]) \in Seq(Times)
    BY RecentType DEF TypeOK
  <1>4. rpmCalls' \in [Channels -> Seq(Times)]
    BY <1>3 DEF TypeOK, Visit
  <1>5. QED
    BY <1>1, <1>2, <1>4

(***************************************************************************)
(* Giving a reservation back: the request leaves the holders of its        *)
(* channel, whose count was therefore not 0.                               *)
(***************************************************************************)
LEMMA HeldChannel ==
    ASSUME Conserved, NEW r \in Requests, pc[r] \in {"held", "checked", "sent"}
    PROVE  held[r] \in Channels /\ held[r] \in cands[r] /\ r \in Holders(held[r])
  BY DEF Conserved, TypeOK, Phases, Phase, Holders

LEMMA UnholdCounts ==
    ASSUME Conserved, NEW r \in Requests, pc[r] \in {"held", "checked", "sent"}, Unhold(r)
    PROVE  /\ inFlight' \in [Channels -> Nat] /\ rpmPending' \in [Channels -> Nat]
           /\ held' \in [Requests -> Channels \cup {NoChannel}]
           /\ isProbe' \in [Requests -> BOOLEAN]
           /\ attemptAt' \in [Requests -> Times]
           /\ \A c \in Channels : Holders(c)' = Holders(c) \ {r}
           /\ ReservationsConserved'
  <1> DEFINE d == held[r]
  <1>1. d \in Channels /\ r \in Holders(d)
    BY HeldChannel
  <1>2. \A c \in Channels : inFlight[c] = Cardinality(Holders(c)) /\ rpmPending[c] = inFlight[c]
    BY DEF Conserved, ReservationsConserved
  <1>3. Cardinality(Holders(d) \ {r}) = inFlight[d] - 1 /\ inFlight[d] - 1 \in Nat
    <2>1. IsFiniteSet(Holders(d))
      BY HoldersFinite
    <2>2. /\ IsFiniteSet(Holders(d) \ {r})
          /\ Cardinality(Holders(d) \ {r}) = Cardinality(Holders(d)) - 1
      BY <1>1, <2>1, FS_RemoveElement
    <2>3. Cardinality(Holders(d) \ {r}) \in Nat
      BY <2>2, FS_CardinalityType
    <2>4. QED
      BY <1>1, <1>2, <2>2, <2>3
  <1>4. inFlight' = [inFlight EXCEPT ![d] = @ - 1] /\ rpmPending' = [rpmPending EXCEPT ![d] = @ - 1]
    BY DEF Unhold
  <1>5. inFlight' \in [Channels -> Nat] /\ rpmPending' \in [Channels -> Nat]
    BY <1>1, <1>2, <1>3, <1>4 DEF Conserved, TypeOK
  <1>6. /\ held' \in [Requests -> Channels \cup {NoChannel}]
        /\ isProbe' \in [Requests -> BOOLEAN]
    BY DEF Conserved, TypeOK, Unhold
  <1>7. attemptAt' \in [Requests -> Times]
    BY LimitsAssumption DEF Conserved, TypeOK, Unhold, Times
  <1>8. \A c \in Channels : Holders(c)' = Holders(c) \ {r}
    <2>1. held \in [Requests -> Channels \cup {NoChannel}] /\ NoChannel \notin Channels
      BY LimitsAssumption DEF Conserved, TypeOK
    <2>2. held' = [held EXCEPT ![r] = NoChannel]
      BY DEF Unhold
    <2>3. QED
      BY <2>1, <2>2 DEF Holders
  <1>9. ReservationsConserved'
    <2> SUFFICES ASSUME NEW c \in Channels
                 PROVE  /\ inFlight'[c] = Cardinality(Holders(c)')
                        /\ rpmPending'[c] = inFlight'[c]
                        /\ inFlight'[c] <= MaxConcurrency[c]
      BY DEF ReservationsConserved
    <2>1. inFlight[c] <= MaxConcurrency[c] /\ inFlight[c] \in Nat /\ MaxConcurrency[c] \in Nat
      BY LimitsAssumption DEF Conserved, TypeOK, ReservationsConserved
    <2>2. CASE c = d
      <3>1. Holders(c)' = Holders(d) \ {r}
        BY <1>8, <2>2
      <3>2. inFlight'[c] = inFlight[c] - 1 /\ rpmPending'[c] = rpmPending[c] - 1
        BY <1>1, <1>4, <2>2 DEF Conserved, TypeOK
      <3>3. QED
        BY <1>2, <1>3, <2>1, <2>2, <3>1, <3>2
    <2>3. CASE c # d
      <3>1. Holders(c)' = Holders(c)
        BY <1>8, <2>3 DEF Holders
      <3>2. inFlight'[c] = inFlight[c] /\ rpmPending'[c] = rpmPending[c]
        BY <1>4, <2>3 DEF Conserved, TypeOK
      <3>3. QED
        BY <1>2, <2>1, <3>1, <3>2
    <2>4. QED
      BY <2>2, <2>3
  <1>10. QED
    BY <1>5, <1>6, <1>7, <1>8, <1>9

-----------------------------------------------------------------------------
(***************************************************************************)
(* Every path that gives a reservation back is a Release.                  *)
(***************************************************************************)
LEMMA ReleaseForm ==
    ASSUME Conserved, NEW r \in Requests,
           \/ Finish(r)
           \/ Unprepared(r)
           \/ pc[r] = "held" /\ Continue(r) /\ ReleaseUnsent(r)
    PROVE  Release(r)
  <1>1. CASE Finish(r)
    <2>1. pc[r] = "sent" /\ Charge(r) /\ Continue(r)
      BY <1>1 DEF Finish, Stale, Succeed, Cancelled, Fail, Charge, Continue
    <2>2. CASE Stale(r)
      BY <2>1, <2>2 DEF Stale, Charge, Release
    <2>3. CASE ~Stale(r)
      BY <1>1, <2>1, <2>3 DEF Finish, Succeed, Cancelled, Fail, Charge, ProbeDone, Release
    <2>4. QED
      BY <2>2, <2>3
  <1>2. CASE ~Finish(r)
    BY <1>2 DEF Unprepared, ReleaseUnsent, Release
  <1>3. QED
    BY <1>1, <1>2

(***************************************************************************)
(* The call is charged and the health of the channel keeps its type.       *)
(***************************************************************************)
LEMMA ExtendedType == ASSUME TypeOK, NEW c \in Channels, NEW n \in Nat
                      PROVE  Extended(c, n) \in Nat /\ Extended(c, n) >= until[c]
  BY DEF TypeOK, Times, Extended, larger

LEMMA FinishTypes ==
    ASSUME Conserved, NEW r \in Requests, Finish(r)
    PROVE  /\ rpmCalls' \in [Channels -> Seq(Times)]
           /\ consecutive' \in [Channels -> 0 .. Threshold]
           /\ until' \in [Channels -> Nat]
           /\ blame' \in [Channels -> Nat \X Nat]
  <1>1. Charge(r) /\ held[r] \in Channels
    BY HeldChannel DEF Finish, Stale, Succeed, Cancelled, Fail, Charge
  <1>2. rpmCalls' \in [Channels -> Seq(Times)]
    <2>1. rpmCalls[held[r]] \in Seq(Times) /\ attemptAt[r] \in Times
      BY <1>1 DEF Conserved, TypeOK
    <2>2. InsertCall(rpmCalls[held[r]], attemptAt[r]) \in Seq(Times)
      BY <2>1, InsertCallType
    <2>3. QED
      BY <1>1, <2>2 DEF Conserved, TypeOK, Charge
  <1>3. CASE Stale(r) \/ Succeed(r) \/ Cancelled(r)
    <2>1. blame' = blame
      BY <1>3 DEF Stale, Succeed, Cancelled
    <2>2. CASE UNCHANGED <<consecutive, until>>
      BY <1>2, <2>1, <2>2 DEF Conserved, TypeOK
    <2>3. CASE /\ consecutive' = [consecutive EXCEPT ![held[r]] = 0]
               /\ until' = [until EXCEPT ![held[r]] = 0]
      <3>1. 0 \in 0 .. Threshold
        BY LimitsAssumption
      <3>2. consecutive' \in [Channels -> 0 .. Threshold]
        BY <2>3, <3>1 DEF Conserved, TypeOK
      <3>3. until' \in [Channels -> Nat]
        BY <2>3 DEF Conserved, TypeOK
      <3>4. QED
        BY <1>2, <2>1, <3>2, <3>3 DEF Conserved, TypeOK
    <2>4. QED
      BY <1>3, <2>2, <2>3 DEF Stale, Succeed, Cancelled
  <1>4. CASE Fail(r)
    <2> DEFINE c == held[r]
               failures == IF consecutive[c] < Threshold THEN consecutive[c] + 1 ELSE Threshold
    <2>1. failures \in 0 .. Threshold
      <3>1. consecutive[c] \in 0 .. Threshold
        BY <1>1 DEF Conserved, TypeOK
      <3>2. QED
        BY <3>1, LimitsAssumption
    <2>2. /\ consecutive' = [consecutive EXCEPT ![c] = failures]
          /\ blame' = [blame EXCEPT ![c] = sig[r][c]]
          /\ \E asked \in RetryAfter :
                until' = IF Single(r) THEN until
                         ELSE [until EXCEPT ![c] =
                                 Extended(c, IF isProbe[r] \/ failures >= Threshold
                                             THEN larger(asked, FailureCooldown) ELSE asked)]
      BY <1>4 DEF Fail
    <2>3. PICK n \in Nat : until' = IF Single(r) THEN until ELSE [until EXCEPT ![c] = Extended(c, n)]
      BY <2>2, LimitsAssumption DEF larger
    <2>4. Extended(c, n) \in Nat
      BY <1>1, ExtendedType DEF Conserved
    <2>5. until' \in [Channels -> Nat]
      BY <2>3, <2>4 DEF Conserved, TypeOK
    <2>6. sig[r][c] \in Nat \X Nat
      BY <1>1 DEF Conserved, TypeOK
    <2>7. QED
      BY <1>2, <2>1, <2>2, <2>5, <2>6 DEF Conserved, TypeOK
  <1>5. QED
    BY <1>3, <1>4 DEF Finish

LEMMA ReleaseConserved ==
    ASSUME Conserved, NEW r \in Requests, Release(r),
           rpmCalls' \in [Channels -> Seq(Times)],
           consecutive' \in [Channels -> 0 .. Threshold],
           until' \in [Channels -> Nat],
           blame' \in [Channels -> Nat \X Nat]
    PROVE  Conserved'
  <1>1. pc[r] \in {"held", "checked", "sent"} /\ Unhold(r) /\ Continue(r)
    BY DEF Release
  <1>2. held[r] \in Channels
    BY <1>1, HeldChannel
  <1>3. probe' \in [Channels -> BOOLEAN]
    BY DEF Conserved, TypeOK, Release
  <1>4. TypeOK'
    <2>1. UNCHANGED <<now, db, keys, resets, revision, signature, sends>>
      BY DEF Release
    <2>2. TypeOK
      BY DEF Conserved
    <2>3. /\ pc' \in [Requests -> {"idle", "snapshot", "routing", "held", "checked", "sent"}]
          /\ cands' \in [Requests -> SUBSET Channels]
          /\ snap' \in [Requests -> [Channels -> Nat]]
          /\ sig' \in [Requests -> [Channels -> Nat \X Nat]]
          /\ used' \in [Requests -> SUBSET Channels]
      BY <1>1, <2>2, ContinueTypes
    <2>4. /\ inFlight' \in [Channels -> Nat] /\ rpmPending' \in [Channels -> Nat]
          /\ held' \in [Requests -> Channels \cup {NoChannel}]
          /\ isProbe' \in [Requests -> BOOLEAN]
          /\ attemptAt' \in [Requests -> Times]
      BY <1>1, UnholdCounts
    <2>5. QED
      BY <1>3, <2>1, <2>2, <2>3, <2>4 DEF TypeOK
  <1>5. Phases'
    <2>1. \A q \in Requests \ {r} : /\ pc'[q] = pc[q] /\ held'[q] = held[q]
                                    /\ cands'[q] = cands[q] /\ snap'[q] = snap[q]
                                    /\ sig'[q] = sig[q]
      BY <1>1 DEF Conserved, TypeOK, Unhold, Continue, Forget
    <2>2. pc'[r] \in {"idle", "routing"} /\ held'[r] = NoChannel
      BY <1>1 DEF Conserved, TypeOK, Unhold, Continue, Forget
    <2>3. cands'[r] = {} \/ (cands'[r] = cands[r] /\ snap'[r] = snap[r] /\ sig'[r] = sig[r])
      BY <1>1 DEF Conserved, TypeOK, Continue, Forget
    <2>4. \A c \in Channels : db'[c] # 0
      BY DEF Release, Conserved, Phases, Phase
    <2>5. ASSUME NEW q \in Requests PROVE Phase(q)'
      <3>1. CASE q = r
        BY ZenonT(60), <1>1, <2>2, <2>3, <3>1 DEF Conserved, Phases, Phase
      <3>2. CASE q # r
        <4>1. Phase(q)
          BY DEF Conserved, Phases
        <4>2. QED
          BY <2>1, <3>2, <4>1 DEF Phase
      <3>3. QED
        BY <3>1, <3>2
    <2>6. QED
      BY <2>4, <2>5 DEF Phases, Phase
  <1>6. ReservationsConserved'
    BY <1>1, UnholdCounts
  <1>7. QED
    BY <1>4, <1>5, <1>6 DEF Conserved

(***************************************************************************)
(* Acquire: one more holder, of a channel below its concurrency limit.     *)
(***************************************************************************)
LEMMA AcquireConserved == ASSUME Conserved, NEW r \in Requests, Acquire(r)
                          PROVE  Conserved'
  <1>1. pc[r] = "routing" /\ held[r] = NoChannel /\ Visit(r)
    BY DEF Acquire, Conserved, Phases, Phase
  <1>2. PICK d \in Eligible(r) :
          LET probing == ~Single(r) /\ d \notin Adopted(r) /\ until[d] # 0
          IN  /\ inFlight' = [inFlight EXCEPT ![d] = @ + 1]
              /\ rpmPending' = [rpmPending EXCEPT ![d] = @ + 1]
              /\ probe' = [c \in Channels |->
                             \/ c = d /\ probing
                             \/ c \notin Adopted(r) /\ probe[c]]
              /\ held' = [held EXCEPT ![r] = d]
              /\ used' = [used EXCEPT ![r] = @ \cup {d}]
              /\ isProbe' = [isProbe EXCEPT ![r] = probing]
    BY DEF Acquire
  <1>3. d \in Channels /\ d \in cands[r] /\ inFlight[d] < MaxConcurrency[d]
    BY DEF Eligible, Counted, Visited, Conserved, TypeOK
  <1>4. /\ pc' = [pc EXCEPT ![r] = "held"]
        /\ UNCHANGED <<now, db, keys, resets, cands, snap, sig, attemptAt, sends, blame>>
    BY DEF Acquire
  <1>5. /\ revision' \in [Channels -> Nat] /\ signature' \in [Channels -> Nat \X Nat]
        /\ until' \in [Channels -> Nat] /\ consecutive' \in [Channels -> 0 .. Threshold]
        /\ rpmCalls' \in [Channels -> Seq(Times)]
    BY <1>1, VisitTypes DEF Conserved
  <1>6. TypeOK'
    <2>1. inFlight' \in [Channels -> Nat] /\ rpmPending' \in [Channels -> Nat]
      <3>1. inFlight \in [Channels -> Nat] /\ rpmPending \in [Channels -> Nat]
        BY DEF Conserved, TypeOK
      <3>2. QED
        BY <1>2, <1>3, <3>1
    <2>2. probe' \in [Channels -> BOOLEAN] /\ isProbe' \in [Requests -> BOOLEAN]
      BY <1>2 DEF Conserved, TypeOK
    <2>3. /\ held' \in [Requests -> Channels \cup {NoChannel}]
          /\ used' \in [Requests -> SUBSET Channels]
      BY <1>2, <1>3 DEF Conserved, TypeOK
    <2>4. pc' \in [Requests -> {"idle", "snapshot", "routing", "held", "checked", "sent"}]
      BY <1>4 DEF Conserved, TypeOK
    <2>5. QED
      BY <1>4, <1>5, <2>1, <2>2, <2>3, <2>4 DEF Conserved, TypeOK
  <1>7. Phases'
    <2>1. ASSUME NEW q \in Requests PROVE Phase(q)'
      <3>1. CASE q = r
        <4>1. held'[q] = d /\ pc'[q] = "held"
          BY <1>2, <1>4, <3>1 DEF Conserved, TypeOK
        <4>2. QED
          BY <1>1, <1>3, <1>4, <3>1, <4>1, LimitsAssumption DEF Conserved, Phases, Phase
      <3>2. CASE q # r
        <4>1. held'[q] = held[q] /\ pc'[q] = pc[q]
          BY <1>2, <1>4, <3>2 DEF Conserved, TypeOK
        <4>2. QED
          BY <1>4, <4>1 DEF Conserved, Phases, Phase
      <3>3. QED
        BY <3>1, <3>2
    <2>2. QED
      BY <1>4, <2>1 DEF Conserved, Phases, Phase
  <1>8. ReservationsConserved'
    <2> SUFFICES ASSUME NEW c \in Channels
                 PROVE  /\ inFlight'[c] = Cardinality(Holders(c)')
                        /\ rpmPending'[c] = inFlight'[c]
                        /\ inFlight'[c] <= MaxConcurrency[c]
      BY DEF ReservationsConserved
    <2>h. held' = [held EXCEPT ![r] = d] /\ held \in [Requests -> Channels \cup {NoChannel}]
      BY <1>2 DEF Conserved, TypeOK
    <2>1. /\ inFlight[c] = Cardinality(Holders(c)) /\ rpmPending[c] = inFlight[c]
          /\ inFlight[c] <= MaxConcurrency[c]
      BY DEF Conserved, ReservationsConserved
    <2>2. CASE c = d
      <3>1. Holders(c)' = Holders(c) \cup {r} /\ r \notin Holders(c)
        BY <1>1, <2>h, <2>2, LimitsAssumption DEF Holders
      <3>2. IsFiniteSet(Holders(c))
        BY HoldersFinite
      <3>3. Cardinality(Holders(c) \cup {r}) = Cardinality(Holders(c)) + 1
        BY <3>1, <3>2, FS_AddElement
      <3>4. inFlight'[c] = inFlight[c] + 1 /\ rpmPending'[c] = rpmPending[c] + 1
        BY <1>2, <1>3, <2>2 DEF Conserved, TypeOK
      <3>5. inFlight[c] \in Nat /\ MaxConcurrency[c] \in Nat /\ inFlight[c] < MaxConcurrency[c]
        BY <1>3, <2>2, LimitsAssumption DEF Conserved, TypeOK
      <3>6. QED
        BY <2>1, <3>1, <3>3, <3>4, <3>5
    <2>3. CASE c # d
      <3>1. Holders(c)' = Holders(c)
        BY <1>1, <2>h, <2>3, LimitsAssumption DEF Holders
      <3>2. inFlight'[c] = inFlight[c] /\ rpmPending'[c] = rpmPending[c]
        BY <1>2, <2>3 DEF Conserved, TypeOK
      <3>3. QED
        BY <2>1, <3>1, <3>2
    <2>4. QED
      BY <2>2, <2>3
  <1>9. QED
    BY <1>6, <1>7, <1>8 DEF Conserved

(***************************************************************************)
(* The steps that neither make nor give back a reservation.                *)
(***************************************************************************)
LEMMA CountsUnchanged ==
    ASSUME Conserved, UNCHANGED <<inFlight, rpmPending, held>>
    PROVE  ReservationsConserved'
  BY DEF Conserved, ReservationsConserved, Holders

LEMMA BeginConserved == ASSUME Conserved, NEW r \in Requests, Begin(r) PROVE Conserved'
  <1>1. PICK C \in Policies :
          /\ cands' = [cands EXCEPT ![r] = C]
          /\ snap' = [snap EXCEPT ![r] = [c \in Channels |-> IF c \in C THEN db[c] ELSE 0]]
    BY DEF Begin
  <1>2. /\ pc[r] = "idle" /\ held[r] = NoChannel /\ pc' = [pc EXCEPT ![r] = "snapshot"]
        /\ UNCHANGED <<now, db, keys, resets, memory, sig, used, held, isProbe, attemptAt,
                       sends, blame>>
    BY DEF Begin, Conserved, Phases, Phase
  <1>3. C \in SUBSET Channels /\ \A c \in Channels : db[c] \in Nat /\ db[c] # 0
    BY LimitsAssumption DEF Conserved, TypeOK, Phases
  <1>4. [c \in Channels |-> IF c \in C THEN db[c] ELSE 0] \in [Channels -> Nat]
    BY <1>3
  <1>5. cands' \in [Requests -> SUBSET Channels] /\ snap' \in [Requests -> [Channels -> Nat]]
    BY <1>1, <1>3, <1>4 DEF Conserved, TypeOK
  <1>6. TypeOK'
    BY <1>2, <1>5 DEF Conserved, TypeOK, memory
  <1>7. ASSUME NEW q \in Requests PROVE Phase(q)'
    <2>1. CASE q = r
      <3>1. cands'[r] = C /\ snap'[r] = [c \in Channels |-> IF c \in C THEN db[c] ELSE 0]
        BY <1>1 DEF Conserved, TypeOK
      <3>2. pc'[r] = "snapshot" /\ held'[r] = NoChannel
        BY <1>2 DEF Conserved, TypeOK
      <3>3. QED
        BY <1>3, <2>1, <3>1, <3>2 DEF Phase
    <2>2. CASE q # r
      <3>1. pc'[q] = pc[q] /\ cands'[q] = cands[q] /\ snap'[q] = snap[q]
        BY <1>1, <1>2, <2>2 DEF Conserved, TypeOK
      <3>2. QED
        BY <1>2, <3>1 DEF Conserved, Phases, Phase
    <2>3. QED
      BY <2>1, <2>2
  <1>8. QED
    BY <1>2, <1>6, <1>7, CountsUnchanged DEF Conserved, Phases, memory

LEMMA ReadKeysConserved == ASSUME Conserved, NEW r \in Requests, ReadKeys(r) PROVE Conserved'
  <1> DEFINE read == [c \in Channels |->
                        IF c \in cands[r] THEN <<snap[r][c], keys[c]>> ELSE NoSignature]
  <1>1. /\ pc[r] = "snapshot" /\ held[r] = NoChannel
        /\ sig' = [sig EXCEPT ![r] = read] /\ pc' = [pc EXCEPT ![r] = "routing"]
        /\ UNCHANGED <<now, db, keys, resets, memory, cands, snap, used, held, isProbe, attemptAt,
                       sends, blame>>
    BY DEF ReadKeys, Conserved, Phases, Phase
  <1>2. read \in [Channels -> Nat \X Nat]
    BY SMTT(40) DEF Conserved, TypeOK, NoSignature
  <1>3. sig' \in [Requests -> [Channels -> Nat \X Nat]]
    BY <1>1, <1>2 DEF Conserved, TypeOK
  <1>4. TypeOK'
    BY <1>1, <1>3 DEF Conserved, TypeOK, memory
  <1>5. ASSUME NEW q \in Requests PROVE Phase(q)'
    <2>1. CASE q = r
      <3>1. cands[r] \in SUBSET Channels /\ sig'[r] = read /\ pc'[r] = "routing"
        BY <1>1 DEF Conserved, TypeOK
      <3>2. \A c \in cands[r] : sig'[r][c][1] = snap[r][c]
        BY <3>1
      <3>3. QED
        BY <1>1, <2>1, <3>1, <3>2 DEF Conserved, Phases, Phase
    <2>2. CASE q # r
      <3>1. pc'[q] = pc[q] /\ sig'[q] = sig[q]
        BY <1>1, <2>2 DEF Conserved, TypeOK
      <3>2. QED
        BY <1>1, <3>1 DEF Conserved, Phases, Phase
    <2>3. QED
      BY <2>1, <2>2
  <1>6. QED
    BY <1>1, <1>4, <1>5, CountsUnchanged DEF Conserved, Phases, memory

LEMMA ForgetConserved ==
    ASSUME Conserved, NEW r \in Requests, NoRoute(r) \/ GiveUp(r)
    PROVE  Conserved'
  <1>1. /\ UNCHANGED <<now, db, keys, resets, inFlight, rpmPending, held, isProbe, attemptAt, sends, blame>>
        /\ held[r] = NoChannel /\ Forget(r)
    BY DEF NoRoute, GiveUp, memory, Conserved, Phases, Phase
  <1>2. /\ revision' \in [Channels -> Nat] /\ signature' \in [Channels -> Nat \X Nat]
        /\ until' \in [Channels -> Nat] /\ consecutive' \in [Channels -> 0 .. Threshold]
        /\ rpmCalls' \in [Channels -> Seq(Times)] /\ probe' \in [Channels -> BOOLEAN]
    <2>1. CASE NoRoute(r)
      BY <2>1, VisitTypes DEF NoRoute, Conserved
    <2>2. CASE GiveUp(r)
      BY <2>2 DEF GiveUp, memory, Conserved, TypeOK
    <2>3. QED
      BY <2>1, <2>2
  <1>3. TypeOK'
    BY <1>1, <1>2, ForgetTypes DEF Conserved, TypeOK
  <1>4. pc'[r] = "idle" /\ cands'[r] = {}
    BY <1>1 DEF Forget, Conserved, TypeOK
  <1>5. \A q \in Requests \ {r} : /\ pc'[q] = pc[q] /\ cands'[q] = cands[q]
                                  /\ snap'[q] = snap[q] /\ sig'[q] = sig[q]
    BY <1>1 DEF Forget, Conserved, TypeOK
  <1>6. Phases'
    BY <1>1, <1>4, <1>5 DEF Conserved, Phases, Phase
  <1>7. QED
    BY <1>1, <1>3, <1>6, CountsUnchanged DEF Conserved

LEMMA AttemptConserved ==
    ASSUME Conserved, NEW r \in Requests, Recheck(r) \/ Unprepared(r) \/ Send(r) \/ Finish(r)
    PROVE  Conserved'
  <1>1. CASE Finish(r)
    BY <1>1, ReleaseForm, FinishTypes, ReleaseConserved
  <1>2. CASE Unprepared(r) \/ (pc[r] = "held" /\ Continue(r) /\ ReleaseUnsent(r))
    <2>1. UNCHANGED <<rpmCalls, consecutive, until, blame>>
      BY <1>2 DEF Unprepared, ReleaseUnsent
    <2>2. QED
      BY <1>2, <2>1, ReleaseForm, ReleaseConserved DEF Conserved, TypeOK
  <1>3. CASE Send(r)
    <2>1. held[r] \in Channels /\ now \in Times
      BY <1>3, HeldChannel DEF Send, Conserved, TypeOK
    <2>2. /\ pc' = [pc EXCEPT ![r] = "sent"]
          /\ attemptAt' = [attemptAt EXCEPT ![r] = now]
          /\ sends' = [sends EXCEPT ![held[r]][now] = @ + 1]
          /\ UNCHANGED <<now, db, keys, resets, memory, cands, snap, sig, used, held, isProbe, blame>>
      BY <1>3 DEF Send
    <2>3. sends' \in [Channels -> [Times -> Nat]]
      BY SMTT(40), <2>1, <2>2 DEF Conserved, TypeOK
    <2>4. TypeOK'
      BY <2>1, <2>2, <2>3 DEF Conserved, TypeOK, memory
    <2>5. Phases'
      <3>1. pc[r] = "checked" /\ \A q \in Requests \ {r} : pc'[q] = pc[q]
        BY <1>3, <2>2 DEF Send, Conserved, TypeOK
      <3>2. pc'[r] = "sent"
        BY <2>2 DEF Conserved, TypeOK
      <3>3. QED
        BY <2>2, <3>1, <3>2 DEF Conserved, Phases, Phase
    <2>6. QED
      BY <2>2, <2>4, <2>5, CountsUnchanged DEF Conserved, memory
  <1>4. CASE /\ pc[r] = "held"
             /\ pc' = [pc EXCEPT ![r] = "checked"]
             /\ UNCHANGED <<now, db, keys, resets, memory, cands, snap, sig, used, held, isProbe,
                            attemptAt, sends, blame>>
    <2>1. TypeOK'
      BY <1>4 DEF Conserved, TypeOK, memory
    <2>2. Phases'
      BY ZenonT(40), <1>4 DEF Conserved, TypeOK, Phases, Phase
    <2>3. QED
      BY <1>4, <2>1, <2>2, CountsUnchanged DEF Conserved, memory
  <1>5. QED
    BY <1>1, <1>2, <1>3, <1>4 DEF Recheck

(***************************************************************************)
(* Administrators and the clock touch no request.                          *)
(***************************************************************************)
LEMMA EditConserved == ASSUME Conserved, NEW c \in Channels, EditChannel(c)
                       PROVE  Conserved'
  <1>1. /\ db' = [db EXCEPT ![c] = db[c] + 1] /\ resets' = [resets EXCEPT ![c] = resets[c] + 1]
        /\ UNCHANGED <<now, keys, memory, request, sends, blame>>
    BY DEF EditChannel
  <1>2. db' \in [Channels -> Nat]
    BY SMTT(40), <1>1 DEF Conserved, TypeOK
  <1>3. resets' \in [Channels -> Nat]
    BY SMTT(40), <1>1 DEF Conserved, TypeOK
  <1>4. TypeOK'
    BY <1>1, <1>2, <1>3 DEF Conserved, TypeOK, memory, request
  <1>5. Phases'
    <2>1. \A d \in Channels : db[d] \in Nat /\ db[d] # 0
      BY DEF Conserved, TypeOK, Phases
    <2>2. \A d \in Channels : db'[d] # 0
      BY <1>1, <2>1
    <2>3. \A r \in Requests : Phase(r)'
      BY <1>1 DEF Conserved, Phases, Phase, request
    <2>4. QED
      BY <2>2, <2>3 DEF Phases
  <1>6. QED
    BY <1>1, <1>4, <1>5, CountsUnchanged DEF Conserved, memory, request

LEMMA CredentialConserved == ASSUME Conserved, NEW C \in SUBSET Channels, EditCredential(C)
                             PROVE  Conserved'
  <1>1. /\ db' = [c \in Channels |-> IF c \in C THEN db[c] + 1 ELSE db[c]]
        /\ UNCHANGED <<now, resets, memory, request, sends, blame>>
    BY DEF EditCredential
  <1>2. \A c \in Channels : db[c] \in Nat /\ db[c] # 0
    BY DEF Conserved, TypeOK, Phases, Phase
  <1>3. db' \in [Channels -> Nat] /\ \A c \in Channels : db'[c] # 0
    BY <1>1, <1>2
  <1>4. keys' \in [Channels -> Nat]
    <2>1. \/ keys' = [c \in Channels |-> IF c \in C THEN keys[c] + 1 ELSE keys[c]]
          \/ keys' = keys
      BY DEF EditCredential
    <2>2. \A c \in Channels : keys[c] \in Nat
      BY DEF Conserved, TypeOK
    <2>3. CASE keys' = [c \in Channels |-> IF c \in C THEN keys[c] + 1 ELSE keys[c]]
      BY <2>2, <2>3
    <2>4. CASE keys' = keys
      BY <2>4 DEF Conserved, TypeOK
    <2>5. QED
      BY <2>1, <2>3, <2>4
  <1>5. TypeOK'
    BY <1>1, <1>3, <1>4 DEF Conserved, TypeOK, memory, request
  <1>6. Phases'
    BY <1>1, <1>3 DEF Conserved, Phases, Phase, request
  <1>7. QED
    BY <1>1, <1>5, <1>6, CountsUnchanged DEF Conserved, memory, request

LEMMA ResetConserved == ASSUME Conserved, NEW c \in Channels, ResetChannel(c)
                        PROVE  Conserved'
  <1>1. /\ UNCHANGED <<now, db, keys, revision, inFlight, rpmPending, rpmCalls, request, sends, blame>>
        /\ resets' = [resets EXCEPT ![c] = resets[c] - 1] /\ resets[c] > 0
        /\ signature' = [signature EXCEPT ![c] = NoSignature]
        /\ until' = [until EXCEPT ![c] = 0]
        /\ probe' = [probe EXCEPT ![c] = FALSE]
        /\ consecutive' = [consecutive EXCEPT ![c] = 0]
    BY DEF ResetChannel
  <1>2. resets' \in [Channels -> Nat]
    BY SMTT(40), <1>1 DEF Conserved, TypeOK
  <1>3. signature' \in [Channels -> Nat \X Nat]
    BY <1>1 DEF Conserved, TypeOK, NoSignature
  <1>4. until' \in [Channels -> Nat]
    BY <1>1 DEF Conserved, TypeOK
  <1>5. 0 \in 0 .. Threshold
    BY LimitsAssumption
  <1>6. consecutive' \in [Channels -> 0 .. Threshold]
    BY <1>1, <1>5 DEF Conserved, TypeOK
  <1>7. probe' \in [Channels -> BOOLEAN]
    BY <1>1 DEF Conserved, TypeOK
  <1>8. TypeOK'
    BY <1>1, <1>2, <1>3, <1>4, <1>6, <1>7 DEF Conserved, TypeOK, request
  <1>9. Phases'
    BY <1>1 DEF Conserved, Phases, Phase, request
  <1>10. QED
    BY <1>1, <1>8, <1>9, CountsUnchanged DEF Conserved, request

LEMMA ReadHealthConserved == ASSUME Conserved, NEW c \in Channels, ReadHealth(c)
                             PROVE  Conserved'
  <1>1. /\ rpmCalls' = [rpmCalls EXCEPT ![c] = Recent(rpmCalls[c])]
        /\ UNCHANGED <<now, db, keys, resets, revision, inFlight, rpmPending, health, request, sends, blame>>
    BY DEF ReadHealth
  <1>2. Recent(rpmCalls[c]) \in Seq(Times)
    BY RecentType DEF Conserved, TypeOK
  <1>3. TypeOK'
    BY <1>1, <1>2 DEF Conserved, TypeOK, health, request
  <1>4. Phases'
    BY <1>1 DEF Conserved, Phases, Phase, request
  <1>5. QED
    BY <1>1, <1>3, <1>4, CountsUnchanged DEF Conserved, request

LEMMA TickConserved == ASSUME Conserved, Tick PROVE Conserved'
  <1>1. now' \in Times
    BY LimitsAssumption DEF Tick, Conserved, TypeOK, Times
  <1>2. sends' \in [Channels -> [Times -> Nat]]
    BY DEF Tick, Conserved, TypeOK
  <1>3. UNCHANGED <<db, keys, resets, memory, request, blame>>
    BY DEF Tick
  <1>4. TypeOK' /\ Phases'
    BY <1>1, <1>2, <1>3 DEF Conserved, TypeOK, Phases, Phase, memory, request
  <1>5. QED
    BY <1>3, <1>4, CountsUnchanged DEF Conserved, memory, request

LEMMA InitConserved == Init => Conserved
  <1> SUFFICES ASSUME Init PROVE Conserved
    OBVIOUS
  <1>1. TypeOK
    BY LimitsAssumption, EmptySeq DEF Init, TypeOK, Times, NoSignature
  <1>2. Phases
    BY DEF Init, Phases, Phase
  <1>3. \A c \in Channels : Holders(c) = {}
    BY LimitsAssumption DEF Init, Holders
  <1>4. ReservationsConserved
    <2>1. \A c \in Channels : Cardinality(Holders(c)) = 0
      BY <1>3, FS_EmptySet
    <2>2. \A c \in Channels : MaxConcurrency[c] >= 0
      BY LimitsAssumption
    <2>3. QED
      BY <2>1, <2>2 DEF Init, ReservationsConserved
  <1>5. QED
    BY <1>1, <1>2, <1>4 DEF Conserved

LEMMA StepConserved == Conserved /\ [Next]_vars => Conserved'
  <1> SUFFICES ASSUME Conserved, [Next]_vars PROVE Conserved'
    OBVIOUS
  <1>1. CASE Next
    BY <1>1, AcquireConserved, BeginConserved, ReadKeysConserved, ForgetConserved,
       AttemptConserved, EditConserved, CredentialConserved, ResetConserved, ReadHealthConserved, TickConserved DEF Next, Proceed
  <1>2. CASE UNCHANGED vars
    <2>1. TypeOK' /\ Phases'
      BY <1>2 DEF vars, memory, request, Conserved, TypeOK, Phases, Phase
    <2>2. QED
      BY <1>2, <2>1, CountsUnchanged DEF vars, memory, request, Conserved
  <1>3. QED
    BY <1>1, <1>2

LEMMA AlwaysConserved == Spec => []Conserved
  BY InitConserved, StepConserved, PTL DEF Spec

-----------------------------------------------------------------------------
(***************************************************************************)
(* The router's state is well typed; in particular no counter ever goes    *)
(* below zero.                                                             *)
(***************************************************************************)
THEOREM RouterTypeCorrect == Spec => []TypeOK
  <1>1. Conserved => TypeOK
    BY DEF Conserved
  <1>2. QED
    BY <1>1, AlwaysConserved, PTL

(***************************************************************************)
(* inFlight and rpmPending are the number of outstanding reservations,     *)
(* within the concurrency limit, for any number of requests and any        *)
(* interleaving with edits and resets.                                     *)
(***************************************************************************)
THEOREM RouterReservations == Spec => []ReservationsConserved
  <1>1. Conserved => ReservationsConserved
    BY DEF Conserved
  <1>2. QED
    BY <1>1, AlwaysConserved, PTL

-----------------------------------------------------------------------------
(***************************************************************************)
(* A channel has the configuration of its revision, or none after a reset; *)
(* a cooldown or a failure count is there only while it has one, the one   *)
(* that failed.                                                            *)
(***************************************************************************)
Healthy ==
    \A c \in Channels :
        /\ signature[c] # NoSignature => signature[c][1] = revision[c]
        /\ until[c] # 0 \/ consecutive[c] # 0 =>
              signature[c] # NoSignature /\ blame[c] = signature[c]

(***************************************************************************)
(* Steps that leave the configuration and the health alone.                *)
(***************************************************************************)
LEMMA HealthUnchanged ==
    ASSUME Healthy, UNCHANGED <<revision, signature, consecutive, until, blame>>
    PROVE  Healthy'
  BY DEF Healthy

LEMMA VisitHealthy ==
    ASSUME Conserved, Healthy, NEW r \in Requests, pc[r] = "routing", Visit(r), UNCHANGED blame
    PROVE  Healthy'
  <1> SUFFICES ASSUME NEW c \in Channels
               PROVE  /\ signature'[c] # NoSignature => signature'[c][1] = revision'[c]
                      /\ until'[c] # 0 \/ consecutive'[c] # 0 =>
                            signature'[c] # NoSignature /\ blame'[c] = signature'[c]
    BY DEF Healthy
  <1>1. CASE c \in Adopted(r)
    <2>1. sig[r][c][1] = snap[r][c]
      BY <1>1 DEF Adopted, Visited, Conserved, Phases, Phase
    <2>2. /\ signature'[c] = sig[r][c] /\ revision'[c] = snap[r][c]
          /\ until'[c] = 0 /\ consecutive'[c] = 0
      BY <1>1 DEF Visit
    <2>3. QED
      BY <2>1, <2>2
  <1>2. CASE c \notin Adopted(r)
    BY <1>2 DEF Visit, Healthy
  <1>3. QED
    BY <1>1, <1>2

(***************************************************************************)
(* A failure is marked under the same signature only, and the signature a  *)
(* request compares with is never the empty one.                           *)
(***************************************************************************)
LEMMA FinishHealthy ==
    ASSUME Conserved, Healthy, NEW r \in Requests, Finish(r)
    PROVE  Healthy'
  <1> DEFINE d == held[r]
  <1>1. UNCHANGED <<revision, signature>> /\ pc[r] = "sent"
    BY DEF Finish, Stale, Succeed, Cancelled, Fail, Charge
  <1>2. d \in Channels /\ sig[r][d] # NoSignature
    <2>1. d \in Channels /\ d \in cands[r]
      BY <1>1, HeldChannel
    <2>2. snap[r][d] # 0 /\ sig[r][d][1] = snap[r][d]
      BY <1>1, <2>1 DEF Conserved, Phases, Phase
    <2>3. QED
      BY <2>1, <2>2 DEF NoSignature
  <1>3. CASE Stale(r) \/ Cancelled(r)
    BY <1>1, <1>3, HealthUnchanged DEF Stale, Cancelled
  <1>4. CASE Succeed(r)
    <2>1. /\ consecutive' = [consecutive EXCEPT ![d] = 0]
          /\ until' = [until EXCEPT ![d] = 0]
          /\ blame' = blame
      BY <1>4 DEF Succeed
    <2>2. QED
      BY <1>1, <1>2, <2>1 DEF Healthy, Conserved, TypeOK
  <1>5. CASE Fail(r)
    <2>1. signature[d] = sig[r][d]
      BY <1>5 DEF Fail, Current
    <2>2. /\ \A c \in Channels \ {d} : consecutive'[c] = consecutive[c] /\ until'[c] = until[c]
          /\ blame' = [blame EXCEPT ![d] = sig[r][d]]
      BY <1>5 DEF Fail, Conserved, TypeOK
    <2>3. blame'[d] = sig[r][d] /\ \A c \in Channels \ {d} : blame'[c] = blame[c]
      BY <1>2, <2>2 DEF Conserved, TypeOK
    <2>4. QED
      BY <1>1, <1>2, <2>1, <2>2, <2>3 DEF Healthy
  <1>6. QED
    BY <1>3, <1>4, <1>5 DEF Finish

LEMMA ResetHealthy ==
    ASSUME Conserved, Healthy, NEW c \in Channels, ResetChannel(c)
    PROVE  Healthy'
  <1>1. /\ signature' = [signature EXCEPT ![c] = NoSignature]
        /\ until' = [until EXCEPT ![c] = 0]
        /\ consecutive' = [consecutive EXCEPT ![c] = 0]
        /\ UNCHANGED <<revision, blame>>
    BY DEF ResetChannel
  <1>2. QED
    BY <1>1 DEF Healthy, Conserved, TypeOK

LEMMA StepHealthy == Conserved /\ Healthy /\ [Next]_vars => Healthy'
  <1> SUFFICES ASSUME Conserved, Healthy, [Next]_vars PROVE Healthy'
    OBVIOUS
  <1>1. ASSUME NEW r \in Requests, Acquire(r) \/ NoRoute(r) PROVE Healthy'
    BY <1>1, VisitHealthy DEF Acquire, NoRoute
  <1>2. ASSUME NEW r \in Requests, Begin(r) \/ ReadKeys(r) \/ GiveUp(r) \/ Send(r)
                              \/ Recheck(r) \/ Unprepared(r)
        PROVE  Healthy'
    BY <1>2, HealthUnchanged
       DEF Begin, ReadKeys, GiveUp, Send, Recheck, Unprepared, ReleaseUnsent, memory
  <1>3. ASSUME NEW r \in Requests, Finish(r) PROVE Healthy'
    BY <1>3, FinishHealthy
  <1>4. ASSUME NEW c \in Channels, EditChannel(c) \/ ResetChannel(c) \/ ReadHealth(c) PROVE Healthy'
    BY <1>4, HealthUnchanged, ResetHealthy DEF EditChannel, ReadHealth, memory, health
  <1>5. ASSUME NEW C \in SUBSET Channels, EditCredential(C) PROVE Healthy'
    BY <1>5, HealthUnchanged DEF EditCredential, memory
  <1>6. CASE Tick \/ UNCHANGED vars
    BY <1>6, HealthUnchanged DEF Tick, vars, memory
  <1>7. QED
    BY <1>1, <1>2, <1>3, <1>4, <1>5, <1>6 DEF Next, Proceed

LEMMA AlwaysHealthy == Spec => []Healthy
  <1>1. Init => Healthy
    BY DEF Init, Healthy
  <1>2. QED
    BY <1>1, StepHealthy, AlwaysConserved, PTL DEF Spec

(***************************************************************************)
(* A cooldown and a failure count belong to the configuration memory has   *)
(* for the channel, whatever old requests complete in the meantime.        *)
(***************************************************************************)
THEOREM RouterHealth == Spec => []HealthOfConfiguration
  <1>1. Healthy => HealthOfConfiguration
    BY DEF Healthy, HealthOfConfiguration
  <1>2. QED
    BY <1>1, AlwaysHealthy, PTL

-----------------------------------------------------------------------------
(***************************************************************************)
(* A cooldown ends early only by an adoption, a reset or a success.        *)
(***************************************************************************)
CooldownKept ==
    \A c \in Channels : until'[c] < until[c] =>
        /\ until'[c] = 0
        /\ \/ signature'[c] # signature[c]
           \/ \E r \in Requests : pc[r] = "sent" /\ held[r] = c /\ pc'[r] = "idle"

LEMMA UntilUnchanged == ASSUME TypeOK, UNCHANGED until PROVE CooldownKept
  BY DEF TypeOK, CooldownKept

LEMMA VisitCooldown == ASSUME TypeOK, NEW r \in Requests, Visit(r) PROVE CooldownKept
  <1> SUFFICES ASSUME NEW c \in Channels, until'[c] < until[c]
               PROVE  until'[c] = 0 /\ signature'[c] # signature[c]
    BY DEF CooldownKept
  <1>1. until[c] \in Nat
    BY DEF TypeOK
  <1>2. c \in Adopted(r)
    BY <1>1 DEF Visit
  <1>3. QED
    BY <1>2 DEF Visit, Adopted

LEMMA FinishCooldown ==
    ASSUME Conserved, NEW r \in Requests, Finish(r)
    PROVE  CooldownKept
  <1> DEFINE d == held[r]
  <1>1. pc[r] = "sent" /\ d \in Channels
    BY HeldChannel DEF Finish, Stale, Succeed, Cancelled, Fail, Charge
  <1>2. CASE Stale(r) \/ Cancelled(r)
    BY <1>2, UntilUnchanged DEF Stale, Cancelled, Conserved
  <1>3. CASE Succeed(r)
    <2>1. pc'[r] = "idle" /\ until' = [until EXCEPT ![d] = 0]
      BY <1>3 DEF Succeed, Forget, Conserved, TypeOK
    <2>2. until'[d] = 0 /\ \A c \in Channels \ {d} : until'[c] = until[c] /\ until[c] \in Nat
      BY <1>1, <2>1 DEF Conserved, TypeOK
    <2>3. QED
      BY <1>1, <2>1, <2>2 DEF CooldownKept
  <1>4. CASE Fail(r)
    <2>1. PICK n \in Nat : until' = IF Single(r) THEN until ELSE [until EXCEPT ![d] = Extended(d, n)]
      <3> DEFINE failures == IF consecutive[d] < Threshold THEN consecutive[d] + 1 ELSE Threshold
      <3>1. \E asked \in RetryAfter :
               until' = IF Single(r) THEN until
                        ELSE [until EXCEPT ![d] =
                                Extended(d, IF isProbe[r] \/ failures >= Threshold
                                            THEN larger(asked, FailureCooldown) ELSE asked)]
        BY <1>4 DEF Fail
      <3>2. QED
        BY <3>1, LimitsAssumption DEF larger
    <2>2. Extended(d, n) \in Nat /\ Extended(d, n) >= until[d]
      BY <1>1, ExtendedType DEF Conserved
    <2>3. \A c \in Channels : until[c] \in Nat
      BY DEF Conserved, TypeOK
    <2>4. CASE until' = until
      BY <2>4, UntilUnchanged DEF Conserved
    <2>5. CASE until' = [until EXCEPT ![d] = Extended(d, n)]
      <3>1. until'[d] = Extended(d, n) /\ \A c \in Channels \ {d} : until'[c] = until[c]
        BY <1>1, <2>5 DEF Conserved, TypeOK
      <3>2. QED
        BY <2>2, <2>3, <3>1 DEF CooldownKept
    <2>6. QED
      BY <2>1, <2>4, <2>5
  <1>5. QED
    BY <1>2, <1>3, <1>4 DEF Finish

LEMMA ResetCooldown ==
    ASSUME Conserved, Healthy, NEW c \in Channels, ResetChannel(c)
    PROVE  CooldownKept
  <1>1. until' = [until EXCEPT ![c] = 0] /\ signature' = [signature EXCEPT ![c] = NoSignature]
    BY DEF ResetChannel
  <1>2. until[c] # 0 => signature[c] # NoSignature
    BY DEF Healthy
  <1>3. until'[c] = 0 /\ signature'[c] = NoSignature /\ until[c] \in Nat
    BY <1>1 DEF Conserved, TypeOK
  <1>4. \A d \in Channels \ {c} : until'[d] = until[d] /\ until[d] \in Nat
    BY <1>1 DEF Conserved, TypeOK
  <1>5. QED
    BY <1>2, <1>3, <1>4 DEF CooldownKept

(***************************************************************************)
(* Concurrent failures never shorten a cooldown, and nothing but a success *)
(* or a change of the configuration ends it before its time.               *)
(***************************************************************************)
THEOREM RouterCooldown == Spec => CooldownNotShortened
  <1>1. Conserved /\ Healthy /\ [Next]_vars => [CooldownKept]_vars
    <2> SUFFICES ASSUME Conserved, Healthy, Next PROVE CooldownKept
      OBVIOUS
    <2>1. ASSUME NEW r \in Requests, Acquire(r) \/ NoRoute(r) PROVE CooldownKept
      BY <2>1, VisitCooldown DEF Acquire, NoRoute, Conserved
    <2>2. ASSUME NEW r \in Requests, Begin(r) \/ ReadKeys(r) \/ GiveUp(r) \/ Send(r)
                              \/ Recheck(r) \/ Unprepared(r)
          PROVE  CooldownKept
      BY <2>2, UntilUnchanged
         DEF Begin, ReadKeys, GiveUp, Send, Recheck, Unprepared, ReleaseUnsent, memory, Conserved
    <2>3. ASSUME NEW r \in Requests, Finish(r) PROVE CooldownKept
      BY <2>3, FinishCooldown
    <2>4. ASSUME NEW c \in Channels, EditChannel(c) \/ ResetChannel(c) \/ ReadHealth(c)
          PROVE  CooldownKept
      BY <2>4, UntilUnchanged, ResetCooldown DEF EditChannel, ReadHealth, memory, health, Conserved
    <2>5. ASSUME NEW C \in SUBSET Channels, EditCredential(C) PROVE CooldownKept
      BY <2>5, UntilUnchanged DEF EditCredential, memory, Conserved
    <2>6. CASE Tick
      BY <2>6, UntilUnchanged DEF Tick, memory, Conserved
    <2>7. QED
      BY <2>1, <2>2, <2>3, <2>4, <2>5, <2>6 DEF Next, Proceed
  <1>2. QED
    BY <1>1, AlwaysConserved, AlwaysHealthy, PTL DEF Spec, CooldownNotShortened, CooldownKept

-----------------------------------------------------------------------------
(***************************************************************************)
(* A probe's owner keeps owning it through every step that leaves its      *)
(* reservation, its signature and the configuration of the channel alone.   *)
(***************************************************************************)
LEMMA OwnerKept ==
    ASSUME NEW c \in Channels, NEW q \in Requests, q \in Probes(c),
           held'[q] = held[q], isProbe'[q] = isProbe[q], sig'[q] = sig[q],
           signature'[c] = signature[c]
    PROVE  Probes(c)' # {}
  <1>1. held[q] = c /\ isProbe[q] /\ signature[c] = sig[q][c]
    BY DEF Probes, Holders, Current
  <1>2. q \in Probes(c)'
    BY <1>1 DEF Probes, Holders, Current
  <1>3. QED
    BY <1>2

LEMMA ProbeUnchanged ==
    ASSUME ProbeOwned, UNCHANGED <<signature, probe, held, isProbe>>,
           \A q \in Requests : held[q] # NoChannel => sig'[q] = sig[q]
    PROVE  ProbeOwned'
  <1> SUFFICES ASSUME NEW c \in Channels, probe'[c] PROVE Probes(c)' # {}
    BY DEF ProbeOwned, Probes
  <1>1. PICK q \in Requests : q \in Probes(c)
    BY DEF ProbeOwned, Probes, Holders
  <1>2. held[q] # NoChannel
    BY <1>1, LimitsAssumption DEF Probes, Holders
  <1>3. QED
    BY <1>1, <1>2, OwnerKept

(***************************************************************************)
(* Visiting drops the flag of what it adopts and keeps the configuration   *)
(* of the rest; the request itself owned nothing.                          *)
(***************************************************************************)
LEMMA VisitProbe ==
    ASSUME Conserved, ProbeOwned, NEW r \in Requests, Visit(r), held[r] = NoChannel,
           NEW c \in Channels, c \notin Adopted(r), probe[c],
           \A q \in Requests \ {r} :
               held'[q] = held[q] /\ isProbe'[q] = isProbe[q] /\ sig'[q] = sig[q]
    PROVE  Probes(c)' # {}
  <1>1. PICK q \in Requests : q \in Probes(c)
    BY DEF ProbeOwned, Probes, Holders
  <1>2. q # r
    BY <1>1, LimitsAssumption DEF Probes, Holders
  <1>3. signature'[c] = signature[c]
    BY DEF Visit
  <1>4. QED
    BY <1>1, <1>2, <1>3, OwnerKept

LEMMA NoRouteProbe ==
    ASSUME Conserved, ProbeOwned, NEW r \in Requests, NoRoute(r)
    PROVE  ProbeOwned'
  <1> SUFFICES ASSUME NEW c \in Channels, probe'[c] PROVE Probes(c)' # {}
    BY DEF ProbeOwned, Probes
  <1>1. c \notin Adopted(r) /\ probe[c] /\ Visit(r) /\ held[r] = NoChannel
    BY DEF NoRoute, Conserved, Phases, Phase
  <1>2. \A q \in Requests \ {r} :
            held'[q] = held[q] /\ isProbe'[q] = isProbe[q] /\ sig'[q] = sig[q]
    BY DEF NoRoute, Forget, Conserved, TypeOK
  <1>3. QED
    BY <1>1, <1>2, VisitProbe

LEMMA AcquireProbe ==
    ASSUME Conserved, ProbeOwned, NEW r \in Requests, Acquire(r)
    PROVE  ProbeOwned'
  <1> SUFFICES ASSUME NEW c \in Channels, probe'[c] PROVE Probes(c)' # {}
    BY DEF ProbeOwned, Probes
  <1>1. PICK d \in Eligible(r) :
          LET probing == ~Single(r) /\ d \notin Adopted(r) /\ until[d] # 0
          IN  /\ probe' = [e \in Channels |-> \/ e = d /\ probing
                                              \/ e \notin Adopted(r) /\ probe[e]]
              /\ held' = [held EXCEPT ![r] = d]
              /\ isProbe' = [isProbe EXCEPT ![r] = probing]
    BY DEF Acquire
  <1>2. Visit(r) /\ held[r] = NoChannel /\ sig' = sig /\ d \in Visited(r)
    BY DEF Acquire, Conserved, Phases, Phase, Eligible, Counted
  <1>3. CASE c = d /\ ~Single(r) /\ d \notin Adopted(r) /\ until[d] # 0
    <2>1. signature'[d] = signature[d] /\ signature[d] = sig[r][d]
      BY <1>2, <1>3 DEF Visit, Adopted
    <2>2. held'[r] = d /\ isProbe'[r]
      BY <1>1, <1>3 DEF Conserved, TypeOK
    <2>3. r \in Probes(c)'
      BY <1>2, <1>3, <2>1, <2>2 DEF Probes, Holders, Current
    <2>4. QED
      BY <2>3
  <1>4. CASE c \notin Adopted(r) /\ probe[c]
    <2>1. \A q \in Requests \ {r} :
              held'[q] = held[q] /\ isProbe'[q] = isProbe[q] /\ sig'[q] = sig[q]
      BY <1>1, <1>2 DEF Conserved, TypeOK
    <2>2. QED
      BY <1>2, <1>4, <2>1, VisitProbe
  <1>5. QED
    BY <1>1, <1>3, <1>4

(***************************************************************************)
(* A release clears the flag when the request owns it.                     *)
(***************************************************************************)
LEMMA ReleaseProbe ==
    ASSUME Conserved, ProbeOwned, NEW r \in Requests, Release(r)
    PROVE  ProbeOwned'
  <1> SUFFICES ASSUME NEW c \in Channels, probe'[c] PROVE Probes(c)' # {}
    BY DEF ProbeOwned, Probes
  <1>1. held[r] \in Channels /\ Unhold(r) /\ Continue(r) /\ UNCHANGED signature
    BY HeldChannel DEF Release
  <1>2. probe[c] /\ ~(Current(r) /\ isProbe[r] /\ held[r] = c)
    BY <1>1 DEF Release, Conserved, TypeOK
  <1>3. PICK q \in Requests : q \in Probes(c)
    BY <1>2 DEF ProbeOwned, Probes, Holders
  <1>4. q # r
    BY <1>2, <1>3 DEF Probes, Holders
  <1>5. held'[q] = held[q] /\ isProbe'[q] = isProbe[q] /\ sig'[q] = sig[q]
    BY <1>1, <1>4 DEF Unhold, Continue, Forget, Conserved, TypeOK
  <1>6. QED
    BY <1>1, <1>3, <1>5, OwnerKept

LEMMA ResetProbe ==
    ASSUME Conserved, ProbeOwned, NEW d \in Channels, ResetChannel(d)
    PROVE  ProbeOwned'
  <1> SUFFICES ASSUME NEW c \in Channels, probe'[c] PROVE Probes(c)' # {}
    BY DEF ProbeOwned, Probes
  <1>1. /\ probe' = [probe EXCEPT ![d] = FALSE]
        /\ signature' = [signature EXCEPT ![d] = NoSignature]
        /\ UNCHANGED <<held, isProbe, sig>>
    BY DEF ResetChannel, request
  <1>2. c # d /\ probe[c] /\ signature'[c] = signature[c]
    BY <1>1 DEF Conserved, TypeOK
  <1>3. PICK q \in Requests : q \in Probes(c)
    BY <1>2 DEF ProbeOwned, Probes, Holders
  <1>4. QED
    BY <1>1, <1>2, <1>3, OwnerKept

LEMMA StepProbe == Conserved /\ ProbeOwned /\ [Next]_vars => ProbeOwned'
  <1> SUFFICES ASSUME Conserved, ProbeOwned, [Next]_vars PROVE ProbeOwned'
    OBVIOUS
  <1>1. ASSUME NEW r \in Requests, Acquire(r) \/ NoRoute(r) PROVE ProbeOwned'
    BY <1>1, AcquireProbe, NoRouteProbe
  <1>2. ASSUME NEW r \in Requests, Begin(r) \/ ReadKeys(r) \/ GiveUp(r) PROVE ProbeOwned'
    <2>1. held[r] = NoChannel
      BY <1>2 DEF Begin, ReadKeys, GiveUp, Conserved, Phases, Phase
    <2>2. \A q \in Requests : held[q] # NoChannel => sig'[q] = sig[q]
      BY <1>2, <2>1 DEF Begin, ReadKeys, GiveUp, Forget, Conserved, TypeOK
    <2>3. UNCHANGED <<signature, probe, held, isProbe>>
      BY <1>2 DEF Begin, ReadKeys, GiveUp, memory
    <2>4. QED
      BY <2>2, <2>3, ProbeUnchanged
  <1>3. ASSUME NEW r \in Requests, Send(r) PROVE ProbeOwned'
    BY <1>3, ProbeUnchanged DEF Send, memory
  <1>4. ASSUME NEW r \in Requests, Recheck(r) \/ Unprepared(r) \/ Finish(r) PROVE ProbeOwned'
    <2>1. CASE Unprepared(r) \/ Finish(r) \/ (pc[r] = "held" /\ Continue(r) /\ ReleaseUnsent(r))
      BY <2>1, ReleaseForm, ReleaseProbe
    <2>2. CASE UNCHANGED <<memory, held, isProbe, sig>>
      BY <2>2, ProbeUnchanged DEF memory
    <2>3. QED
      BY <1>4, <2>1, <2>2 DEF Recheck
  <1>5. ASSUME NEW c \in Channels, EditChannel(c) \/ ResetChannel(c) \/ ReadHealth(c) PROVE ProbeOwned'
    BY <1>5, ProbeUnchanged, ResetProbe DEF EditChannel, ReadHealth, memory, health, request
  <1>6. ASSUME NEW C \in SUBSET Channels, EditCredential(C) PROVE ProbeOwned'
    BY <1>6, ProbeUnchanged DEF EditCredential, memory, request
  <1>7. CASE Tick \/ UNCHANGED vars
    BY <1>7, ProbeUnchanged DEF Tick, vars, memory, request
  <1>8. QED
    BY <1>1, <1>2, <1>3, <1>4, <1>5, <1>6, <1>7 DEF Next, Proceed

(***************************************************************************)
(* Whoever closed a half-open channel to the others is still there to open *)
(* it again, under the configuration it probes.                            *)
(***************************************************************************)
THEOREM RouterProbeOwned == Spec => []ProbeOwned
  <1>1. Init => ProbeOwned
    BY DEF Init, ProbeOwned
  <1>2. QED
    BY <1>1, StepProbe, AlwaysConserved, PTL DEF Spec

-----------------------------------------------------------------------------
(***************************************************************************)
(* Until a channel is edited for the first time everybody agrees on its    *)
(* configuration: no reset is on its way, and every snapshot, signature    *)
(* and the memory have its first revision with its first key.              *)
(***************************************************************************)
FirstSignature == <<1, 0>>

FirstSeen(r, c) ==
    c \in cands[r] =>
        /\ snap[r][c] = 1
        /\ pc[r] \notin {"idle", "snapshot"} => sig[r][c] = FirstSignature

FirstRevision ==
    \A c \in Channels : db[c] = 1 =>
        /\ keys[c] = 0 /\ resets[c] = 0
        /\ signature[c] \in {NoSignature, FirstSignature}
        /\ \A r \in Requests : FirstSeen(r, c)

(***************************************************************************)
(* So a request with the probe of such a channel is the one for which the  *)
(* flag stands.                                                            *)
(***************************************************************************)
Probing(c) == {r \in Requests : held[r] = c /\ isProbe[r]}

SoleProbe ==
    \A c \in Channels : db[c] = 1 =>
        \A r \in Probing(c) :
            /\ probe[c] /\ signature[c] = FirstSignature
            /\ \A q \in Probing(c) : q = r

(***************************************************************************)
(* A step that leaves the configuration alone, and every request but one   *)
(* with what it knows.                                                     *)
(***************************************************************************)
LEMMA FirstKept ==
    ASSUME Conserved, FirstRevision, NEW r \in Requests,
           UNCHANGED <<db, keys, resets>>,
           \A c \in Channels : db[c] = 1 =>
               signature'[c] \in {NoSignature, FirstSignature} /\ FirstSeen(r, c)',
           \A q \in Requests \ {r} :
               cands'[q] = cands[q] /\ snap'[q] = snap[q] /\ sig'[q] = sig[q] /\ pc'[q] = pc[q]
    PROVE  FirstRevision'
  <1> SUFFICES ASSUME NEW c \in Channels, db[c] = 1,
                      NEW q \in Requests \ {r}
               PROVE  FirstSeen(q, c)'
    BY DEF FirstRevision
  <1>1. FirstSeen(q, c)
    BY DEF FirstRevision
  <1>2. QED
    BY <1>1 DEF FirstSeen

(***************************************************************************)
(* A request takes its snapshot, reads the keys, routes or is released.    *)
(***************************************************************************)
LEMMA FirstOfRequest ==
    ASSUME Conserved, FirstRevision, NEW r \in Requests,
           \/ Begin(r) \/ ReadKeys(r) \/ Acquire(r) \/ NoRoute(r) \/ GiveUp(r) \/ Proceed(r)
    PROVE  FirstRevision'
  <1> USE DEF Conserved
  <1>1. \A c \in Channels : db[c] = 1 =>
           /\ keys[c] = 0 /\ signature[c] \in {NoSignature, FirstSignature} /\ FirstSeen(r, c)
    BY DEF FirstRevision
  <1>2. CASE Begin(r)
    <2>1. UNCHANGED <<db, keys, resets, signature, sig>>
      BY <1>2 DEF Begin, memory
    <2>2. PICK C \in Policies :
            /\ cands' = [cands EXCEPT ![r] = C]
            /\ snap' = [snap EXCEPT ![r] = [c \in Channels |-> IF c \in C THEN db[c] ELSE 0]]
            /\ pc' = [pc EXCEPT ![r] = "snapshot"]
      BY <1>2 DEF Begin
    <2>3. /\ cands'[r] = C /\ pc'[r] = "snapshot"
          /\ snap'[r] = [c \in Channels |-> IF c \in C THEN db[c] ELSE 0]
      BY <2>2 DEF TypeOK
    <2>4. \A c \in Channels : db[c] = 1 => FirstSeen(r, c)'
      BY <2>3 DEF FirstSeen
    <2>5. \A q \in Requests \ {r} :
             cands'[q] = cands[q] /\ snap'[q] = snap[q] /\ sig'[q] = sig[q] /\ pc'[q] = pc[q]
      BY <2>1, <2>2 DEF TypeOK
    <2>6. QED
      BY <1>1, <2>1, <2>4, <2>5, FirstKept
  <1>3. CASE ReadKeys(r)
    <2>1. UNCHANGED <<db, keys, resets, signature, cands, snap>>
      BY <1>3 DEF ReadKeys, memory
    <2>2. /\ sig'[r] = [c \in Channels |-> IF c \in cands[r] THEN <<snap[r][c], keys[c]>>
                                           ELSE NoSignature]
          /\ \A q \in Requests \ {r} : sig'[q] = sig[q] /\ pc'[q] = pc[q]
      BY <1>3 DEF ReadKeys, TypeOK
    <2>3. \A c \in Channels : db[c] = 1 => FirstSeen(r, c)'
      BY <1>1, <2>1, <2>2 DEF FirstSeen, FirstSignature
    <2>4. QED
      BY <1>1, <2>1, <2>2, <2>3, FirstKept
  <1>4. CASE Acquire(r) \/ NoRoute(r)
    <2>1. pc[r] = "routing" /\ Visit(r) /\ UNCHANGED <<db, keys, resets>>
      BY <1>4 DEF Acquire, NoRoute
    <2>2. \A c \in Channels : db[c] = 1 => signature'[c] \in {NoSignature, FirstSignature}
      BY <1>1, <2>1 DEF Visit, Adopted, Visited, FirstSeen
    <2>3. /\ cands'[r] = {} \/ UNCHANGED <<cands, snap, sig>>
          /\ \A q \in Requests \ {r} :
               cands'[q] = cands[q] /\ snap'[q] = snap[q] /\ sig'[q] = sig[q] /\ pc'[q] = pc[q]
      BY <1>4 DEF Acquire, NoRoute, Forget, TypeOK
    <2>4. \A c \in Channels : db[c] = 1 => FirstSeen(r, c)'
      BY <1>1, <2>1, <2>3 DEF FirstSeen
    <2>5. QED
      BY <2>1, <2>2, <2>3, <2>4, FirstKept
  <1>5. CASE GiveUp(r) \/ Proceed(r)
    <2>1. /\ UNCHANGED <<db, keys, resets, signature>>
          /\ cands'[r] = {} \/ (pc[r] \notin {"idle", "snapshot"} /\ UNCHANGED <<cands, snap, sig>>)
          /\ \A q \in Requests \ {r} :
               cands'[q] = cands[q] /\ snap'[q] = snap[q] /\ sig'[q] = sig[q] /\ pc'[q] = pc[q]
      <3>1. CASE GiveUp(r)
        BY <3>1 DEF GiveUp, Forget, memory, TypeOK
      <3>2. CASE Send(r) \/ (Recheck(r) /\ UNCHANGED <<memory, db, keys, resets, cands, snap, sig>>)
        BY <3>2 DEF Send, Recheck, Continue, Forget, memory, TypeOK
      <3>3. CASE Release(r)
        BY <3>3 DEF Release, Continue, Forget, TypeOK
      <3>4. QED
        BY <1>5, <3>1, <3>2, <3>3, ReleaseForm DEF Proceed, Recheck
    <2>2. \A c \in Channels : db[c] = 1 => FirstSeen(r, c)'
      BY <1>1, <2>1 DEF FirstSeen
    <2>3. QED
      BY <1>1, <2>1, <2>2, FirstKept
  <1>6. QED
    BY <1>2, <1>3, <1>4, <1>5

LEMMA StepFirst == Conserved /\ FirstRevision /\ [Next]_vars => FirstRevision'
  <1> SUFFICES ASSUME Conserved, FirstRevision, [Next]_vars PROVE FirstRevision'
    OBVIOUS
  <1> USE DEF Conserved
  <1>1. ASSUME NEW r \in Requests,
               \/ Begin(r) \/ ReadKeys(r) \/ Acquire(r) \/ NoRoute(r) \/ GiveUp(r) \/ Proceed(r)
        PROVE  FirstRevision'
    BY <1>1, FirstOfRequest
  <1>2. ASSUME NEW d \in Channels, EditChannel(d) PROVE FirstRevision'
    <2>1. /\ \A c \in Channels : db'[c] = 1 => c # d /\ db[c] = 1
          /\ \A c \in Channels \ {d} : resets'[c] = resets[c]
      <3>1. db[d] \in Nat /\ db[d] # 0
        BY DEF TypeOK, Phases
      <3>2. db'[d] = db[d] + 1 /\ \A c \in Channels \ {d} : db'[c] = db[c]
        BY <1>2 DEF EditChannel, TypeOK
      <3>3. \A c \in Channels \ {d} : resets'[c] = resets[c]
        BY <1>2 DEF EditChannel, TypeOK
      <3>4. QED
        BY <3>1, <3>2, <3>3
    <2>2. UNCHANGED <<keys, signature, cands, snap, sig, pc>>
      BY <1>2 DEF EditChannel, memory, request
    <2>3. QED
      BY <2>1, <2>2 DEF FirstRevision, FirstSeen
  <1>3. ASSUME NEW d \in Channels, ResetChannel(d) PROVE FirstRevision'
    <2>1. db[d] # 1
      BY <1>3 DEF ResetChannel, FirstRevision
    <2>2. \A c \in Channels \ {d} : resets'[c] = resets[c] /\ signature'[c] = signature[c]
      BY <1>3 DEF ResetChannel, TypeOK
    <2>3. UNCHANGED <<db, keys, cands, snap, sig, pc>>
      BY <1>3 DEF ResetChannel, request
    <2>4. QED
      BY <2>1, <2>2, <2>3 DEF FirstRevision, FirstSeen
  <1>4. ASSUME NEW C \in SUBSET Channels, EditCredential(C) PROVE FirstRevision'
    <2>1. \A c \in Channels : db'[c] = 1 => db[c] = 1 /\ c \notin C
      BY <1>4 DEF EditCredential, TypeOK, Phases
    <2>2. \A c \in Channels \ C : keys'[c] = keys[c]
      BY <1>4 DEF EditCredential, TypeOK
    <2>3. UNCHANGED <<resets, signature, cands, snap, sig, pc>>
      BY <1>4 DEF EditCredential, memory, request
    <2>4. QED
      BY <2>1, <2>2, <2>3 DEF FirstRevision, FirstSeen
  <1>5. CASE Tick \/ UNCHANGED vars \/ \E d \in Channels : ReadHealth(d)
    <2>1. UNCHANGED <<db, keys, resets, signature, cands, snap, sig, pc>>
      BY <1>5 DEF Tick, ReadHealth, vars, memory, health, request
    <2>2. QED
      BY <2>1 DEF FirstRevision, FirstSeen
  <1>6. QED
    BY <1>1, <1>2, <1>3, <1>4, <1>5 DEF Next

LEMMA AlwaysFirst == Spec => []FirstRevision
  <1>1. Init => FirstRevision
    BY DEF Init, FirstRevision, FirstSeen
  <1>2. QED
    BY <1>1, StepFirst, AlwaysConserved, PTL DEF Spec

(***************************************************************************)
(* Steps that leave flags, signatures and reservations alone.              *)
(***************************************************************************)
LEMMA SoleUnchanged ==
    ASSUME SoleProbe, UNCHANGED <<signature, probe, held, isProbe>>,
           \A c \in Channels : db'[c] = 1 => db[c] = 1
    PROVE  SoleProbe'
  BY DEF SoleProbe, Probing

(***************************************************************************)
(* A request that routes drops only flags nobody owns, and becomes a probe *)
(* only where the flag was not set.                                        *)
(***************************************************************************)
LEMMA SoleRouting ==
    ASSUME Conserved, FirstRevision, SoleProbe, NEW r \in Requests, Acquire(r) \/ NoRoute(r)
    PROVE  SoleProbe'
  <1> USE DEF Conserved
  <1>1. Visit(r) /\ held[r] = NoChannel /\ pc[r] = "routing" /\ db' = db
    BY DEF Acquire, NoRoute, Phases, Phase
  <1>2. \A c \in Channels : db[c] = 1 /\ c \in Adopted(r) =>
           signature[c] = NoSignature /\ Probing(c) = {}
    BY <1>1 DEF FirstRevision, FirstSeen, SoleProbe, Adopted, Visited, NoSignature, FirstSignature,
           Probing
  <1>3. \A c \in Channels : db[c] = 1 /\ c \notin Adopted(r) => signature'[c] = signature[c]
    BY <1>1 DEF Visit
  <1>4. CASE NoRoute(r)
    <2>1. held' = held /\ isProbe' = isProbe
      BY <1>4 DEF NoRoute
    <2>2. \A c \in Channels : Probing(c)' = Probing(c)
      BY <2>1 DEF Probing
    <2>3. \A c \in Channels : c \notin Adopted(r) => probe'[c] = probe[c]
      BY <1>4 DEF NoRoute, TypeOK
    <2>4. QED
      BY <1>1, <1>2, <1>3, <2>2, <2>3 DEF SoleProbe
  <1>5. CASE Acquire(r)
    <2>1. PICK d \in Eligible(r) :
            LET probing == ~Single(r) /\ d \notin Adopted(r) /\ until[d] # 0
            IN  /\ probe' = [e \in Channels |-> \/ e = d /\ probing
                                                \/ e \notin Adopted(r) /\ probe[e]]
                /\ held' = [held EXCEPT ![r] = d]
                /\ isProbe' = [isProbe EXCEPT ![r] = probing]
      BY <1>5 DEF Acquire
    <2>2. d \in Channels /\ d \in cands[r] /\ d \in Visited(r)
      BY DEF Eligible, Counted, Visited, TypeOK
    <2>3. /\ held'[r] = d /\ \A q \in Requests \ {r} : held'[q] = held[q] /\ isProbe'[q] = isProbe[q]
          /\ isProbe'[r] <=> ~Single(r) /\ d \notin Adopted(r) /\ until[d] # 0
      BY <2>1 DEF TypeOK
    <2>4. r \notin Probing(d)
      BY <1>1, <2>2, LimitsAssumption DEF Probing
    <2>5. \A c \in Channels : c # d => Probing(c)' = Probing(c) /\ r \notin Probing(c)
      BY <1>1, <2>3, LimitsAssumption DEF Probing
    <2>6. Probing(d)' = IF isProbe'[r] THEN Probing(d) \cup {r} ELSE Probing(d)
      BY <2>3, <2>4 DEF Probing
    <2>7. \A c \in Channels : c \notin Adopted(r) /\ (c # d \/ ~isProbe'[r]) => probe'[c] = probe[c]
      BY <2>1, <2>3 DEF TypeOK
    <2>8. CASE isProbe'[r] /\ db[d] = 1
      <3>1. d \notin Adopted(r) /\ ~probe[d] /\ probe'[d]
        BY <2>1, <2>2, <2>3, <2>8 DEF Eligible, Counted, Cooling
      <3>2. Probing(d) = {} /\ Probing(d)' = {r}
        BY <2>2, <2>6, <2>8, <3>1 DEF SoleProbe
      <3>3. signature'[d] = FirstSignature
        BY <1>1, <1>3, <2>2, <2>8, <3>1 DEF Adopted, FirstRevision, FirstSeen
      <3>4. QED
        BY <1>1, <1>2, <1>3, <2>5, <2>7, <3>1, <3>2, <3>3 DEF SoleProbe
    <2>9. CASE ~(isProbe'[r] /\ db[d] = 1)
      BY <1>1, <1>2, <1>3, <2>5, <2>6, <2>7, <2>9 DEF SoleProbe
    <2>10. QED
      BY <2>8, <2>9
  <1>6. QED
    BY <1>4, <1>5

(***************************************************************************)
(* A release by the probe clears the flag and leaves no other probe.       *)
(***************************************************************************)
LEMMA SoleRelease ==
    ASSUME Conserved, FirstRevision, SoleProbe, NEW r \in Requests, Release(r)
    PROVE  SoleProbe'
  <1> USE DEF Conserved
  <1>1. held[r] \in Channels /\ held[r] \in cands[r] /\ r \in Requests
    BY HeldChannel DEF Release
  <1>2. /\ UNCHANGED <<db, signature>>
        /\ probe' = IF Current(r) /\ isProbe[r] THEN [probe EXCEPT ![held[r]] = FALSE] ELSE probe
        /\ held' = [held EXCEPT ![r] = NoChannel] /\ isProbe' = [isProbe EXCEPT ![r] = FALSE]
    BY DEF Release, Unhold
  <1>3. \A c \in Channels : Probing(c)' = Probing(c) \ {r}
    <2>1. held'[r] = NoChannel /\ \A q \in Requests \ {r} : held'[q] = held[q] /\ isProbe'[q] = isProbe[q]
      BY <1>2 DEF TypeOK
    <2>2. QED
      BY <2>1, LimitsAssumption DEF Probing
  <1>4. \A c \in Channels : c # held[r] \/ ~isProbe[r] => probe'[c] = probe[c]
    BY <1>1, <1>2 DEF TypeOK
  <1>5. \A c \in Channels : c # held[r] \/ ~isProbe[r] => r \notin Probing(c)
    BY DEF Probing
  <1>6. isProbe[r] => r \in Probing(held[r])
    BY DEF Probing
  <1>7. QED
    BY <1>1, <1>2, <1>3, <1>4, <1>5, <1>6 DEF SoleProbe

LEMMA StepSole == Conserved /\ FirstRevision /\ SoleProbe /\ [Next]_vars => SoleProbe'
  <1> SUFFICES ASSUME Conserved, FirstRevision, SoleProbe, [Next]_vars PROVE SoleProbe'
    OBVIOUS
  <1>1. ASSUME NEW r \in Requests, Acquire(r) \/ NoRoute(r) PROVE SoleProbe'
    BY <1>1, SoleRouting
  <1>2. ASSUME NEW r \in Requests, Begin(r) \/ ReadKeys(r) \/ GiveUp(r) \/ Send(r) PROVE SoleProbe'
    BY <1>2, SoleUnchanged DEF Begin, ReadKeys, GiveUp, Send, memory
  <1>3. ASSUME NEW r \in Requests, Recheck(r) \/ Unprepared(r) \/ Finish(r) PROVE SoleProbe'
    <2>1. CASE Unprepared(r) \/ Finish(r) \/ (pc[r] = "held" /\ Continue(r) /\ ReleaseUnsent(r))
      BY <2>1, ReleaseForm, SoleRelease
    <2>2. CASE UNCHANGED <<db, memory, held, isProbe>>
      BY <2>2, SoleUnchanged DEF memory
    <2>3. QED
      BY <1>3, <2>1, <2>2 DEF Recheck
  <1>4. ASSUME NEW d \in Channels, ResetChannel(d) PROVE SoleProbe'
    <2>1. db[d] # 1
      BY <1>4 DEF ResetChannel, FirstRevision
    <2>2. /\ \A c \in Channels \ {d} : probe'[c] = probe[c] /\ signature'[c] = signature[c]
          /\ UNCHANGED <<db, held, isProbe>>
      BY <1>4 DEF ResetChannel, request, Conserved, TypeOK
    <2>3. QED
      BY <2>1, <2>2 DEF SoleProbe, Probing
  <1>5. ASSUME NEW d \in Channels, EditChannel(d) PROVE SoleProbe'
    <2>1. \A c \in Channels : db'[c] = 1 => db[c] = 1
      <3>1. db[d] \in Nat /\ db[d] # 0
        BY DEF Conserved, TypeOK, Phases
      <3>2. db'[d] = db[d] + 1 /\ \A c \in Channels \ {d} : db'[c] = db[c]
        BY <1>5 DEF EditChannel, Conserved, TypeOK
      <3>3. QED
        BY <3>1, <3>2
    <2>2. QED
      BY <1>5, <2>1, SoleUnchanged DEF EditChannel, memory, request
  <1>6. ASSUME NEW C \in SUBSET Channels, EditCredential(C) PROVE SoleProbe'
    <2>1. \A c \in Channels : db'[c] = 1 => db[c] = 1
      BY <1>6 DEF EditCredential, Conserved, TypeOK, Phases
    <2>2. QED
      BY <1>6, <2>1, SoleUnchanged DEF EditCredential, memory, request
  <1>7. CASE Tick \/ UNCHANGED vars \/ \E d \in Channels : ReadHealth(d)
    BY <1>7, SoleUnchanged DEF Tick, ReadHealth, vars, memory, health, request
  <1>8. QED
    BY <1>1, <1>2, <1>3, <1>4, <1>5, <1>6, <1>7 DEF Next, Proceed

(***************************************************************************)
(* Of a channel that was never edited one recovery call is under way at a  *)
(* time, whatever number of requests finds its cooldown over.              *)
(***************************************************************************)
THEOREM RouterOneProbe == Spec => []OneProbe
  <1>1. SoleProbe => OneProbe
    <2> SUFFICES ASSUME SoleProbe, NEW c \in Channels, db[c] = 1
                 PROVE  Cardinality({r \in Probes(c) : pc[r] = "sent"}) <= 1
      BY DEF OneProbe
    <2> DEFINE P == {r \in Probes(c) : pc[r] = "sent"}
    <2>1. \A p, q \in P : p = q
      BY DEF SoleProbe, Probing, Probes, Holders
    <2>2. CASE P = {}
      BY <2>2, FS_EmptySet
    <2>3. CASE P # {}
      <3>1. PICK p : P = {p}
        BY <2>1, <2>3
      <3>2. QED
        BY <3>1, FS_Singleton
    <2>4. QED
      BY <2>2, <2>3
  <1>2. Init => SoleProbe
    BY DEF Init, SoleProbe, Probing
  <1>3. QED
    BY <1>1, <1>2, StepSole, AlwaysConserved, AlwaysFirst, PTL DEF Spec

-----------------------------------------------------------------------------
(***************************************************************************)
(* The window of a channel is a sequence, sorted by the start of the       *)
(* calls.  What is counted are the positions whose time is in a set.       *)
(***************************************************************************)
Sorted(s) == \A i, j \in 1 .. Len(s) : i <= j => s[i] <= s[j]

At(s, T) == {i \in 1 .. Len(s) : s[i] \in T}

Young == {t \in Times : t > now - Window}

LEMMA AtFinite == ASSUME NEW s \in Seq(Times), NEW T
                  PROVE  IsFiniteSet(At(s, T)) /\ Cardinality(At(s, T)) \in Nat
  <1>1. Len(s) \in Nat /\ At(s, T) \subseteq 1 .. Len(s)
    BY DEF At
  <1>2. IsFiniteSet(1 .. Len(s))
    BY <1>1, FS_Interval
  <1>3. QED
    BY <1>1, <1>2, FS_Subset, FS_CardinalityType

LEMMA IntervalCount == \A a, b \in Nat : a <= b + 1 => Cardinality(a .. b) = b + 1 - a
  <1> SUFFICES ASSUME NEW a \in Nat, NEW b \in Nat, a <= b + 1
               PROVE  Cardinality(a .. b) = b + 1 - a
    OBVIOUS
  <1>1. Cardinality(a .. b) = IF a > b THEN 0 ELSE b - a + 1
    BY FS_Interval
  <1>2. QED
    BY <1>1

(***************************************************************************)
(* A set of positions without gaps is an initial segment.                  *)
(***************************************************************************)
LEMMA Segment ==
    ASSUME NEW m \in Nat, NEW X \in SUBSET (1 .. m), \A i \in X : \A j \in 1 .. i : j \in X
    PROVE  \E k \in 0 .. m : X = 1 .. k /\ Cardinality(X) = k
  <1> DEFINE R == OpToRel(<, Nat)
             S == {i \in 1 .. m + 1 : i \notin X}
  <1>1. IsWellFoundedOn(R, Nat)
    BY NatLessThanWellFounded
  <1>2. \A a, b \in Nat : a < b => <<a, b>> \in R
    BY DEF OpToRel
  <1>3. S \subseteq Nat /\ m + 1 \in S
    OBVIOUS
  <1> HIDE DEF R, S
  <1>4. PICK n \in S : \A i \in S : ~ (<<i, n>> \in R)
    BY <1>1, <1>3, WFMin
  <1>5. n \in 1 .. m + 1 /\ n \notin X
    BY <1>4 DEF S
  <1>6. ASSUME NEW i \in 1 .. n - 1 PROVE i \in X
    <2>1. i \in Nat /\ n \in Nat /\ i < n /\ i \in 1 .. m + 1
      BY <1>5
    <2>2. i \notin S
      BY <1>2, <1>4, <2>1
    <2>3. QED
      BY <2>1, <2>2 DEF S
  <1>7. ASSUME NEW i \in X PROVE i \in 1 .. n - 1
    <2>1. n \notin 1 .. i
      BY <1>5
    <2>2. QED
      BY <1>5, <2>1
  <1>8. X = 1 .. n - 1
    BY <1>6, <1>7
  <1>9. Cardinality(1 .. n - 1) = n - 1
    BY <1>5, IntervalCount
  <1>10. QED
    BY <1>5, <1>8, <1>9

(***************************************************************************)
(* Positions that are renumbered are as many as before.                    *)
(***************************************************************************)
LEMMA Renumbered ==
    ASSUME NEW S, NEW T, IsFiniteSet(S), NEW f \in [S -> T],
           \A x, y \in S : f[x] = f[y] => x = y, \A z \in T : \E x \in S : f[x] = z
    PROVE  Cardinality(T) = Cardinality(S)
  <1>1. f \in Bijection(S, T)
    BY DEF Bijection, Injection, Surjection, IsInjective
  <1>2. QED
    BY <1>1, FS_Bijection DEF ExistsBijection

(***************************************************************************)
(* rpmUsed forgets an initial segment.                                     *)
(***************************************************************************)
LEMMA RecentForm ==
    ASSUME NEW s \in Seq(Times)
    PROVE  \E k \in 0 .. Len(s) :
             /\ Len(Recent(s)) = Len(s) - k
             /\ \A i \in 1 .. Len(s) - k : Recent(s)[i] = s[i + k]
             /\ \A i \in 1 .. k : s[i] <= now - Window
             /\ k < Len(s) => ~ (s[k + 1] <= now - Window)
  <1>1. Len(s) \in Nat /\ \A i \in 1 .. Len(s) : s[i] \in Times
    BY ElementOfSeq
  <1>2. /\ Expired(s) \in SUBSET (1 .. Len(s))
        /\ \A i \in Expired(s) : \A j \in 1 .. i : j \in Expired(s)
    BY <1>1 DEF Expired
  <1>3. PICK k \in 0 .. Len(s) : Expired(s) = 1 .. k /\ Cardinality(Expired(s)) = k
    BY <1>1, <1>2, Segment
  <1>4. \A i \in 1 .. k : s[i] <= now - Window
    BY <1>1, <1>3 DEF Expired
  <1>5. k < Len(s) => ~ (s[k + 1] <= now - Window)
    <2> SUFFICES ASSUME k < Len(s), s[k + 1] <= now - Window PROVE FALSE
      OBVIOUS
    <2>1. k + 1 \in 1 .. Len(s) /\ \A i \in 1 .. k + 1 : i = k + 1 \/ i \in 1 .. k
      BY <1>1
    <2>2. \A i \in 1 .. k + 1 : s[i] <= now - Window
      BY <1>4, <2>1
    <2>3. k + 1 \in Expired(s)
      BY <2>1, <2>2 DEF Expired
    <2>4. QED
      BY <1>1, <1>3, <2>3
  <1>6. Recent(s) = SubSeq(s, k + 1, Len(s))
    BY <1>3 DEF Recent
  <1>7. \A i \in k + 1 .. Len(s) : s[i] \in Times
    BY <1>1
  <1>8. /\ Len(Recent(s)) = IF k + 1 <= Len(s) THEN Len(s) - (k + 1) + 1 ELSE 0
        /\ \A i \in 1 .. Len(s) - (k + 1) + 1 : Recent(s)[i] = s[(k + 1) + i - 1]
    BY <1>1, <1>6, <1>7, SubSeqProperties
  <1>9. Len(Recent(s)) = Len(s) - k
    BY <1>1, <1>8
  <1>10. \A i \in 1 .. Len(s) - k : Recent(s)[i] = s[i + k]
    BY <1>1, <1>8
  <1>11. QED
    BY <1>4, <1>5, <1>9, <1>10

LEMMA RecentCounts ==
    ASSUME NEW s \in Seq(Times), Sorted(s), now \in Nat
    PROVE  /\ Sorted(Recent(s))
           /\ \A T \in SUBSET Young : Cardinality(At(Recent(s), T)) = Cardinality(At(s, T))
           /\ Len(Recent(s)) = Cardinality(At(s, Young))
  <1> DEFINE u == Recent(s)
  <1>1. PICK k \in 0 .. Len(s) :
             /\ Len(u) = Len(s) - k
             /\ \A i \in 1 .. Len(s) - k : u[i] = s[i + k]
             /\ \A i \in 1 .. k : s[i] <= now - Window
             /\ k < Len(s) => ~ (s[k + 1] <= now - Window)
    BY RecentForm
  <1> HIDE DEF u
  <1>2. Len(s) \in Nat /\ (\A i \in 1 .. Len(s) : s[i] \in Times /\ s[i] \in Nat) /\ Window \in Nat
    BY ElementOfSeq, LimitsAssumption DEF Times
  <1>3. Sorted(u)
    <2> SUFFICES ASSUME NEW i \in 1 .. Len(u), NEW j \in 1 .. Len(u), i <= j PROVE u[i] <= u[j]
      BY DEF Sorted
    <2>1. i + k \in 1 .. Len(s) /\ j + k \in 1 .. Len(s) /\ i + k <= j + k
      BY <1>1, <1>2
    <2>2. s[i + k] <= s[j + k]
      BY <2>1 DEF Sorted
    <2>3. QED
      BY <1>1, <2>2
  <1>4. ASSUME NEW T \in SUBSET Young PROVE Cardinality(At(u, T)) = Cardinality(At(s, T))
    <2> DEFINE f == [i \in At(s, T) |-> i - k]
    <2>1. \A i \in At(s, T) : i \in k + 1 .. Len(s) /\ s[i] \in T
      BY <1>1, <1>2 DEF At, Young
    <2>2. \A i \in At(s, T) : i - k \in 1 .. Len(u) /\ u[i - k] = s[i]
      <3> SUFFICES ASSUME NEW i \in At(s, T) PROVE i - k \in 1 .. Len(u) /\ u[i - k] = s[i]
        OBVIOUS
      <3>1. i - k \in 1 .. Len(s) - k /\ (i - k) + k = i
        BY <1>2, <2>1
      <3>2. QED
        BY <1>1, <3>1
    <2>3. f \in [At(s, T) -> At(u, T)]
      BY <2>1, <2>2 DEF At
    <2>4. \A x, y \in At(s, T) : f[x] = f[y] => x = y
      BY <2>1, <1>2
    <2>5. \A z \in At(u, T) : \E x \in At(s, T) : f[x] = z
      <3> SUFFICES ASSUME NEW z \in At(u, T) PROVE z + k \in At(s, T) /\ f[z + k] = z
        OBVIOUS
      <3>1. z \in 1 .. Len(s) - k /\ s[z + k] \in T
        BY <1>1 DEF At
      <3>2. z + k \in 1 .. Len(s) /\ (z + k) - k = z
        BY <1>2, <3>1
      <3>3. z + k \in At(s, T)
        BY <3>1, <3>2 DEF At
      <3>4. QED
        BY <3>2, <3>3
    <2>6. IsFiniteSet(At(s, T))
      BY AtFinite
    <2> HIDE DEF f
    <2>7. QED
      BY <2>3, <2>4, <2>5, <2>6, Renumbered
  <1>5. Len(u) = Cardinality(At(s, Young))
    <2>1. \A i \in 1 .. Len(s) : i \in At(s, Young) <=> i \in k + 1 .. Len(s)
      <3> SUFFICES ASSUME NEW i \in 1 .. Len(s) PROVE s[i] > now - Window <=> i > k
        BY <1>2 DEF At, Young
      <3>1. CASE i <= k
        BY <1>1, <1>2, <3>1
      <3>2. CASE i > k
        <4>1. k + 1 \in 1 .. Len(s) /\ k + 1 <= i /\ k < Len(s)
          BY <1>2, <3>2
        <4>2. s[k + 1] <= s[i] /\ ~ (s[k + 1] <= now - Window)
          BY <1>1, <4>1 DEF Sorted
        <4>3. QED
          BY <1>2, <3>2, <4>1, <4>2
      <3>3. QED
        BY <1>2, <3>1, <3>2
    <2>2. At(s, Young) = k + 1 .. Len(s)
      BY <1>2, <2>1 DEF At
    <2>3. Cardinality(k + 1 .. Len(s)) = Len(s) - k
      BY <1>2, IntervalCount
    <2>4. QED
      BY <1>1, <2>2, <2>3
  <1>6. QED
    BY <1>3, <1>4, <1>5 DEF u

(***************************************************************************)
(* A completed call is inserted before those that started later.           *)
(***************************************************************************)
LEMMA InsertForm ==
    ASSUME NEW s \in Seq(Times), NEW t \in Times, Sorted(s)
    PROVE  \E n \in 0 .. Len(s) :
             /\ Len(InsertCall(s, t)) = Len(s) + 1
             /\ \A i \in 1 .. n : InsertCall(s, t)[i] = s[i] /\ s[i] < t
             /\ InsertCall(s, t)[n + 1] = t
             /\ \A i \in n + 1 .. Len(s) : InsertCall(s, t)[i + 1] = s[i] /\ t <= s[i]
  <1> DEFINE X == {i \in 1 .. Len(s) : s[i] < t}
  <1>1. Len(s) \in Nat /\ t \in Nat /\ \A i \in 1 .. Len(s) : s[i] \in Times /\ s[i] \in Nat
    BY ElementOfSeq, LimitsAssumption DEF Times
  <1>2. \A i \in X : \A j \in 1 .. i : j \in X
    <2> SUFFICES ASSUME NEW i \in X, NEW j \in 1 .. i PROVE s[j] < t /\ j \in 1 .. Len(s)
      OBVIOUS
    <2>1. j \in 1 .. Len(s) /\ j <= i /\ s[i] < t
      BY <1>1
    <2>2. s[j] <= s[i]
      BY <2>1 DEF Sorted
    <2>3. QED
      BY <1>1, <2>1, <2>2
  <1>3. PICK n \in 0 .. Len(s) : X = 1 .. n /\ Cardinality(X) = n
    BY <1>1, <1>2, Segment
  <1>4. \A i \in 1 .. Len(s) : s[i] < t <=> i <= n
    BY <1>1, <1>3
  <1> DEFINE a == SubSeq(s, 1, n)
             b == SubSeq(s, n + 1, Len(s))
  <1>5. InsertCall(s, t) = (a \o <<t>>) \o b
    BY <1>3 DEF InsertCall
  <1>6. (\A i \in 1 .. n : s[i] \in Times) /\ \A i \in n + 1 .. Len(s) : s[i] \in Times
    BY <1>1
  <1>7. a \in Seq(Times) /\ Len(a) = n /\ \A i \in 1 .. n : a[i] = s[i]
    <2>1. /\ a \in Seq(Times) /\ Len(a) = IF 1 <= n THEN n - 1 + 1 ELSE 0
          /\ \A i \in 1 .. n - 1 + 1 : a[i] = s[1 + i - 1]
      BY <1>1, <1>6, SubSeqProperties
    <2>2. QED
      BY <1>1, <2>1
  <1>8. b \in Seq(Times) /\ Len(b) = Len(s) - n /\ \A i \in 1 .. Len(s) - n : b[i] = s[n + i]
    <2>1. /\ b \in Seq(Times) /\ Len(b) = IF n + 1 <= Len(s) THEN Len(s) - (n + 1) + 1 ELSE 0
          /\ \A i \in 1 .. Len(s) - (n + 1) + 1 : b[i] = s[n + 1 + i - 1]
      BY <1>1, <1>6, SubSeqProperties
    <2>2. QED
      BY <1>1, <2>1
  <1> HIDE DEF a, b, X
  <1> DEFINE d == a \o <<t>>
  <1>9. d \in Seq(Times) /\ Len(d) = n + 1 /\ d[n + 1] = t /\ \A i \in 1 .. n : d[i] = s[i]
    <2>1. <<t>> \in Seq(Times) /\ Len(<<t>>) = 1 /\ <<t>>[1] = t
      OBVIOUS
    <2>2. /\ d \in Seq(Times) /\ Len(d) = Len(a) + Len(<<t>>)
          /\ \A i \in 1 .. Len(a) + Len(<<t>>) : d[i] = IF i <= Len(a) THEN a[i] ELSE <<t>>[i - Len(a)]
      BY <1>7, <2>1, ConcatProperties
    <2>3. d[n + 1] = t
      <3>1. n + 1 \in 1 .. n + 1 /\ (n + 1) - n = 1 /\ ~ (n + 1 <= n)
        BY <1>1
      <3>2. QED
        BY <1>7, <2>1, <2>2, <3>1
    <2>4. \A i \in 1 .. n : d[i] = s[i]
      BY <1>1, <1>7, <2>1, <2>2
    <2>5. QED
      BY <1>7, <2>1, <2>2, <2>3, <2>4
  <1> HIDE DEF d
  <1>10. /\ Len(d \o b) = Len(d) + Len(b)
         /\ \A i \in 1 .. Len(d) + Len(b) : (d \o b)[i] = IF i <= Len(d) THEN d[i] ELSE b[i - Len(d)]
    BY <1>8, <1>9, ConcatProperties
  <1> DEFINE u == d \o b
  <1>11. u = InsertCall(s, t) /\ Len(u) = Len(s) + 1
    BY <1>1, <1>5, <1>8, <1>9, <1>10 DEF d
  <1>12. \A i \in 1 .. n : u[i] = s[i]
    BY <1>1, <1>8, <1>9, <1>10
  <1>13. u[n + 1] = t
    <2>1. n + 1 \in 1 .. Len(d) + Len(b) /\ n + 1 <= Len(d)
      BY <1>1, <1>8, <1>9
    <2>2. QED
      BY <1>9, <1>10, <2>1
  <1>14. ASSUME NEW i \in n + 1 .. Len(s) PROVE u[i + 1] = s[i]
    <2>1. /\ i + 1 \in 1 .. Len(d) + Len(b) /\ ~ (i + 1 <= Len(d)) /\ (i + 1) - Len(d) = i - n
          /\ i - n \in 1 .. Len(s) - n /\ n + (i - n) = i
      BY <1>1, <1>8, <1>9
    <2>2. QED
      BY <1>8, <1>10, <2>1
  <1> HIDE DEF u
  <1>15. \A i \in n + 1 .. Len(s) : t <= s[i]
    BY <1>1, <1>4
  <1>16. \A i \in 1 .. n : s[i] < t
    BY <1>1, <1>4
  <1>17. QED
    BY <1>11, <1>12, <1>13, <1>14, <1>15, <1>16

LEMMA InsertCounts ==
    ASSUME NEW s \in Seq(Times), NEW t \in Times, Sorted(s)
    PROVE  /\ Sorted(InsertCall(s, t))
           /\ \A T : Cardinality(At(InsertCall(s, t), T)) =
                     Cardinality(At(s, T)) + (IF t \in T THEN 1 ELSE 0)
  <1> DEFINE u == InsertCall(s, t)
  <1>1. PICK n \in 0 .. Len(s) :
             /\ Len(u) = Len(s) + 1
             /\ \A i \in 1 .. n : u[i] = s[i] /\ s[i] < t
             /\ u[n + 1] = t
             /\ \A i \in n + 1 .. Len(s) : u[i + 1] = s[i] /\ t <= s[i]
    BY InsertForm
  <1> HIDE DEF u
  <1>2. Len(s) \in Nat /\ t \in Nat /\ \A i \in 1 .. Len(s) : s[i] \in Nat
    BY ElementOfSeq, LimitsAssumption DEF Times
  <1>3. \A i \in 1 .. Len(u) : \/ i \in 1 .. n /\ u[i] = s[i] /\ s[i] < t
                               \/ i = n + 1 /\ u[i] = t
                               \/ i - 1 \in n + 1 .. Len(s) /\ u[i] = s[i - 1] /\ t <= s[i - 1]
    <2> SUFFICES ASSUME NEW i \in 1 .. Len(u), i > n + 1
                 PROVE  i - 1 \in n + 1 .. Len(s) /\ u[i] = s[i - 1] /\ t <= s[i - 1]
      BY <1>1, <1>2
    <2>1. i - 1 \in n + 1 .. Len(s) /\ (i - 1) + 1 = i
      BY <1>1, <1>2
    <2>2. QED
      BY <1>1, <2>1
  <1>4. Sorted(u)
    <2> SUFFICES ASSUME NEW i \in 1 .. Len(u), NEW j \in 1 .. Len(u), i <= j PROVE u[i] <= u[j]
      BY DEF Sorted
    <2>1. CASE i \in 1 .. n /\ j \in 1 .. n
      <3>1. s[i] <= s[j] /\ u[i] = s[i] /\ u[j] = s[j]
        BY <1>1, <1>2, <2>1 DEF Sorted
      <3>2. QED
        BY <3>1
    <2>2. CASE i \in 1 .. n + 1 /\ j >= n + 1
      <3>1. u[i] = t \/ (u[i] = s[i] /\ s[i] < t /\ i \in 1 .. Len(s))
        BY <1>1, <1>2, <2>2
      <3>2. u[j] = t \/ (u[j] = s[j - 1] /\ t <= s[j - 1] /\ j - 1 \in 1 .. Len(s))
        BY <1>1, <1>2, <1>3, <2>2
      <3>3. QED
        BY <1>2, <3>1, <3>2
    <2>3. CASE i > n + 1
      <3>1. i - 1 \in 1 .. Len(s) /\ j - 1 \in 1 .. Len(s) /\ i - 1 <= j - 1
        BY <1>1, <1>2, <2>3
      <3>2. u[i] = s[i - 1] /\ u[j] = s[j - 1]
        BY <1>1, <1>2, <1>3, <2>3
      <3>3. QED
        BY <3>1, <3>2 DEF Sorted
    <2>4. QED
      BY <1>1, <1>2, <2>1, <2>2, <2>3
  <1>5. ASSUME NEW T
        PROVE  Cardinality(At(u, T)) = Cardinality(At(s, T)) + (IF t \in T THEN 1 ELSE 0)
    <2> DEFINE A == At(u, T) \ {n + 1}
               f == [i \in At(s, T) |-> IF i <= n THEN i ELSE i + 1]
    <2>1. \A i \in At(s, T) : i \in 1 .. Len(s) /\ s[i] \in T
      BY DEF At
    <2>2. \A i \in At(s, T) : f[i] \in A
      <3> SUFFICES ASSUME NEW i \in At(s, T) PROVE f[i] \in A
        OBVIOUS
      <3>1. CASE i <= n
        <4>1. f[i] = i /\ i \in 1 .. Len(u) /\ u[i] = s[i] /\ i # n + 1
          BY <1>1, <1>2, <2>1, <3>1
        <4>2. QED
          BY <2>1, <4>1 DEF At
      <3>2. CASE i > n
        <4>1. f[i] = i + 1 /\ i + 1 \in 1 .. Len(u) /\ u[i + 1] = s[i] /\ i + 1 # n + 1
          BY <1>1, <1>2, <2>1, <3>2
        <4>2. QED
          BY <2>1, <4>1 DEF At
      <3>3. QED
        BY <1>2, <2>1, <3>1, <3>2
    <2>3. f \in [At(s, T) -> A]
      BY <2>2
    <2>4. \A x, y \in At(s, T) : f[x] = f[y] => x = y
      BY <1>2, <2>1
    <2>5. \A z \in A : \E x \in At(s, T) : f[x] = z
      <3> SUFFICES ASSUME NEW z \in A PROVE \E x \in At(s, T) : f[x] = z
        OBVIOUS
      <3>1. z \in 1 .. Len(u) /\ z # n + 1 /\ u[z] \in T
        BY DEF At
      <3>2. CASE z \in 1 .. n
        <4>1. z \in At(s, T) /\ f[z] = z
          BY <1>1, <1>2, <3>1, <3>2 DEF At
        <4>2. QED
          BY <4>1
      <3>3. CASE z \notin 1 .. n
        <4>1. z - 1 \in n + 1 .. Len(s) /\ u[z] = s[z - 1]
          BY <1>3, <3>1, <3>3
        <4>2. z - 1 \in At(s, T)
          BY <1>2, <3>1, <4>1 DEF At
        <4>3. f[z - 1] = z
          BY <1>2, <3>1, <4>1, <4>2
        <4>4. QED
          BY <4>2, <4>3
      <3>4. QED
        BY <3>2, <3>3
    <2>6. IsFiniteSet(At(s, T)) /\ Cardinality(At(s, T)) \in Nat
      BY AtFinite
    <2>7. u \in Seq(Times)
      BY InsertCallType DEF u
    <2>8. IsFiniteSet(At(u, T)) /\ Cardinality(At(u, T)) \in Nat
      BY <2>7, AtFinite
    <2>9. n + 1 \in At(u, T) <=> t \in T
      BY <1>1, <1>2 DEF At
    <2> HIDE DEF f, A
    <2>10. Cardinality(A) = Cardinality(At(s, T))
      BY <2>3, <2>4, <2>5, <2>6, Renumbered
    <2>11. Cardinality(A) = IF t \in T THEN Cardinality(At(u, T)) - 1 ELSE Cardinality(At(u, T))
      BY <2>8, <2>9, FS_RemoveElement DEF A
    <2>12. QED
      BY <2>6, <2>8, <2>10, <2>11
  <1>6. QED
    BY <1>4, <1>5 DEF u

-----------------------------------------------------------------------------
(***************************************************************************)
(* The books of a channel: for every tick of the last minute, the calls    *)
(* put on the wire are those memory has noted and those under way; so are  *)
(* they in total; and what is noted and reserved is within the RPM.        *)
(***************************************************************************)
Wire(c, T) == {q \in Requests : held[q] = c /\ pc[q] = "sent" /\ attemptAt[q] \in T}

Started(c, T) == Cardinality(At(rpmCalls[c], T)) + Cardinality(Wire(c, T))

Metered(c) ==
    /\ Sorted(rpmCalls[c])
    /\ \A t \in Times : sends[c][t] = IF t \in Young THEN Started(c, {t}) ELSE 0
    /\ LastMinute(c) = Started(c, Young)
    /\ RPM[c] # 0 => Cardinality(At(rpmCalls[c], Young)) + rpmPending[c] <= RPM[c]

AllMetered == \A c \in Channels : Metered(c)

LEMMA ClockFacts == ASSUME TypeOK PROVE now \in Nat /\ now \in Young /\ IsFiniteSet(Times)
  <1>1. now \in Times /\ now \in Nat /\ MaxTime \in Nat /\ Window \in Nat \ {0}
    BY LimitsAssumption DEF TypeOK, Times
  <1>2. now > now - Window
    BY <1>1
  <1>3. IsFiniteSet(0 .. MaxTime)
    BY <1>1, FS_Interval
  <1>4. QED
    BY <1>1, <1>2, <1>3 DEF Young, Times

LEMMA SumOfTicks ==
    \A v, w, t :
        /\ t \in Times /\ v[t] \in Int
        /\ \A x \in Times : w[x] \in Int
        /\ \A x \in Times \ {t} : v[x] = w[x]
        => SumFunctionOnSet(v, Times) = SumFunctionOnSet(w, Times) + (v[t] - w[t])
  <1>1. IsFiniteSet(Times)
    <2>1. MaxTime \in Nat
      BY LimitsAssumption
    <2>2. QED
      BY <2>1, FS_Interval DEF Times
  <1>2. \A v, w, x, d : /\ d \in Int /\ w[x] \in Int /\ v[x] = w[x] + d
                        /\ \A y \in Times : w[y] \in Int
                        /\ \A y \in Times \ {x} : v[y] = w[y]
                        => SumFunctionOnSet(v, Times)
                             = SumFunctionOnSet(w, Times) + (IF x \in Times THEN d ELSE 0)
    BY <1>1, SumRaised
  <1> SUFFICES ASSUME NEW v, NEW w, NEW t \in Times, v[t] \in Int, \A x \in Times : w[x] \in Int,
                      \A x \in Times \ {t} : v[x] = w[x]
               PROVE  SumFunctionOnSet(v, Times) = SumFunctionOnSet(w, Times) + (v[t] - w[t])
    OBVIOUS
  <1> DEFINE d == v[t] - w[t]
  <1>3. d \in Int /\ v[t] = w[t] + d /\ w[t] \in Int
    OBVIOUS
  <1> HIDE DEF d
  <1>4. SumFunctionOnSet(v, Times) = SumFunctionOnSet(w, Times) + (IF t \in Times THEN d ELSE 0)
    BY <1>2, <1>3
  <1>5. QED
    BY <1>4 DEF d

LEMMA WireFinite == \A c, T : IsFiniteSet(Wire(c, T)) /\ Cardinality(Wire(c, T)) \in Nat
  <1>1. \A c, T : Wire(c, T) \in SUBSET Requests
    BY DEF Wire
  <1>2. \A c, T : IsFiniteSet(Wire(c, T))
    BY <1>1, RequestsAssumption, FS_Subset
  <1>3. QED
    BY <1>2, FS_CardinalityType

LEMMA CallsType ==
    ASSUME TypeOK, NEW c \in Channels
    PROVE  rpmCalls[c] \in Seq(Times) /\ \A T : Cardinality(At(rpmCalls[c], T)) \in Nat
  <1>1. rpmCalls[c] \in Seq(Times)
    BY DEF TypeOK
  <1>2. QED
    BY <1>1, AtFinite

(***************************************************************************)
(* Steps at which time stands still and nothing is put on the wire.        *)
(***************************************************************************)
LEMMA MeteredKept ==
    ASSUME NEW c \in Channels, Metered(c), UNCHANGED now, sends'[c] = sends[c],
           Sorted(rpmCalls'[c]),
           \A T \in SUBSET Young : Started(c, T)' = Started(c, T),
           RPM[c] # 0 => Cardinality(At(rpmCalls[c], Young))' + rpmPending'[c] <= RPM[c]
    PROVE  Metered(c)'
  <1>1. Young' = Young
    BY DEF Young
  <1>2. LastMinute(c)' = LastMinute(c)
    BY DEF LastMinute
  <1>3. LastMinute(c)' = Started(c, Young)'
    <2>1. \A T \in SUBSET Young : T = Young => Started(c, T)' = Started(c, Young)
      OBVIOUS
    <2>2. \A T \in SUBSET Young : T = Young => Started(c, Young)' = Started(c, T)'
      BY <1>1 DEF Started, At, Wire
    <2>3. QED
      BY <1>2, <2>1, <2>2 DEF Metered
  <1>4. \A t \in Times : sends'[c][t] = IF t \in Young' THEN Started(c, {t})' ELSE 0
    <2> SUFFICES ASSUME NEW t \in Times
                 PROVE  sends[c][t] = IF t \in Young THEN Started(c, {t})' ELSE 0
      BY <1>1
    <2>1. t \in Young => Started(c, {t})' = Started(c, {t})
      OBVIOUS
    <2>2. QED
      BY <2>1 DEF Metered
  <1>5. Cardinality(At(rpmCalls[c], Young))' = Cardinality(At(rpmCalls[c], Young)')
    OBVIOUS
  <1>6. QED
    BY <1>1, <1>3, <1>4, <1>5 DEF Metered

(***************************************************************************)
(* Steps that do not change what is under way, but trim the window, or     *)
(* make or give back a reservation.                                        *)
(***************************************************************************)
LEMMA MeteredRouting ==
    ASSUME TypeOK, NEW c \in Channels, Metered(c), UNCHANGED <<now, sends>>,
           rpmCalls'[c] \in {rpmCalls[c], Recent(rpmCalls[c])},
           \A T : Wire(c, T)' = Wire(c, T),
           rpmPending'[c] \in Int,
           \/ rpmPending'[c] <= rpmPending[c]
           \/ rpmPending'[c] = rpmPending[c] + 1 /\ (RPM[c] = 0 \/ RpmUsed(c) < RPM[c])
    PROVE  Metered(c)'
  <1>1. now \in Nat /\ rpmCalls[c] \in Seq(Times) /\ Sorted(rpmCalls[c])
    BY ClockFacts, CallsType DEF Metered
  <1>2. /\ Sorted(Recent(rpmCalls[c]))
        /\ \A T \in SUBSET Young : Cardinality(At(Recent(rpmCalls[c]), T)) = Cardinality(At(rpmCalls[c], T))
        /\ Len(Recent(rpmCalls[c])) = Cardinality(At(rpmCalls[c], Young))
    BY <1>1, RecentCounts
  <1>3. \A T \in SUBSET Young : Cardinality(At(rpmCalls[c], T)') = Cardinality(At(rpmCalls[c], T))
    BY <1>2 DEF At
  <1>4. \A T \in SUBSET Young : Started(c, T)' = Started(c, T)
    BY <1>3 DEF Started
  <1>5. Young' = Young
    BY DEF Young
  <1>6. Cardinality(At(rpmCalls[c], Young))' = Cardinality(At(rpmCalls[c], Young))
    BY <1>3, <1>5 DEF At
  <1>7. RPM[c] # 0 => Cardinality(At(rpmCalls[c], Young))' + rpmPending'[c] <= RPM[c]
    <2>1. RPM[c] \in Nat /\ rpmPending[c] \in Nat /\ Cardinality(At(rpmCalls[c], Young)) \in Nat
      BY CallsType, LimitsAssumption DEF TypeOK
    <2>2. RPM[c] # 0 => Cardinality(At(rpmCalls[c], Young)) + rpmPending[c] <= RPM[c]
      BY DEF Metered
    <2>3. RpmUsed(c) = Cardinality(At(rpmCalls[c], Young)) + rpmPending[c]
      BY <1>2 DEF RpmUsed
    <2>4. QED
      BY <1>6, <2>1, <2>2, <2>3
  <1>8. Sorted(rpmCalls'[c])
    BY <1>1, <1>2
  <1>9. QED
    BY <1>4, <1>7, <1>8, MeteredKept

LEMMA WireKept ==
    ASSUME \A q \in Requests : \/ pc[q] # "sent" /\ pc'[q] # "sent"
                               \/ pc'[q] = pc[q] /\ held'[q] = held[q] /\ attemptAt'[q] = attemptAt[q]
    PROVE  \A c, T : Wire(c, T)' = Wire(c, T)
  BY DEF Wire

(***************************************************************************)
(* One request is sent, or its call ends.                                  *)
(***************************************************************************)
LEMMA WireExchanged ==
    ASSUME NEW r \in Requests, NEW c, NEW T,
           \A q \in Requests \ {r} :
               pc'[q] = pc[q] /\ held'[q] = held[q] /\ attemptAt'[q] = attemptAt[q]
    PROVE  Cardinality(Wire(c, T)') - (IF r \in Wire(c, T)' THEN 1 ELSE 0)
             = Cardinality(Wire(c, T)) - (IF r \in Wire(c, T) THEN 1 ELSE 0)
  <1>1. Wire(c, T) \ {r} = Wire(c, T)' \ {r}
    BY DEF Wire
  <1>2. IsFiniteSet(Wire(c, T))
    BY WireFinite
  <1> DEFINE S == Wire(c, T)
             Q == Wire(c, T)'
  <1>3. IsFiniteSet(S) /\ S \ {r} = Q \ {r}
    BY <1>1, <1>2
  <1> HIDE DEF S, Q
  <1>4. Cardinality(Q) - (IF r \in Q THEN 1 ELSE 0) = Cardinality(S) - (IF r \in S THEN 1 ELSE 0)
    BY <1>3, CardinalityExchanged
  <1>5. QED
    BY <1>4 DEF S, Q

LEMMA FinishMetered ==
    ASSUME Conserved, NEW r \in Requests, Finish(r), NEW c \in Channels, Metered(c)
    PROVE  Metered(c)'
  <1> DEFINE d == held[r]
             a == attemptAt[r]
  <1>1. pc[r] = "sent" /\ d \in Channels /\ Charge(r) /\ Continue(r)
    BY HeldChannel DEF Finish, Stale, Succeed, Cancelled, Fail, Charge, Continue
  <1>2. /\ UNCHANGED <<now, sends>> /\ a \in Times /\ pc'[r] # "sent"
        /\ rpmCalls' = [rpmCalls EXCEPT ![d] = InsertCall(@, a)]
        /\ rpmPending' = [rpmPending EXCEPT ![d] = @ - 1]
        /\ held' = [held EXCEPT ![r] = NoChannel]
        /\ attemptAt' = [attemptAt EXCEPT ![r] = 0]
    BY <1>1 DEF Charge, Unhold, Continue, Forget, Conserved, TypeOK
  <1>3. \A q \in Requests \ {r} : pc'[q] = pc[q] /\ held'[q] = held[q] /\ attemptAt'[q] = attemptAt[q]
    BY <1>1, <1>2 DEF Continue, Forget, Conserved, TypeOK
  <1>4. \A T : r \notin Wire(c, T)' /\ (r \in Wire(c, T) <=> c = d /\ a \in T)
    BY <1>1, <1>2 DEF Wire
  <1>5. \A T : Cardinality(Wire(c, T)') = Cardinality(Wire(c, T)) - (IF c = d /\ a \in T THEN 1 ELSE 0)
    <2> SUFFICES ASSUME NEW T
                 PROVE  Cardinality(Wire(c, T)')
                          = Cardinality(Wire(c, T)) - (IF c = d /\ a \in T THEN 1 ELSE 0)
      OBVIOUS
    <2>1. Cardinality(Wire(c, T)') - (IF r \in Wire(c, T)' THEN 1 ELSE 0)
             = Cardinality(Wire(c, T)) - (IF r \in Wire(c, T) THEN 1 ELSE 0)
      BY <1>3, WireExchanged
    <2>2. Cardinality(Wire(c, T)) \in Nat /\ Cardinality(Wire(c, T)') \in Nat
      <3>1. IsFiniteSet(Wire(c, T)')
        <4>1. Wire(c, T)' \in SUBSET Requests
          BY DEF Wire
        <4>2. QED
          BY <4>1, RequestsAssumption, FS_Subset
      <3>2. QED
        BY <3>1, WireFinite, FS_CardinalityType
    <2>3. QED
      BY <1>4, <2>1, <2>2
  <1>6. CASE c = d
    <2>1. /\ rpmCalls[c] \in Seq(Times) /\ Sorted(rpmCalls[c])
          /\ \A T : Cardinality(At(rpmCalls[c], T)) \in Nat
      BY CallsType DEF Conserved, Metered
    <2>2. /\ Sorted(InsertCall(rpmCalls[c], a))
          /\ \A T : Cardinality(At(InsertCall(rpmCalls[c], a), T)) =
                    Cardinality(At(rpmCalls[c], T)) + (IF a \in T THEN 1 ELSE 0)
      BY <1>2, <2>1, InsertCounts
    <2>3. rpmCalls'[c] = InsertCall(rpmCalls[c], a) /\ rpmPending'[c] = rpmPending[c] - 1
      BY <1>1, <1>2, <1>6 DEF Conserved, TypeOK
    <2>4. \A T : Cardinality(At(rpmCalls[c], T)') =
                    Cardinality(At(rpmCalls[c], T)) + (IF a \in T THEN 1 ELSE 0)
      BY <2>2, <2>3 DEF At
    <2>5. \A T : Cardinality(Wire(c, T)) \in Nat
      BY WireFinite
    <2>6. ASSUME NEW T PROVE Started(c, T)' = Started(c, T)
      <3>1. Started(c, T)' = Cardinality(At(rpmCalls[c], T)') + Cardinality(Wire(c, T)')
        BY DEF Started
      <3>2. CASE a \in T
        BY <1>5, <1>6, <2>1, <2>4, <2>5, <3>1, <3>2 DEF Started
      <3>3. CASE a \notin T
        BY <1>5, <1>6, <2>1, <2>4, <2>5, <3>1, <3>3 DEF Started
      <3>4. QED
        BY <3>2, <3>3
    <2>7. Cardinality(At(rpmCalls[c], Young))' <= Cardinality(At(rpmCalls[c], Young)) + 1
      <3>1. Young' = Young
        BY <1>2 DEF Young
      <3>2. Cardinality(At(rpmCalls[c], Young))' =
               Cardinality(At(rpmCalls[c], Young)) + (IF a \in Young THEN 1 ELSE 0)
        BY <2>4, <3>1 DEF At
      <3>3. QED
        BY <2>1, <3>2
    <2>8. Cardinality(At(rpmCalls[c], Young))' \in Nat
      <3>1. rpmCalls'[c] \in Seq(Times)
        BY <1>2, <2>1, <2>3, InsertCallType
      <3>2. QED
        BY <3>1, AtFinite
    <2>9. RPM[c] # 0 => Cardinality(At(rpmCalls[c], Young))' + rpmPending'[c] <= RPM[c]
      <3>1. RPM[c] \in Nat /\ rpmPending[c] \in Nat
        BY LimitsAssumption DEF Conserved, TypeOK
      <3>2. QED
        BY <2>1, <2>3, <2>7, <2>8, <3>1 DEF Metered
    <2>10. sends'[c] = sends[c] /\ UNCHANGED now /\ Sorted(rpmCalls'[c])
      BY <1>2, <2>2, <2>3
    <2>11. QED
      BY <2>6, <2>9, <2>10, MeteredKept
  <1>7. CASE c # d
    <2>1. rpmCalls'[c] = rpmCalls[c] /\ rpmPending'[c] = rpmPending[c] /\ rpmPending[c] \in Nat
      BY <1>1, <1>2, <1>7 DEF Conserved, TypeOK
    <2>2. \A T : Wire(c, T)' = Wire(c, T)
      BY <1>3, <1>4, <1>7 DEF Wire
    <2>3. QED
      BY <1>2, <2>1, <2>2, MeteredRouting DEF Conserved
  <1>8. QED
    BY <1>6, <1>7

LEMMA SendMetered ==
    ASSUME Conserved, NEW r \in Requests, Send(r), NEW c \in Channels, Metered(c)
    PROVE  Metered(c)'
  <1> DEFINE d == held[r]
  <1>1. pc[r] = "checked" /\ d \in Channels
    BY HeldChannel DEF Send
  <1>2. /\ UNCHANGED <<now, held, rpmCalls, rpmPending>>
        /\ pc' = [pc EXCEPT ![r] = "sent"] /\ attemptAt' = [attemptAt EXCEPT ![r] = now]
        /\ sends' = [sends EXCEPT ![d][now] = @ + 1]
    BY DEF Send, memory
  <1>3. \A q \in Requests \ {r} : pc'[q] = pc[q] /\ held'[q] = held[q] /\ attemptAt'[q] = attemptAt[q]
    BY <1>2 DEF Conserved, TypeOK
  <1>4. \A T : r \notin Wire(c, T) /\ (r \in Wire(c, T)' <=> c = d /\ now \in T)
    <2>1. pc'[r] = "sent" /\ attemptAt'[r] = now /\ held'[r] = d
      BY <1>2 DEF Conserved, TypeOK
    <2>2. QED
      BY <1>1, <2>1 DEF Wire
  <1>5. now \in Nat /\ now \in Young /\ IsFiniteSet(Times) /\ now \in Times
    BY ClockFacts DEF Conserved, TypeOK
  <1>6. CASE c = d
    <2>1. \A T : /\ Cardinality(Wire(c, T)') = Cardinality(Wire(c, T)) + (IF now \in T THEN 1 ELSE 0)
                 /\ Cardinality(Wire(c, T)) \in Nat
      <3> SUFFICES ASSUME NEW T
                   PROVE  /\ Cardinality(Wire(c, T)') = Cardinality(Wire(c, T)) + (IF now \in T THEN 1 ELSE 0)
                          /\ Cardinality(Wire(c, T)) \in Nat
        OBVIOUS
      <3>1. Cardinality(Wire(c, T)') - (IF r \in Wire(c, T)' THEN 1 ELSE 0)
               = Cardinality(Wire(c, T)) - (IF r \in Wire(c, T) THEN 1 ELSE 0)
        BY <1>3, WireExchanged
      <3>2. Wire(c, T)' \in SUBSET Requests
        BY DEF Wire
      <3>3. Cardinality(Wire(c, T)) \in Nat /\ Cardinality(Wire(c, T)') \in Nat
        BY <3>2, WireFinite, RequestsAssumption, FS_Subset, FS_CardinalityType
      <3>4. QED
        BY <1>4, <1>6, <3>1, <3>3
    <2>2. \A T : Started(c, T)' = Started(c, T) + (IF now \in T THEN 1 ELSE 0)
      <3> SUFFICES ASSUME NEW T PROVE Started(c, T)' = Started(c, T) + (IF now \in T THEN 1 ELSE 0)
        OBVIOUS
      <3>1. Cardinality(At(rpmCalls[c], T)) \in Nat
        BY CallsType DEF Conserved
      <3>2. Started(c, T)' = Cardinality(At(rpmCalls[c], T)) + Cardinality(Wire(c, T)')
        BY <1>2 DEF Started, At
      <3>3. QED
        BY <2>1, <3>1, <3>2 DEF Started
    <2>3. /\ sends'[c][now] = sends[c][now] + 1 /\ \A t \in Times \ {now} : sends'[c][t] = sends[c][t]
          /\ \A t \in Times : sends[c][t] \in Nat
      BY <1>1, <1>2, <1>5, <1>6 DEF Conserved, TypeOK
    <2>4. Young' = Young
      BY <1>2 DEF Young
    <2>5. LastMinute(c)' = Started(c, Young)'
      <3>1. LastMinute(c)' = LastMinute(c) + 1
        <4>1. SumFunctionOnSet(sends'[c], Times) = SumFunctionOnSet(sends[c], Times) + 1
          <5>1. /\ sends'[c][now] \in Int /\ sends'[c][now] - sends[c][now] = 1
                /\ \A t \in Times : sends[c][t] \in Int
            BY <1>5, <2>3
          <5>2. SumFunctionOnSet(sends'[c], Times)
                   = SumFunctionOnSet(sends[c], Times) + (sends'[c][now] - sends[c][now])
            BY <1>5, <2>3, <5>1, SumOfTicks
          <5>3. QED
            BY <5>1, <5>2
        <4>2. Times' = Times
          BY DEF Times
        <4>3. QED
          BY <4>1, <4>2 DEF LastMinute
      <3>2. Started(c, Young)' = Started(c, Young) + 1
        <4>1. \A T : T = Young => Started(c, T)' = Started(c, Young) + 1
          BY <1>5, <2>2
        <4>2. \A T : T = Young => Started(c, Young)' = Started(c, T)'
          BY <2>4 DEF Started, At, Wire
        <4>3. QED
          BY <4>1, <4>2
      <3>3. QED
        BY <3>1, <3>2 DEF Metered
    <2>6. \A t \in Times : sends'[c][t] = IF t \in Young' THEN Started(c, {t})' ELSE 0
      <3> SUFFICES ASSUME NEW t \in Times PROVE sends'[c][t] = IF t \in Young THEN Started(c, {t})' ELSE 0
        BY <2>4
      <3>1. Started(c, {t})' = Started(c, {t}) + (IF now \in {t} THEN 1 ELSE 0)
        BY <2>2
      <3>2. sends[c][t] = IF t \in Young THEN Started(c, {t}) ELSE 0
        BY DEF Metered
      <3>3. CASE t = now
        BY <1>5, <2>3, <3>1, <3>2, <3>3
      <3>4. CASE t # now
        <4>1. Cardinality(Wire(c, {t})) \in Nat /\ Cardinality(At(rpmCalls[c], {t})) \in Nat
          BY WireFinite, CallsType DEF Conserved
        <4>2. Started(c, {t}) \in Int
          BY <4>1 DEF Started
        <4>3. QED
          BY <2>3, <3>1, <3>2, <3>4, <4>2
      <3>5. QED
        BY <3>3, <3>4
    <2>7. Cardinality(At(rpmCalls[c], Young))' = Cardinality(At(rpmCalls[c], Young))
      BY <1>2, <2>4 DEF At
    <2>8. QED
      BY <1>2, <2>5, <2>6, <2>7 DEF Metered, Sorted
  <1>7. CASE c # d
    <2>1. sends'[c] = sends[c]
      BY <1>1, <1>2, <1>7 DEF Conserved, TypeOK
    <2>2. \A T : Wire(c, T)' = Wire(c, T)
      BY <1>3, <1>4, <1>7 DEF Wire
    <2>3. Young' = Young
      BY <1>2 DEF Young
    <2>4. \A T : Started(c, T)' = Started(c, T)
      BY <1>2, <2>2 DEF Started, At
    <2>5. Cardinality(At(rpmCalls[c], Young))' = Cardinality(At(rpmCalls[c], Young))
      BY <1>2, <2>3 DEF At
    <2>6. Sorted(rpmCalls'[c]) /\ (RPM[c] # 0 => Cardinality(At(rpmCalls[c], Young))' + rpmPending'[c] <= RPM[c])
      BY <1>2, <2>5 DEF Metered
    <2>7. QED
      BY <1>2, <2>1, <2>4, <2>6, MeteredKept
  <1>8. QED
    BY <1>6, <1>7

(***************************************************************************)
(* A tick takes the calls of one tick out of the minute.                   *)
(***************************************************************************)
LEMMA StartedSplit ==
    ASSUME TypeOK, NEW c \in Channels, NEW T, NEW t \in T
    PROVE  /\ Started(c, T) = Started(c, T \ {t}) + Started(c, {t})
           /\ Cardinality(At(rpmCalls[c], T \ {t})) <= Cardinality(At(rpmCalls[c], T))
           /\ \A U : Started(c, U) \in Nat /\ Cardinality(At(rpmCalls[c], U)) \in Nat
  <1> DEFINE s == rpmCalls[c]
  <1>1. \A U : /\ IsFiniteSet(At(s, U)) /\ Cardinality(At(s, U)) \in Nat
               /\ IsFiniteSet(Wire(c, U)) /\ Cardinality(Wire(c, U)) \in Nat
    BY AtFinite, CallsType, WireFinite
  <1>2. /\ At(s, T) \ At(s, {t}) = At(s, T \ {t}) /\ At(s, T) \cap At(s, {t}) = At(s, {t})
        /\ Wire(c, T) \ Wire(c, {t}) = Wire(c, T \ {t}) /\ Wire(c, T) \cap Wire(c, {t}) = Wire(c, {t})
    BY DEF At, Wire
  <1> HIDE DEF s
  <1>3. Cardinality(At(s, T \ {t})) = Cardinality(At(s, T)) - Cardinality(At(s, {t}))
    <2>1. Cardinality(At(s, T) \ At(s, {t})) = Cardinality(At(s, T)) - Cardinality(At(s, T) \cap At(s, {t}))
      BY <1>1, FS_Difference
    <2>2. QED
      BY <1>2, <2>1
  <1>4. Cardinality(Wire(c, T \ {t})) = Cardinality(Wire(c, T)) - Cardinality(Wire(c, {t}))
    <2>1. Cardinality(Wire(c, T) \ Wire(c, {t}))
             = Cardinality(Wire(c, T)) - Cardinality(Wire(c, T) \cap Wire(c, {t}))
      BY <1>1, FS_Difference
    <2>2. QED
      BY <1>2, <2>1
  <1>5. \A U : Started(c, U) = Cardinality(At(s, U)) + Cardinality(Wire(c, U))
    BY DEF Started, s
  <1>6. Started(c, T) = Started(c, T \ {t}) + Started(c, {t})
    <2>1. /\ Started(c, T) = Cardinality(At(s, T)) + Cardinality(Wire(c, T))
          /\ Started(c, T \ {t}) = Cardinality(At(s, T \ {t})) + Cardinality(Wire(c, T \ {t}))
          /\ Started(c, {t}) = Cardinality(At(s, {t})) + Cardinality(Wire(c, {t}))
      BY <1>5
    <2>2. /\ Cardinality(At(s, T)) \in Nat /\ Cardinality(Wire(c, T)) \in Nat
          /\ Cardinality(At(s, {t})) \in Nat /\ Cardinality(Wire(c, {t})) \in Nat
      BY <1>1
    <2>3. QED
      BY <1>3, <1>4, <2>1, <2>2
  <1>7. Cardinality(At(s, T \ {t})) <= Cardinality(At(s, T))
    <2>1. Cardinality(At(s, T)) \in Nat /\ Cardinality(At(s, {t})) \in Nat
      BY <1>1
    <2>2. QED
      BY <1>3, <2>1
  <1>8. \A U : Started(c, U) \in Nat /\ Cardinality(At(s, U)) \in Nat
    BY <1>1, <1>5
  <1>9. QED
    BY <1>6, <1>7, <1>8 DEF s

LEMMA TickMetered ==
    ASSUME Conserved, Tick, NEW c \in Channels, Metered(c)
    PROVE  Metered(c)'
  <1> DEFINE t0 == now + 1 - Window
  <1>1. /\ now \in Nat /\ now + 1 <= MaxTime /\ MaxTime \in Nat /\ Window \in Nat \ {0}
        /\ sends[c] \in [Times -> Nat] /\ Times = 0 .. MaxTime
    <2>1. MaxTime \in Nat /\ Window \in Nat \ {0}
      BY LimitsAssumption
    <2>2. now \in Times /\ now < MaxTime /\ sends[c] \in [Times -> Nat]
      BY DEF Conserved, TypeOK, Tick
    <2>3. QED
      BY <2>1, <2>2 DEF Times
  <1>2. now' = now + 1 /\ UNCHANGED <<rpmCalls, rpmPending, pc, held, attemptAt>>
    BY DEF Tick, memory, request
  <1>3. sends'[c] = [t \in Times |-> IF t <= t0 THEN 0 ELSE sends[c][t]]
    BY DEF Tick
  <1>4. \A T : Started(c, T)' = Started(c, T) /\ At(rpmCalls[c], T)' = At(rpmCalls[c], T)
    BY <1>2 DEF Started, At, Wire
  <1>5. \A t \in Times : sends[c][t] = IF t \in Young THEN Started(c, {t}) ELSE 0
    BY DEF Metered
  <1>6. RPM[c] # 0 => Cardinality(At(rpmCalls[c], Young)) + rpmPending[c] <= RPM[c]
    BY DEF Metered
  <1>7. LastMinute(c) = Started(c, Young)
    BY DEF Metered
  <1>8. Sorted(rpmCalls'[c])
    BY <1>2 DEF Metered
  <1>9. /\ Started(c, Young)' = Started(c, Young')
        /\ Cardinality(At(rpmCalls[c], Young))' = Cardinality(At(rpmCalls[c], Young'))
    BY <1>2 DEF Started, At, Wire
  <1>10. Times' = Times
    BY DEF Times
  <1>11. LastMinute(c)' = SumFunctionOnSet(sends'[c], Times)
    BY <1>10 DEF LastMinute
  <1>12. CASE t0 \in Times
    <2>1. t0 \in Young /\ Young' = Young \ {t0}
      BY <1>1, <1>2, <1>12 DEF Young
    <2>2. \A t \in Times : t < t0 => t \notin Young
      BY <1>1, <1>12 DEF Young
    <2>3. sends'[c][t0] = 0 /\ \A t \in Times \ {t0} : sends'[c][t] = sends[c][t]
      <3>1. sends'[c][t0] = 0
        BY <1>1, <1>3, <1>12
      <3>2. ASSUME NEW t \in Times \ {t0} PROVE sends'[c][t] = sends[c][t]
        <4>1. sends'[c][t] = IF t <= t0 THEN 0 ELSE sends[c][t]
          BY <1>3
        <4>2. t < t0 \/ t > t0
          BY <1>1, <1>12
        <4>3. CASE t < t0
          <5>1. sends[c][t] = 0
            BY <1>5, <2>2, <4>3
          <5>2. QED
            BY <4>1, <5>1
        <4>4. CASE t > t0
          <5>1. ~ (t <= t0)
            BY <1>1, <1>12, <4>4
          <5>2. QED
            BY <4>1, <5>1
        <4>5. QED
          BY <4>2, <4>3, <4>4
      <3>3. QED
        BY <3>1, <3>2
    <2>4. sends[c][t0] = Started(c, {t0}) /\ \A t \in Times : sends[c][t] \in Int
      BY <1>1, <1>5, <1>12, <2>1
    <2>5. SumFunctionOnSet(sends'[c], Times)
             = SumFunctionOnSet(sends[c], Times) + (sends'[c][t0] - sends[c][t0])
      <3> DEFINE v == sends'[c]
                 w == sends[c]
      <3>1. t0 \in Times /\ v[t0] \in Int
        BY <1>12, <2>3
      <3>2. \A x \in Times : w[x] \in Int
        BY <2>4
      <3>3. \A x \in Times \ {t0} : v[x] = w[x]
        BY <2>3
      <3> HIDE DEF t0, v, w
      <3>4. SumFunctionOnSet(v, Times) = SumFunctionOnSet(w, Times) + (v[t0] - w[t0])
        BY <3>1, <3>2, <3>3, SumOfTicks
      <3>5. QED
        BY <3>4 DEF v, w
    <2>6. /\ Started(c, Young) = Started(c, Young \ {t0}) + Started(c, {t0})
          /\ Cardinality(At(rpmCalls[c], Young \ {t0})) <= Cardinality(At(rpmCalls[c], Young))
          /\ \A U : Started(c, U) \in Nat /\ Cardinality(At(rpmCalls[c], U)) \in Nat
      BY <2>1, StartedSplit DEF Conserved
    <2>7. LastMinute(c)' = Started(c, Young)'
      <3>1. SumFunctionOnSet(sends[c], Times) = Started(c, Young)
        BY <1>7 DEF LastMinute
      <3>2. Started(c, Young \ {t0}) \in Nat /\ Started(c, {t0}) \in Nat
        BY <2>6
      <3>3. SumFunctionOnSet(sends'[c], Times) = Started(c, Young \ {t0})
        BY <2>3, <2>4, <2>5, <2>6, <3>1, <3>2
      <3>4. Started(c, Young)' = Started(c, Young \ {t0})
        BY <1>9, <2>1
      <3>5. QED
        BY <1>11, <3>3, <3>4
    <2>8. \A t \in Times : sends'[c][t] = IF t \in Young' THEN Started(c, {t})' ELSE 0
      BY <1>4, <1>5, <2>1, <2>3
    <2>9. RPM[c] # 0 => Cardinality(At(rpmCalls[c], Young))' + rpmPending'[c] <= RPM[c]
      <3>1. RPM[c] \in Nat /\ rpmPending[c] \in Nat /\ rpmPending'[c] = rpmPending[c]
        BY <1>2, LimitsAssumption DEF Conserved, TypeOK
      <3>2. /\ Cardinality(At(rpmCalls[c], Young \ {t0})) \in Nat
            /\ Cardinality(At(rpmCalls[c], Young)) \in Nat
        BY <2>6
      <3>3. Cardinality(At(rpmCalls[c], Young))' = Cardinality(At(rpmCalls[c], Young \ {t0}))
        BY <1>9, <2>1
      <3>4. QED
        BY <1>6, <2>6, <3>1, <3>2, <3>3
    <2>10. QED
      BY <1>8, <1>10, <2>7, <2>8, <2>9 DEF Metered
  <1>13. CASE t0 \notin Times
    <2>1. t0 < 0
      BY <1>1, <1>13
    <2>2. Young' = Young
      BY <1>1, <1>2, <2>1 DEF Young
    <2>3. sends'[c] = sends[c]
      BY <1>1, <1>3, <2>1
    <2>4. LastMinute(c)' = Started(c, Young)'
      BY <1>7, <1>9, <1>11, <2>2, <2>3 DEF LastMinute
    <2>5. \A t \in Times : sends'[c][t] = IF t \in Young' THEN Started(c, {t})' ELSE 0
      BY <1>4, <1>5, <2>2, <2>3
    <2>6. RPM[c] # 0 => Cardinality(At(rpmCalls[c], Young))' + rpmPending'[c] <= RPM[c]
      BY <1>2, <1>6, <1>9, <2>2
    <2>7. QED
      BY <1>8, <1>10, <2>4, <2>5, <2>6 DEF Metered
  <1>14. QED
    BY <1>12, <1>13

(***************************************************************************)
(* Selection reserves only below the RPM, under the lock under which it    *)
(* counted.                                                                *)
(***************************************************************************)
LEMMA AcquireMetered ==
    ASSUME Conserved, NEW r \in Requests, Acquire(r) \/ NoRoute(r), NEW c \in Channels, Metered(c)
    PROVE  Metered(c)'
  <1>1. pc[r] = "routing" /\ Visit(r) /\ UNCHANGED <<now, sends, attemptAt>>
    BY DEF Acquire, NoRoute
  <1>2. rpmCalls'[c] \in {rpmCalls[c], Recent(rpmCalls[c])}
    BY <1>1 DEF Visit
  <1>3. \A T : Wire(c, T)' = Wire(c, T)
    <2>1. /\ pc'[r] # "sent" /\ \A q \in Requests \ {r} : pc'[q] = pc[q] /\ held'[q] = held[q]
      BY DEF Acquire, NoRoute, Forget, Conserved, TypeOK
    <2>2. QED
      BY <1>1, <2>1, WireKept
  <1>4. rpmPending[c] \in Nat
    BY DEF Conserved, TypeOK
  <1>5. \/ rpmPending'[c] = rpmPending[c]
        \/ rpmPending'[c] = rpmPending[c] + 1 /\ (RPM[c] = 0 \/ RpmUsed(c) < RPM[c])
    <2>1. CASE NoRoute(r)
      BY <2>1 DEF NoRoute
    <2>2. CASE Acquire(r)
      <3>1. PICK d \in Eligible(r) : rpmPending' = [rpmPending EXCEPT ![d] = @ + 1]
        BY <2>2 DEF Acquire
      <3>2. RPM[d] = 0 \/ RpmUsed(d) < RPM[d]
        BY DEF Eligible
      <3>3. QED
        BY <3>1, <3>2 DEF Conserved, TypeOK
    <2>3. QED
      BY <2>1, <2>2
  <1>6. rpmPending'[c] \in Int /\ (rpmPending'[c] = rpmPending[c] => rpmPending'[c] <= rpmPending[c])
    BY <1>4, <1>5
  <1>7. QED
    BY <1>1, <1>2, <1>3, <1>5, <1>6, MeteredRouting DEF Conserved

LEMMA UnsentMetered ==
    ASSUME Conserved, NEW r \in Requests, pc[r] \in {"held", "checked"}, Continue(r), ReleaseUnsent(r),
           NEW c \in Channels, Metered(c)
    PROVE  Metered(c)'
  <1>1. UNCHANGED <<now, sends, rpmCalls>> /\ Unhold(r)
    BY DEF ReleaseUnsent
  <1>2. \A T : Wire(c, T)' = Wire(c, T)
    <2>1. /\ pc[r] # "sent" /\ pc'[r] # "sent"
          /\ \A q \in Requests \ {r} :
                pc'[q] = pc[q] /\ held'[q] = held[q] /\ attemptAt'[q] = attemptAt[q]
      BY <1>1 DEF Unhold, Continue, Forget, Conserved, TypeOK
    <2>2. QED
      BY <2>1, WireKept
  <1>3. rpmPending'[c] \in Int /\ rpmPending'[c] <= rpmPending[c]
    <2>1. rpmPending[c] \in Nat /\ rpmPending \in [Channels -> Nat]
      BY DEF Conserved, TypeOK
    <2>2. rpmPending' = [rpmPending EXCEPT ![held[r]] = @ - 1]
      BY <1>1 DEF Unhold
    <2>3. QED
      BY <2>1, <2>2
  <1>4. QED
    BY <1>1, <1>2, <1>3, MeteredRouting DEF Conserved

LEMMA StepMetered == Conserved /\ AllMetered /\ [Next]_vars => AllMetered'
  <1> SUFFICES ASSUME Conserved, [Next]_vars, NEW c \in Channels, Metered(c) PROVE Metered(c)'
    BY DEF AllMetered
  <1>q. ASSUME UNCHANGED <<now, sends, rpmPending>>,
               rpmCalls'[c] \in {rpmCalls[c], Recent(rpmCalls[c])},
               \A q \in Requests : \/ pc[q] # "sent" /\ pc'[q] # "sent"
                                   \/ pc'[q] = pc[q] /\ held'[q] = held[q] /\ attemptAt'[q] = attemptAt[q]
        PROVE  Metered(c)'
    <2>1. \A T : Wire(c, T)' = Wire(c, T)
      BY <1>q, WireKept
    <2>2. rpmPending'[c] \in Int /\ rpmPending'[c] <= rpmPending[c]
      BY <1>q DEF Conserved, TypeOK
    <2>3. QED
      BY <1>q, <2>1, <2>2, MeteredRouting DEF Conserved
  <1>1. ASSUME NEW r \in Requests, Acquire(r) \/ NoRoute(r) PROVE Metered(c)'
    BY <1>1, AcquireMetered
  <1>2. ASSUME NEW r \in Requests, Send(r) PROVE Metered(c)'
    BY <1>2, SendMetered
  <1>3. ASSUME NEW r \in Requests, Finish(r) PROVE Metered(c)'
    BY <1>3, FinishMetered
  <1>4. ASSUME NEW r \in Requests, Unprepared(r) \/ (pc[r] = "held" /\ Continue(r) /\ ReleaseUnsent(r))
        PROVE  Metered(c)'
    BY <1>4, UnsentMetered DEF Unprepared
  <1>5. ASSUME NEW r \in Requests,
               Begin(r) \/ ReadKeys(r) \/ GiveUp(r) \/ (Recheck(r) /\ UNCHANGED <<now, memory, held, attemptAt, sends>>)
        PROVE  Metered(c)'
    <2>1. UNCHANGED <<now, sends, rpmPending, rpmCalls, held, attemptAt>>
      BY <1>5 DEF Begin, ReadKeys, GiveUp, memory
    <2>2. /\ pc[r] # "sent" /\ pc'[r] # "sent" /\ \A q \in Requests \ {r} : pc'[q] = pc[q]
      BY <1>5 DEF Begin, ReadKeys, GiveUp, Recheck, Continue, Forget, Conserved, TypeOK
    <2>3. QED
      BY <1>q, <2>1, <2>2
  <1>6. CASE \/ \E d \in Channels : EditChannel(d) \/ ResetChannel(d) \/ ReadHealth(d)
             \/ \E C \in SUBSET Channels : EditCredential(C)
             \/ UNCHANGED vars
    <2>1. UNCHANGED <<now, sends, rpmPending, held, attemptAt, pc>>
      BY <1>6 DEF EditChannel, ResetChannel, ReadHealth, EditCredential, vars, memory, request
    <2>2. rpmCalls'[c] \in {rpmCalls[c], Recent(rpmCalls[c])}
      BY <1>6 DEF EditChannel, ResetChannel, ReadHealth, EditCredential, vars, memory, Conserved, TypeOK
    <2>3. QED
      BY <1>q, <2>1, <2>2
  <1>7. CASE Tick
    BY <1>7, TickMetered
  <1>8. QED
    BY <1>1, <1>2, <1>3, <1>4, <1>5, <1>6, <1>7 DEF Next, Proceed, Recheck

LEMMA AlwaysMetered == Spec => []AllMetered
  <1>1. Init => AllMetered
    <2> SUFFICES ASSUME Init, NEW c \in Channels PROVE Metered(c)
      BY DEF AllMetered
    <2>1. /\ rpmCalls[c] = <<>> /\ rpmPending[c] = 0 /\ sends[c] = [t \in Times |-> 0]
          /\ \A q \in Requests : pc[q] = "idle"
      BY DEF Init
    <2>2. \A T : At(rpmCalls[c], T) = {} /\ Wire(c, T) = {}
      BY <2>1 DEF At, Wire
    <2>3. \A T : Started(c, T) = 0 /\ Cardinality(At(rpmCalls[c], T)) = 0
      BY <2>2, FS_EmptySet DEF Started
    <2>4. LastMinute(c) = 0
      <3>1. MaxTime \in Nat
        BY LimitsAssumption
      <3>2. IsFiniteSet(Times)
        BY <3>1, FS_Interval DEF Times
      <3>3. QED
        BY <2>1, <3>2, SumZero DEF LastMinute
    <2>5. Sorted(rpmCalls[c])
      BY <2>1 DEF Sorted
    <2>6. RPM[c] \in Nat
      BY LimitsAssumption
    <2>7. QED
      BY <2>1, <2>3, <2>4, <2>5, <2>6 DEF Metered
  <1>2. QED
    BY <1>1, StepMetered, AlwaysConserved, PTL DEF Spec

(***************************************************************************)
(* What rpmUsed counts is exact: calls that ended in the last minute and   *)
(* those under way are the calls put on the wire, whatever their order.    *)
(***************************************************************************)
THEOREM RouterAllowance == Spec => []AllowanceExact
  <1>1. Conserved /\ AllMetered => AllowanceExact
    <2> SUFFICES ASSUME Conserved, AllMetered, NEW c \in Channels
                 PROVE  Len(Recent(rpmCalls[c])) = LastMinute(c) - Cardinality(InWindow(c))
      BY DEF AllowanceExact
    <2>1. Metered(c) /\ rpmCalls[c] \in Seq(Times) /\ now \in Nat
      BY ClockFacts, CallsType DEF AllMetered, Conserved
    <2>2. Len(Recent(rpmCalls[c])) = Cardinality(At(rpmCalls[c], Young))
      BY <2>1, RecentCounts DEF Metered
    <2>3. InWindow(c) = Wire(c, Young)
      BY DEF InWindow, Holders, Wire, Young, Conserved, TypeOK
    <2>4. Cardinality(Wire(c, Young)) \in Nat /\ Cardinality(At(rpmCalls[c], Young)) \in Nat
      BY WireFinite, CallsType DEF Conserved
    <2>5. QED
      BY <2>1, <2>2, <2>3, <2>4 DEF Metered, Started
  <1>2. QED
    BY <1>1, AlwaysConserved, AlwaysMetered, PTL

(***************************************************************************)
(* No rolling minute holds more calls than the RPM of the channel.         *)
(***************************************************************************)
THEOREM RouterWindow == Spec => []WindowWithinRPM
  <1>1. Conserved /\ AllMetered => WindowWithinRPM
    <2> SUFFICES ASSUME Conserved, AllMetered, NEW c \in Channels, RPM[c] # 0
                 PROVE  LastMinute(c) <= RPM[c]
      BY DEF WindowWithinRPM
    <2>1. Metered(c)
      BY DEF AllMetered
    <2>2. Wire(c, Young) \in SUBSET Holders(c)
      BY DEF Wire, Holders
    <2>3. Cardinality(Wire(c, Young)) <= rpmPending[c]
      <3>1. IsFiniteSet(Holders(c)) /\ rpmPending[c] = Cardinality(Holders(c))
        BY HoldersFinite DEF Conserved, ReservationsConserved
      <3>2. QED
        BY <2>2, <3>1, FS_Subset
    <2>4. /\ Cardinality(Wire(c, Young)) \in Nat /\ Cardinality(At(rpmCalls[c], Young)) \in Nat
          /\ RPM[c] \in Nat /\ rpmPending[c] \in Nat
      BY WireFinite, CallsType, LimitsAssumption DEF Conserved, TypeOK
    <2>5. QED
      BY <2>1, <2>3, <2>4 DEF Metered, Started
  <1>2. QED
    BY <1>1, AlwaysConserved, AlwaysMetered, PTL
=============================================================================
