-------------------------- MODULE KeyedGateProofs ---------------------------
(***************************************************************************)
(* Proofs about KeyedGate for any number of keys, callers and entries.     *)
(*                                                                         *)
(* Mutual exclusion is not inductive.  What carries it is that everybody   *)
(* inside the gate for a key uses the entry the map has for that key       *)
(* (SharedEntry), which in turn needs the count to be exact: only then is  *)
(* the caller that sees it reach zero the last one to use the entry.       *)
(***************************************************************************)
EXTENDS KeyedGate, FiniteSetTheorems, TLAPS

(***************************************************************************)
(* A caller has a key and a pointer while it is inside the gate, and the   *)
(* pointer is the map's entry for the key.                                 *)
(***************************************************************************)
SharedEntry ==
    \A p \in Callers :
        IF pc[p] = "idle" THEN key[p] = NoKey /\ ptr[p] = NoEntry
        ELSE key[p] \in Keys /\ ptr[p] \in Entries /\ entries[key[p]] = ptr[p]

(***************************************************************************)
(* Two keys never share an entry.                                          *)
(***************************************************************************)
DistinctEntries ==
    \A k, j \in Keys : entries[k] = entries[j] /\ entries[k] # NoEntry => k = j

(***************************************************************************)
(* The count of an entry in the map is the number of its users, never 0.   *)
(***************************************************************************)
ExactCount ==
    \A k \in Keys : entries[k] # NoEntry =>
        /\ refs[entries[k]] = Cardinality(Users(entries[k]))
        /\ Users(entries[k]) # {}

(***************************************************************************)
(* A slot is taken while there is a holder, and by one holder.             *)
(***************************************************************************)
OneHolder ==
    /\ \A p \in Callers : pc[p] = "holding" => semaphore[ptr[p]]
    /\ \A p, q \in Callers :
          pc[p] = "holding" /\ pc[q] = "holding" /\ ptr[p] = ptr[q] => p = q

IInv == TypeOK /\ SharedEntry /\ DistinctEntries /\ ExactCount /\ OneHolder

-----------------------------------------------------------------------------
(***************************************************************************)
(* The users of an entry are finitely many.                                *)
(***************************************************************************)
LEMMA UsersFinite == \A e : IsFiniteSet(Users(e)) /\ Cardinality(Users(e)) \in Nat
  <1>1. \A e : Users(e) \in SUBSET Callers
    BY DEF Users
  <1>2. \A e : IsFiniteSet(Users(e))
    BY <1>1, CallersAssumption, FS_Subset
  <1>3. QED
    BY <1>2, FS_CardinalityType

LEMMA InitInv == Init => IInv
  BY NilAssumption DEF Init, IInv, TypeOK, SharedEntry, DistinctEntries, ExactCount, OneHolder

(***************************************************************************)
(* Entering: the caller joins the users of the key's entry, or becomes the *)
(* only user of a new one.                                                 *)
(***************************************************************************)
LEMMA EnterInv == ASSUME IInv, NEW p \in Callers, NEW k \in Keys, Enter(p, k)
                  PROVE  IInv'
  <1> USE NilAssumption
  <1>1. PICK e \in Entries :
          /\ IF entries[k] = NoEntry THEN Fresh(e) ELSE e = entries[k]
          /\ entries' = [entries EXCEPT ![k] = e]
          /\ refs' = [refs EXCEPT ![e] = IF entries[k] = NoEntry THEN 1 ELSE @ + 1]
          /\ semaphore' = [semaphore EXCEPT ![e] = IF entries[k] = NoEntry THEN FALSE ELSE @]
          /\ ptr' = [ptr EXCEPT ![p] = e]
    BY DEF Enter
  <1>2. /\ pc[p] = "idle" /\ pc' = [pc EXCEPT ![p] = "waiting"]
        /\ key' = [key EXCEPT ![p] = k]
        /\ ptr[p] = NoEntry
    BY DEF Enter, IInv, SharedEntry
  <1>3. TypeOK'
    <2>1. entries' \in [Keys -> Entries \cup {NoEntry}] /\ refs' \in [Entries -> Nat]
      BY <1>1 DEF IInv, TypeOK
    <2>2. semaphore' \in [Entries -> BOOLEAN]
      BY <1>1 DEF IInv, TypeOK
    <2>3. /\ pc' \in [Callers -> {"idle", "waiting", "holding", "dropping"}]
          /\ key' \in [Callers -> Keys \cup {NoKey}]
          /\ ptr' \in [Callers -> Entries \cup {NoEntry}]
      BY <1>1, <1>2 DEF IInv, TypeOK
    <2>4. QED
      BY <2>1, <2>2, <2>3 DEF TypeOK
  <1>4. \A j \in Keys : j # k => entries[j] # e \/ entries[j] = NoEntry
    BY <1>1 DEF IInv, DistinctEntries, Fresh
  <1>5. SharedEntry'
    <2>1. \A q \in Callers : q # p /\ pc[q] # "idle" => entries'[key[q]] = ptr[q]
      <3> SUFFICES ASSUME NEW q \in Callers, q # p, pc[q] # "idle"
                   PROVE  entries'[key[q]] = ptr[q]
        OBVIOUS
      <3>1. key[q] \in Keys /\ entries[key[q]] = ptr[q] /\ ptr[q] \in Entries
        BY DEF IInv, SharedEntry
      <3>2. key[q] = k => entries[k] = e
        BY <1>1, <3>1
      <3>3. QED
        BY <1>1, <3>1, <3>2 DEF IInv, TypeOK
    <2>2. QED
      BY <1>1, <1>2, <2>1 DEF IInv, TypeOK, SharedEntry
  <1>6. DistinctEntries'
    BY <1>1, <1>4 DEF IInv, TypeOK, DistinctEntries
  <1>7. \A f \in Entries : Users(f)' = IF f = e THEN Users(e) \cup {p} ELSE Users(f)
    BY <1>1, <1>2 DEF Users, IInv, TypeOK
  <1>8. p \notin Users(e)
    BY <1>2 DEF Users
  <1>9. Cardinality(Users(e) \cup {p}) = Cardinality(Users(e)) + 1
    BY <1>8, UsersFinite, FS_AddElement
  <1>10. refs'[e] = Cardinality(Users(e) \cup {p})
    <2>1. CASE entries[k] = NoEntry
      <3>1. Users(e) = {}
        BY <1>1, <2>1 DEF Fresh
      <3>2. Cardinality(Users(e)) = 0
        BY <3>1, FS_EmptySet
      <3>3. QED
        BY <1>1, <1>9, <2>1, <3>2 DEF IInv, TypeOK
    <2>2. CASE entries[k] # NoEntry
      BY <1>1, <1>9, <2>2 DEF IInv, TypeOK, ExactCount
    <2>3. QED
      BY <2>1, <2>2
  <1>11. ExactCount'
    <2> SUFFICES ASSUME NEW j \in Keys, entries'[j] # NoEntry
                 PROVE  /\ refs'[entries'[j]] = Cardinality(Users(entries[j])')
                        /\ Users(entries[j])' # {}
      BY <1>3 DEF ExactCount, Users
    <2>1. CASE j = k
      <3>1. entries'[j] = e
        BY <1>1, <2>1 DEF IInv, TypeOK
      <3>2. Users(entries[j])' = Users(e) \cup {p}
        BY <1>7, <3>1
      <3>3. QED
        BY <1>10, <3>1, <3>2
    <2>2. CASE j # k
      <3>1. entries'[j] = entries[j] /\ entries[j] # e /\ entries[j] \in Entries
        BY <1>1, <1>4, <2>2 DEF IInv, TypeOK
      <3>2. Users(entries[j])' = Users(entries[j])
        BY <1>7, <3>1
      <3>3. refs'[entries'[j]] = refs[entries[j]]
        BY <1>1, <3>1 DEF IInv, TypeOK
      <3>4. QED
        BY <3>1, <3>2, <3>3 DEF IInv, ExactCount
    <2>3. QED
      BY <2>1, <2>2
  <1>12. OneHolder'
    <2>1. \A q \in Callers : pc'[q] = "holding" => q # p /\ pc[q] = "holding" /\ ptr'[q] = ptr[q]
      BY <1>1, <1>2 DEF IInv, TypeOK
    <2>2. \A q \in Callers : pc[q] = "holding" => semaphore[ptr[q]] /\ ptr[q] \in Entries
      BY DEF IInv, OneHolder, SharedEntry
    <2>3. \A q \in Callers : pc[q] = "holding" /\ ptr[q] = e => entries[k] # NoEntry
      BY <1>1 DEF Fresh, Users
    <2>4. \A q \in Callers : pc'[q] = "holding" => semaphore'[ptr'[q]]
      BY <1>1, <2>1, <2>2, <2>3 DEF IInv, TypeOK
    <2>5. QED
      BY <2>1, <2>4 DEF IInv, OneHolder
  <1>13. QED
    BY <1>3, <1>5, <1>6, <1>11, <1>12 DEF IInv

(***************************************************************************)
(* Taking the slot, giving up and draining the slot leave the map and the  *)
(* counts alone; only the holders change.                                  *)
(***************************************************************************)
LEMMA SlotInv == ASSUME IInv, NEW p \in Callers,
                        TakeSlot(p) \/ ContextDone(p) \/ DrainSlot(p)
                 PROVE  IInv'
  <1>1. /\ pc[p] # "idle"
        /\ pc'[p] \in {"holding", "dropping"}
        /\ \A q \in Callers : q # p => pc'[q] = pc[q]
        /\ UNCHANGED <<entries, refs, key, ptr>>
    BY DEF IInv, TypeOK, TakeSlot, ContextDone, DrainSlot
  <1>2. pc' \in [Callers -> {"idle", "waiting", "holding", "dropping"}]
    BY DEF IInv, TypeOK, TakeSlot, ContextDone, DrainSlot
  <1>3. semaphore' \in [Entries -> BOOLEAN]
    BY DEF IInv, TypeOK, TakeSlot, ContextDone, DrainSlot
  <1>4. TypeOK'
    BY <1>1, <1>2, <1>3 DEF IInv, TypeOK
  <1>5. SharedEntry' /\ DistinctEntries'
    BY <1>1 DEF IInv, SharedEntry, DistinctEntries
  <1>6. ExactCount'
    BY <1>1 DEF IInv, ExactCount, Users
  <1>7. ptr[p] \in Entries
    BY <1>1 DEF IInv, SharedEntry
  <1>8. OneHolder'
    <2>1. CASE TakeSlot(p)
      <3>1. \A q \in Callers : pc[q] = "holding" => ptr[q] # ptr[p]
        BY <2>1 DEF TakeSlot, IInv, OneHolder
      <3>2. semaphore'[ptr[p]] /\ \A f \in Entries : semaphore[f] => semaphore'[f]
        BY <1>7, <2>1 DEF TakeSlot, IInv, TypeOK
      <3>3. \A q \in Callers : pc[q] = "holding" => ptr[q] \in Entries
        BY DEF IInv, SharedEntry
      <3>4. QED
        BY <1>1, <3>1, <3>2, <3>3 DEF IInv, OneHolder
    <2>2. CASE ContextDone(p)
      BY <1>1, <2>2 DEF ContextDone, IInv, TypeOK, OneHolder
    <2>3. CASE DrainSlot(p)
      <3>1. \A q \in Callers : q # p /\ pc[q] = "holding" => ptr[q] # ptr[p] /\ ptr[q] \in Entries
        BY <2>3 DEF DrainSlot, IInv, OneHolder, SharedEntry
      <3>2. \A f \in Entries : f # ptr[p] /\ semaphore[f] => semaphore'[f]
        BY <2>3 DEF DrainSlot, IInv, TypeOK
      <3>3. pc'[p] = "dropping"
        BY <2>3 DEF DrainSlot, IInv, TypeOK
      <3>4. QED
        BY <1>1, <3>1, <3>2, <3>3 DEF IInv, OneHolder
    <2>4. QED
      BY <2>1, <2>2, <2>3
  <1>9. QED
    BY <1>4, <1>5, <1>6, <1>8 DEF IInv

(***************************************************************************)
(* Dropping: a count of one means that the caller is the only user, so the *)
(* entry the map forgets is one nobody else has a pointer to.              *)
(***************************************************************************)
LEMMA DropInv == ASSUME IInv, NEW p \in Callers, Drop(p)
                 PROVE  IInv'
  <1> USE NilAssumption
  <1> DEFINE e == ptr[p]
             k == key[p]
  <1>1. k \in Keys /\ e \in Entries /\ entries[k] = e /\ pc[p] = "dropping"
    BY DEF Drop, IInv, SharedEntry
  <1>2. refs[e] = Cardinality(Users(e)) /\ p \in Users(e)
    BY <1>1 DEF IInv, ExactCount, Users
  <1>3. Cardinality(Users(e) \ {p}) = refs[e] - 1 /\ refs[e] - 1 \in Nat
    <2>1. IsFiniteSet(Users(e))
      BY UsersFinite
    <2>2. /\ IsFiniteSet(Users(e) \ {p})
          /\ Cardinality(Users(e) \ {p}) = Cardinality(Users(e)) - 1
      BY <1>2, <2>1, FS_RemoveElement
    <2>3. Cardinality(Users(e) \ {p}) \in Nat
      BY <2>2, FS_CardinalityType
    <2>4. QED
      BY <1>2, <2>2, <2>3
  <1>4. refs[e] = 1 <=> Users(e) \ {p} = {}
    <2>1. IsFiniteSet(Users(e) \ {p})
      BY UsersFinite, FS_RemoveElement
    <2>2. Cardinality(Users(e) \ {p}) = 0 <=> Users(e) \ {p} = {}
      BY <2>1, FS_EmptySet
    <2>3. refs[e] \in Nat
      BY <1>1 DEF IInv, TypeOK
    <2>4. QED
      BY <1>3, <2>2, <2>3
  <1>5. \A f \in Entries : Users(f)' = IF f = e THEN Users(e) \ {p} ELSE Users(f)
    BY DEF Drop, Users, IInv, TypeOK
  <1>6. /\ pc' = [pc EXCEPT ![p] = "idle"]
        /\ key' = [key EXCEPT ![p] = NoKey]
        /\ ptr' = [ptr EXCEPT ![p] = NoEntry]
        /\ refs' = [refs EXCEPT ![e] = refs[e] - 1]
        /\ semaphore' = semaphore
    BY DEF Drop
  <1>7. /\ refs[e] = 1 => entries' = [entries EXCEPT ![k] = NoEntry]
        /\ refs[e] # 1 => entries' = entries
    BY DEF Drop
  <1>8. TypeOK'
    BY <1>3, <1>6, <1>7 DEF IInv, TypeOK
  <1>9. \A q \in Callers : q # p /\ pc[q] # "idle" /\ refs[e] = 1 => key[q] # k
    BY <1>1, <1>4 DEF Users, IInv, SharedEntry
  <1>10. SharedEntry'
    <2>1. \A q \in Callers : q # p /\ pc[q] # "idle" => entries'[key[q]] = entries[key[q]]
      BY <1>7, <1>9 DEF IInv, TypeOK, SharedEntry
    <2>2. QED
      BY <1>6, <2>1 DEF IInv, TypeOK, SharedEntry
  <1>11. \A j \in Keys : entries'[j] # NoEntry => entries'[j] = entries[j]
    BY <1>7 DEF IInv, TypeOK
  <1>12. DistinctEntries'
    BY <1>11 DEF IInv, DistinctEntries
  <1>13. ExactCount'
    <2> SUFFICES ASSUME NEW j \in Keys, entries'[j] # NoEntry, NEW f, f = entries'[j]
                 PROVE  refs'[f] = Cardinality(Users(f)') /\ Users(f)' # {}
      BY DEF ExactCount, Users
    <2>1. f = entries[j] /\ f \in Entries
      BY <1>11 DEF IInv, TypeOK
    <2>2. CASE f = e
      <3>1. j = k
        BY <1>1, <2>1, <2>2 DEF IInv, DistinctEntries
      <3>2. refs[e] # 1
        BY <1>1, <1>7, <3>1 DEF IInv, TypeOK
      <3>3. QED
        BY <1>3, <1>4, <1>5, <1>6, <2>1, <2>2, <3>2 DEF IInv, TypeOK
    <2>3. CASE f # e
      <3>1. Users(f)' = Users(f) /\ refs'[f] = refs[f]
        BY <1>5, <1>6, <2>1, <2>3 DEF IInv, TypeOK
      <3>2. QED
        BY <2>1, <3>1 DEF IInv, ExactCount
    <2>4. QED
      BY <2>2, <2>3
  <1>14. OneHolder'
    BY <1>1, <1>6 DEF IInv, TypeOK, OneHolder
  <1>15. QED
    BY <1>8, <1>10, <1>12, <1>13, <1>14 DEF IInv

LEMMA StepInv == IInv /\ [Next]_vars => IInv'
  <1> SUFFICES ASSUME IInv, [Next]_vars PROVE IInv'
    OBVIOUS
  <1>1. CASE Next
    BY <1>1, EnterInv, SlotInv, DropInv DEF Next, Step
  <1>2. CASE UNCHANGED vars
    BY <1>2 DEF vars, IInv, TypeOK, SharedEntry, DistinctEntries, ExactCount, OneHolder, Users
  <1>3. QED
    BY <1>1, <1>2

LEMMA InductiveInvariant == SafeSpec => []IInv
  BY InitInv, StepInv, PTL DEF SafeSpec

-----------------------------------------------------------------------------
(***************************************************************************)
(* The gate's state is well typed, whatever the interleaving of callers.   *)
(***************************************************************************)
THEOREM TypeCorrect == SafeSpec => []TypeOK
  <1>1. IInv => TypeOK
    BY DEF IInv
  <1>2. QED
    BY <1>1, InductiveInvariant, PTL

(***************************************************************************)
(* No two requests are past the gate of one key, for any number of keys    *)
(* and requests, however entries are forgotten and created again.          *)
(***************************************************************************)
THEOREM GateMutualExclusion == SafeSpec => []MutualExclusion
  <1>1. IInv => MutualExclusion
    BY DEF IInv, SharedEntry, OneHolder, MutualExclusion
  <1>2. QED
    BY <1>1, InductiveInvariant, PTL

(***************************************************************************)
(* The map holds an entry exactly while the key has users, and its count   *)
(* is their number.                                                        *)
(***************************************************************************)
THEOREM GateEntryLifetime == SafeSpec => []EntryLifetime
  <1>1. IInv => EntryLifetime
    <2> SUFFICES ASSUME IInv, NEW k \in Keys, entries[k] # NoEntry
                 PROVE  \E p \in Callers : pc[p] # "idle" /\ key[p] = k
      BY DEF IInv, SharedEntry, ExactCount, EntryLifetime
    <2>1. PICK p \in Callers : ptr[p] = entries[k]
      BY DEF IInv, ExactCount, Users
    <2>2. pc[p] # "idle" /\ key[p] \in Keys /\ entries[key[p]] = entries[k]
      BY <2>1 DEF IInv, SharedEntry
    <2>3. QED
      BY <2>2 DEF IInv, DistinctEntries
  <1>2. QED
    BY <1>1, InductiveInvariant, PTL

-----------------------------------------------------------------------------
(***************************************************************************)
(* The owner of a key changes only with its holders.                       *)
(***************************************************************************)
OneOf(S) == IF S = {} THEN NoOwner ELSE CHOOSE p \in S : TRUE

LEMMA OwnerForm ==
    /\ Owner = [k \in Keys |-> OneOf(Holders(k))]
    /\ Owner' = [k \in Keys |-> OneOf(Holders(k)')]
  BY DEF Owner, OneOf

LEMMA OwnerValues ==
    /\ Owner = [k \in Keys |-> Owner[k]] /\ Owner' = [k \in Keys |-> Owner'[k]]
    /\ \A k \in Keys : Owner[k] = OneOf(Holders(k)) /\ Owner'[k] = OneOf(Holders(k)')
  BY OwnerForm

LEMMA OneOfSet == /\ OneOf({}) = NoOwner
                  /\ \A S : S # {} => OneOf(S) \in S
                  /\ \A p : OneOf({p}) = p
  BY DEF OneOf

LEMMA OwnerOf ==
    \A k \in Keys : /\ Holders(k) = {} => Owner[k] = NoOwner
                    /\ Holders(k) # {} => Owner[k] \in Holders(k)
  BY OwnerForm, OneOfSet

LEMMA OwnerKept ==
    ASSUME \A q \in Callers : \/ pc[q] # "holding" /\ pc'[q] # "holding"
                              \/ pc'[q] = pc[q] /\ key'[q] = key[q]
    PROVE  Owner' = Owner
  <1>1. \A k : Holders(k)' = Holders(k)
    BY DEF Holders
  <1>2. QED
    BY <1>1, OwnerForm

(***************************************************************************)
(* Taking the slot grants the lock: a holder of the key would use the same *)
(* entry, and its slot would be taken.                                     *)
(***************************************************************************)
LEMMA TakeSlotGrants ==
    ASSUME IInv, NEW p \in Callers, TakeSlot(p)
    PROVE  \E k \in Keys : Lock!Grant(p, k)
  <1>1. pc[p] = "waiting" /\ ~semaphore[ptr[p]] /\ pc' = [pc EXCEPT ![p] = "holding"] /\ key' = key
    BY DEF TakeSlot
  <1>2. PICK k \in Keys : k = key[p] /\ entries[k] = ptr[p]
    BY <1>1 DEF IInv, SharedEntry
  <1>3. Holders(k) = {}
    <2> SUFFICES ASSUME NEW q \in Callers, pc[q] = "holding", key[q] = k PROVE FALSE
      BY DEF Holders
    <2>1. semaphore[ptr[q]] /\ entries[k] = ptr[q]
      BY DEF IInv, SharedEntry, OneHolder
    <2>2. QED
      BY <1>1, <1>2, <2>1
  <1>4. Holders(k)' = {p} /\ \A j \in Keys \ {k} : Holders(j)' = Holders(j)
    <2>1. pc'[p] = "holding" /\ \A q \in Callers \ {p} : pc'[q] = pc[q]
      BY <1>1 DEF IInv, TypeOK
    <2>2. QED
      BY <1>1, <1>2, <1>3, <2>1 DEF Holders
  <1>5. Owner[k] = NoOwner
    BY <1>2, <1>3, OwnerOf
  <1>6. \A j \in Keys : Owner[j] # p
    <2> SUFFICES ASSUME NEW j \in Keys, Owner[j] = p PROVE FALSE
      OBVIOUS
    <2>1. p \notin Holders(j) /\ p # NoOwner
      BY <1>1, NilAssumption DEF Holders
    <2>2. QED
      BY <2>1, OwnerOf
  <1>7. Owner' = [Owner EXCEPT ![k] = p]
    <2>1. \A j \in Keys : OneOf(Holders(j)') = IF j = k THEN p ELSE OneOf(Holders(j))
      BY <1>4, OneOfSet
    <2>2. QED
      BY <1>2, <2>1, OwnerValues
  <1>8. QED
    BY <1>2, <1>5, <1>6, <1>7 DEF Lock!Grant

(***************************************************************************)
(* Draining the slot gives the lock back: the caller was its only holder.  *)
(***************************************************************************)
LEMMA DrainSlotGivesBack ==
    ASSUME IInv, NEW p \in Callers, DrainSlot(p)
    PROVE  \E k \in Keys : Lock!GiveBack(p, k)
  <1>1. pc[p] = "holding" /\ pc' = [pc EXCEPT ![p] = "dropping"] /\ key' = key
    BY DEF DrainSlot
  <1>2. PICK k \in Keys : k = key[p] /\ entries[k] = ptr[p]
    BY <1>1 DEF IInv, SharedEntry
  <1>3. Holders(k) = {p}
    BY <1>1, <1>2 DEF IInv, SharedEntry, OneHolder, Holders
  <1>4. Holders(k)' = {} /\ \A j \in Keys \ {k} : Holders(j)' = Holders(j)
    <2>1. pc'[p] = "dropping" /\ \A q \in Callers \ {p} : pc'[q] = pc[q]
      BY <1>1 DEF IInv, TypeOK
    <2>2. \A j \in Keys \ {k} : Holders(j)' = Holders(j)
      BY <1>1, <1>2, <2>1 DEF Holders
    <2>3. ASSUME NEW q \in Callers PROVE ~ (pc'[q] = "holding" /\ key'[q] = k)
      <3>1. CASE q = p
        BY <2>1, <3>1
      <3>2. CASE q # p
        <4>1. q \notin Holders(k) /\ pc'[q] = pc[q]
          BY <1>3, <2>1, <3>2
        <4>2. QED
          BY <1>1, <4>1 DEF Holders
      <3>3. QED
        BY <3>1, <3>2
    <2>4. Holders(k)' = {}
      BY <2>3 DEF Holders
    <2>5. QED
      BY <2>2, <2>4
  <1>5. Owner[k] = p
    BY <1>2, <1>3, OwnerOf
  <1>6. Owner' = [Owner EXCEPT ![k] = NoOwner]
    <2>1. \A j \in Keys : OneOf(Holders(j)') = IF j = k THEN NoOwner ELSE OneOf(Holders(j))
      BY <1>4, OneOfSet
    <2>2. QED
      BY <1>2, <2>1, OwnerValues
  <1>7. QED
    BY <1>1, <1>2, <1>5, <1>6 DEF Lock!GiveBack

(***************************************************************************)
(* Every step of the gate is a step of one lock per key, or none: the      *)
(* safety half of ImplementsLock.                                          *)
(***************************************************************************)
THEOREM GateLockSteps == SafeSpec => Lock!Init /\ [][Lock!Next]_Owner
  <1>1. Init => Lock!Init
    BY DEF Init, Lock!Init, Owner, Holders
  <1>2. IInv /\ [Next]_vars => [Lock!Next]_Owner
    <2> SUFFICES ASSUME IInv, [Next]_vars PROVE Lock!Next \/ Owner' = Owner
      OBVIOUS
    <2>1. ASSUME NEW p \in Callers, NEW k \in Keys, Enter(p, k) PROVE Owner' = Owner
      BY <2>1, OwnerKept DEF Enter, IInv, TypeOK
    <2>2. ASSUME NEW p \in Callers, ContextDone(p) \/ Drop(p) PROVE Owner' = Owner
      BY <2>2, OwnerKept DEF ContextDone, Drop, IInv, TypeOK
    <2>3. ASSUME NEW p \in Callers, TakeSlot(p) \/ DrainSlot(p) PROVE Lock!Next
      BY <2>3, TakeSlotGrants, DrainSlotGivesBack DEF Lock!Next
    <2>4. CASE UNCHANGED vars
      BY <2>4, OwnerKept DEF vars
    <2>5. QED
      BY <2>1, <2>2, <2>3, <2>4 DEF Next, Step
  <1>3. QED
    BY <1>1, <1>2, InductiveInvariant, PTL DEF SafeSpec
=============================================================================
