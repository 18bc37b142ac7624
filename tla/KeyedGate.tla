----------------------------- MODULE KeyedGate ------------------------------
(***************************************************************************)
(* keyed_gate.go: the single-flight gate in front of the result cache.     *)
(* A caller asks for a key, waits on the semaphore of that key's entry and *)
(* leaves either through the function `acquire` returned or through its    *)
(* context.  Entries are heap objects shared by pointer: the map may       *)
(* forget an entry, and create another for the same key, while a caller    *)
(* still holds the old pointer.  That is why entries have an identity of   *)
(* their own here and why drop is a step apart from draining the           *)
(* semaphore.                                                              *)
(***************************************************************************)
EXTENDS Naturals, FiniteSets

CONSTANTS Keys,      \* cache lock keys
          Callers,   \* goroutines calling acquire
          Entries,   \* gateEntry objects the heap can hold
          NoEntry,   \* the nil pointer
          NoKey,     \* a caller that is not inside acquire has no key
          NoOwner    \* KeyMutex's "nobody"

ASSUME CallersAssumption == IsFiniteSet(Callers)
ASSUME NilAssumption ==
    NoEntry \notin Entries /\ NoKey \notin Keys /\ NoOwner \notin Callers

VARIABLES entries,    \* the map: entries[k] is the entry for k, or NoEntry
          refs,       \* refs[e]: the entry's reference count
          semaphore,  \* semaphore[e]: TRUE when the one slot is taken
          pc,         \* where each caller is
          key,        \* the key each caller asked for
          ptr         \* the *gateEntry each caller has captured

vars == <<entries, refs, semaphore, pc, key, ptr>>

Init ==
    /\ entries = [k \in Keys |-> NoEntry]
    /\ refs = [e \in Entries |-> 0]
    /\ semaphore = [e \in Entries |-> FALSE]
    /\ pc = [p \in Callers |-> "idle"]
    /\ key = [p \in Callers |-> NoKey]
    /\ ptr = [p \in Callers |-> NoEntry]

(***************************************************************************)
(* The callers that still have a pointer to e.  A new entry is an object   *)
(* nobody can reach any more.                                              *)
(***************************************************************************)
Users(e) == {p \in Callers : ptr[p] = e}

Fresh(e) == Users(e) = {} /\ \A k \in Keys : entries[k] # e

(***************************************************************************)
(* The first half of acquire, under g.mu: find the entry or create it, and *)
(* count the caller in before the mutex is let go.                         *)
(***************************************************************************)
Enter(p, k) ==
    /\ pc[p] = "idle"
    /\ \E e \in Entries :
          /\ IF entries[k] = NoEntry THEN Fresh(e) ELSE e = entries[k]
          /\ entries' = [entries EXCEPT ![k] = e]
          /\ refs' = [refs EXCEPT ![e] = IF entries[k] = NoEntry THEN 1 ELSE @ + 1]
          /\ semaphore' = [semaphore EXCEPT ![e] = IF entries[k] = NoEntry THEN FALSE ELSE @]
          /\ ptr' = [ptr EXCEPT ![p] = e]
    /\ key' = [key EXCEPT ![p] = k]
    /\ pc' = [pc EXCEPT ![p] = "waiting"]

\* A variant that must fail: a channel that holds more than one token.
TakeSlotUnbounded(p) ==
    /\ pc[p] = "waiting"
    /\ semaphore' = [semaphore EXCEPT ![ptr[p]] = TRUE]
    /\ pc' = [pc EXCEPT ![p] = "holding"]
    /\ UNCHANGED <<entries, refs, key, ptr>>

(***************************************************************************)
(* The select: the caller gets the slot, or its context ends first.  When  *)
(* both are ready Go picks either.                                         *)
(***************************************************************************)
TakeSlot(p) ==
    /\ pc[p] = "waiting"
    /\ ~semaphore[ptr[p]]
    /\ semaphore' = [semaphore EXCEPT ![ptr[p]] = TRUE]
    /\ pc' = [pc EXCEPT ![p] = "holding"]
    /\ UNCHANGED <<entries, refs, key, ptr>>

ContextDone(p) ==
    /\ pc[p] = "waiting"
    /\ pc' = [pc EXCEPT ![p] = "dropping"]
    /\ UNCHANGED <<entries, refs, semaphore, key, ptr>>

\* A variant that must fail: the release forgets the semaphore.
DrainSlotKeepsToken(p) ==
    /\ pc[p] = "holding"
    /\ pc' = [pc EXCEPT ![p] = "dropping"]
    /\ UNCHANGED <<entries, refs, semaphore, key, ptr>>

(***************************************************************************)
(* The returned function: drain the slot, and only then drop.  sync.Once   *)
(* makes a second call a no-op, so a caller passes here once per Enter.    *)
(***************************************************************************)
DrainSlot(p) ==
    /\ pc[p] = "holding"
    /\ semaphore' = [semaphore EXCEPT ![ptr[p]] = FALSE]
    /\ pc' = [pc EXCEPT ![p] = "dropping"]
    /\ UNCHANGED <<entries, refs, key, ptr>>

\* Variants that must fail: the entry is always removed, or never.
DropAlwaysRemoves(p) ==
    /\ pc[p] = "dropping"
    /\ refs' = [refs EXCEPT ![ptr[p]] = @ - 1]
    /\ entries' = [entries EXCEPT ![key[p]] = NoEntry]
    /\ pc' = [pc EXCEPT ![p] = "idle"]
    /\ key' = [key EXCEPT ![p] = NoKey]
    /\ ptr' = [ptr EXCEPT ![p] = NoEntry]
    /\ UNCHANGED semaphore

DropNeverRemoves(p) ==
    /\ pc[p] = "dropping"
    /\ refs' = [refs EXCEPT ![ptr[p]] = @ - 1]
    /\ pc' = [pc EXCEPT ![p] = "idle"]
    /\ key' = [key EXCEPT ![p] = NoKey]
    /\ ptr' = [ptr EXCEPT ![p] = NoEntry]
    /\ UNCHANGED <<entries, semaphore>>

(***************************************************************************)
(* drop, under g.mu: the last one out removes whatever the map has under   *)
(* the key.                                                                *)
(***************************************************************************)
Drop(p) ==
    /\ pc[p] = "dropping"
    /\ refs' = [refs EXCEPT ![ptr[p]] = @ - 1]
    /\ entries' = IF refs[ptr[p]] = 1 THEN [entries EXCEPT ![key[p]] = NoEntry] ELSE entries
    /\ pc' = [pc EXCEPT ![p] = "idle"]
    /\ key' = [key EXCEPT ![p] = NoKey]
    /\ ptr' = [ptr EXCEPT ![p] = NoEntry]
    /\ UNCHANGED semaphore

Step(p) == TakeSlot(p) \/ ContextDone(p) \/ DrainSlot(p) \/ Drop(p)

Next == \E p \in Callers : Step(p) \/ \E k \in Keys : Enter(p, k)

(***************************************************************************)
(* Every holder works under the request's total timeout and releases in a  *)
(* defer, and drop does not block on anything but a mutex held for a few   *)
(* instructions.  Goroutines blocked on a channel send are queued first in *)
(* first out by the runtime, which is what strong fairness of TakeSlot     *)
(* stands for.  Nothing makes a context end or a request arrive.           *)
(***************************************************************************)
Fairness ==
    \A p \in Callers : /\ WF_vars(DrainSlot(p))
                       /\ WF_vars(Drop(p))
                       /\ SF_vars(TakeSlot(p))

SafeSpec == Init /\ [][Next]_vars

Spec == SafeSpec /\ Fairness

-----------------------------------------------------------------------------
TypeOK ==
    /\ entries \in [Keys -> Entries \cup {NoEntry}]
    /\ refs \in [Entries -> Nat]
    /\ semaphore \in [Entries -> BOOLEAN]
    /\ pc \in [Callers -> {"idle", "waiting", "holding", "dropping"}]
    /\ key \in [Callers -> Keys \cup {NoKey}]
    /\ ptr \in [Callers -> Entries \cup {NoEntry}]

(***************************************************************************)
(* Two requests with the same cache key are never both past the gate, even *)
(* when the entry was forgotten and created again between their arrivals   *)
(* (keyed_gate.go 19-47, used by cacheLock in cache_route.go).             *)
(***************************************************************************)
MutualExclusion ==
    \A p, q \in Callers :
        pc[p] = "holding" /\ pc[q] = "holding" /\ key[p] = key[q] => p = q

(***************************************************************************)
(* The reference count is exact and the map holds an entry just as long as *)
(* somebody uses it: nobody keeps a pointer the map has forgotten, and an  *)
(* abandoned key does not stay in memory (drop, keyed_gate.go 31-38).      *)
(***************************************************************************)
EntryLifetime ==
    /\ \A p \in Callers : pc[p] # "idle" => entries[key[p]] = ptr[p]
    /\ \A k \in Keys : entries[k] # NoEntry =>
          /\ refs[entries[k]] = Cardinality(Users(entries[k]))
          /\ \E p \in Callers : pc[p] # "idle" /\ key[p] = k

(***************************************************************************)
(* A caller whose context lives on is not left waiting: it gets its turn   *)
(* or gives up ("Waiting requests retain their own cancellation",          *)
(* keyed_gate.go 17-18).                                                   *)
(***************************************************************************)
WaitersServed == \A p \in Callers : pc[p] = "waiting" ~> pc[p] # "waiting"

(***************************************************************************)
(* The gate implements one lock per key: the owner of k is the caller that *)
(* has taken the slot of k's entry.                                        *)
(***************************************************************************)
Holders(k) == {p \in Callers : pc[p] = "holding" /\ key[p] = k}

Owner == [k \in Keys |-> IF Holders(k) = {} THEN NoOwner ELSE CHOOSE p \in Holders(k) : TRUE]

Lock == INSTANCE KeyMutex WITH owner <- Owner

ImplementsLock == Lock!Spec
=============================================================================
