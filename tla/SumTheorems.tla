---------------------------- MODULE SumTheorems ----------------------------
(***************************************************************************)
(* Facts about SumFunctionOnSet, the sum over a finite set of the values   *)
(* of a function, in which the budgets and the rates of the modules are    *)
(* stated.                                                                 *)
(***************************************************************************)
EXTENDS Integers, FiniteSets, Functions, FiniteSetTheorems, TLAPS

Picked(s) == CHOOSE x \in s : TRUE

Unfold(w, g, s) == IF s = {} THEN 0 ELSE w[Picked(s)] + g[s \ {Picked(s)}]

Solves(w, g, S) == g = [s \in SUBSET S |-> Unfold(w, g, s)]

(* The definition of the sum, in these terms.                              *)
LEMMA SumDefinition ==
  ASSUME NEW w, NEW S
  PROVE  SumFunctionOnSet(w, S) = (CHOOSE g : Solves(w, g, S))[S]
BY DEF SumFunctionOnSet, FoldFunctionOnSet, MapThenFoldSet, Solves, Unfold, Picked

(* A non-empty set of subsets of a finite set has a smallest member: the   *)
(* form in which the proofs below use induction over finite sets.          *)
LEMMA SmallestSubset ==
  ASSUME NEW S, IsFiniteSet(S), NEW T, T \subseteq SUBSET S, T # {}
  PROVE  \E s \in T : \A t \in T : t \subseteq s => t = s
<1>1. IsWellFoundedOn(StrictSubsetOrdering(S), SUBSET S)
  BY FS_StrictSubsetOrderingWellFounded, FS_FiniteSubsetsOfFinite
<1>2. PICK s \in T : \A t \in T : ~ (<<t, s>> \in StrictSubsetOrdering(S))
  BY <1>1, WFMin
<1>3. \A t \in T : t \subseteq s => t = s
  BY <1>2 DEF StrictSubsetOrdering
<1> QED
  BY <1>3

(* Two functions that solve the recursion agree where both are defined.    *)
LEMMA SolutionsAgree ==
  ASSUME NEW w, NEW S, NEW R, IsFiniteSet(S), R \subseteq S, NEW g, NEW h, Solves(w, g, S), Solves(w, h, R)
  PROVE  \A s \in SUBSET R : g[s] = h[s]
<1> DEFINE T == {s \in SUBSET R : g[s] # h[s]}
<1>1. SUFFICES ASSUME T # {} PROVE FALSE
  BY <1>1
<1>2. PICK s \in T : \A t \in T : t \subseteq s => t = s
  <2>1. IsFiniteSet(R)
    BY FS_Subset
  <2> HIDE DEF T
  <2>2. T \subseteq SUBSET R
    BY DEF T
  <2> QED
    BY <1>1, <2>1, <2>2, SmallestSubset
<1>3. g[s] = Unfold(w, g, s) /\ h[s] = Unfold(w, h, s)
  BY DEF Solves
<1>4. s # {}
  BY <1>3 DEF Unfold
<1>5. Picked(s) \in s
  BY <1>4 DEF Picked
<1>6. s \ {Picked(s)} \notin T
  BY <1>5, <1>2
<1>7. g[s \ {Picked(s)}] = h[s \ {Picked(s)}]
  BY <1>6
<1> QED
  BY <1>3, <1>4, <1>7 DEF Unfold

(* The sum takes out one element and adds its value to that of the rest.   *)
LEMMA SumUnfolds ==
  ASSUME NEW w, NEW S, IsFiniteSet(S)
  PROVE  SumFunctionOnSet(w, S) =
         IF S = {} THEN 0 ELSE w[Picked(S)] + SumFunctionOnSet(w, S \ {Picked(S)})
<1> DEFINE Rest(s) == IF s = {} THEN 0 ELSE w[Picked(s)] + SumFunctionOnSet(w, s \ {Picked(s)})
           T == {s \in SUBSET S : SumFunctionOnSet(w, s) # Rest(s)}
<1>1. SUFFICES ASSUME T # {} PROVE FALSE
  BY <1>1
<1>2. PICK R \in T : \A t \in T : t \subseteq R => t = R
  <2> HIDE DEF T
  <2>1. T \subseteq SUBSET S
    BY DEF T
  <2> QED
    BY <1>1, <2>1, SmallestSubset
<1> DEFINE g == [s \in SUBSET R |-> Rest(s)]
<1>3. \A s \in SUBSET R : s # {} => Picked(s) \in s
  BY DEF Picked
<1>4. ASSUME NEW s \in SUBSET R PROVE Rest(s) = Unfold(w, g, s)
  <2>1. CASE s = {}
    BY <2>1 DEF Unfold
  <2>2. CASE s # {}
    <3> DEFINE t == s \ {Picked(s)}
    <3>1. t \in SUBSET R /\ t # R
      BY <1>3, <2>2
    <3>2. SumFunctionOnSet(w, t) = Rest(t)
      BY <3>1, <1>2
    <3>3. g[t] = Rest(t)
      BY <3>1
    <3> QED
      BY <2>2, <3>2, <3>3 DEF Unfold
  <2> QED
    BY <2>1, <2>2
<1>5. Solves(w, g, R)
  <2> HIDE DEF Rest
  <2> QED
    BY <1>4 DEF Solves
<1> DEFINE h == CHOOSE f : Solves(w, f, R)
<1>6. Solves(w, h, R)
  <2> HIDE DEF g
  <2> QED
    BY <1>5
<1>7. h[R] = g[R]
  <2> HIDE DEF g, h
  <2>1. IsFiniteSet(R)
    BY FS_Subset
  <2> QED
    BY <1>5, <1>6, <2>1, SolutionsAgree
<1>8. SumFunctionOnSet(w, R) = h[R]
  BY SumDefinition
<1> QED
  BY <1>7, <1>8, <1>2

(* The sum of integers is one.                                             *)
LEMMA SumType ==
  ASSUME NEW w, NEW S, IsFiniteSet(S), \A x \in S : w[x] \in Int
  PROVE  SumFunctionOnSet(w, S) \in Int
<1> DEFINE T == {s \in SUBSET S : SumFunctionOnSet(w, s) \notin Int}
<1>1. SUFFICES ASSUME T # {} PROVE FALSE
  BY <1>1
<1>2. PICK R \in T : \A t \in T : t \subseteq R => t = R
  <2> HIDE DEF T
  <2>1. T \subseteq SUBSET S
    BY DEF T
  <2> QED
    BY <1>1, <2>1, SmallestSubset
<1>3. SumFunctionOnSet(w, R) = IF R = {} THEN 0 ELSE w[Picked(R)] + SumFunctionOnSet(w, R \ {Picked(R)})
  BY SumUnfolds, FS_Subset
<1>4. R # {}
  BY <1>3
<1>5. Picked(R) \in R
  BY <1>4 DEF Picked
<1>6. SumFunctionOnSet(w, R \ {Picked(R)}) \in Int
  BY <1>5, <1>2
<1> QED
  BY <1>3, <1>4, <1>5, <1>6

(* Any element may be taken out first.                                     *)
LEMMA SumTakes ==
  ASSUME NEW w, NEW S, IsFiniteSet(S), \A x \in S : w[x] \in Int
  PROVE  \A x \in S : SumFunctionOnSet(w, S) = w[x] + SumFunctionOnSet(w, S \ {x})
<1> DEFINE Sum(s) == SumFunctionOnSet(w, s)
           T == {s \in SUBSET S : \E x \in s : Sum(s) # w[x] + Sum(s \ {x})}
<1>1. SUFFICES ASSUME T # {} PROVE FALSE
  BY <1>1
<1>2. PICK R \in T : \A t \in T : t \subseteq R => t = R
  <2> HIDE DEF T
  <2>1. T \subseteq SUBSET S
    BY DEF T
  <2> QED
    BY <1>1, <2>1, SmallestSubset
<1>3. PICK x \in R : Sum(R) # w[x] + Sum(R \ {x})
  BY <1>2
<1> DEFINE y == Picked(R)
<1>4. y \in R
  BY <1>3 DEF Picked
<1>5. Sum(R) = w[y] + Sum(R \ {y})
  BY <1>3, SumUnfolds, FS_Subset
<1>6. y # x
  BY <1>3, <1>5
<1> DEFINE Q == (R \ {y}) \ {x}
<1>7. Q = (R \ {x}) \ {y}
  OBVIOUS
<1> HIDE DEF y, Q
<1>8. ASSUME NEW t \in SUBSET R, t # R, NEW z \in t
      PROVE  Sum(t) = w[z] + Sum(t \ {z})
  BY <1>8, <1>2
<1>9. Sum(R \ {y}) = w[x] + Sum(Q) /\ Sum(R \ {x}) = w[y] + Sum(Q)
  <2> HIDE DEF T, Sum
  <2>1. x \in R \ {y} /\ R \ {y} # R /\ R \ {y} \in SUBSET R
    BY <1>4, <1>6
  <2>2. y \in R \ {x} /\ R \ {x} # R /\ R \ {x} \in SUBSET R
    BY <1>4, <1>6
  <2> QED
    BY <1>7, <1>8, <2>1, <2>2 DEF Q
<1>10. Sum(Q) \in Int /\ w[x] \in Int /\ w[y] \in Int
  <2>1. Q \subseteq S
    BY DEF Q
  <2>2. IsFiniteSet(Q)
    BY <2>1, FS_Subset
  <2> QED
    BY <1>3, <1>4, <2>1, <2>2, SumType
<1> HIDE DEF Sum
<1> QED
  BY <1>3, <1>5, <1>9, <1>10

(* The sum of no values is zero, and adding an element adds its value.     *)
LEMMA SumEmpty == ASSUME NEW w PROVE SumFunctionOnSet(w, {}) = 0
BY SumUnfolds, FS_EmptySet

LEMMA SumAdds ==
  ASSUME NEW w, NEW S, IsFiniteSet(S), NEW x, x \notin S, w[x] \in Int, \A y \in S : w[y] \in Int
  PROVE  SumFunctionOnSet(w, S \cup {x}) = w[x] + SumFunctionOnSet(w, S)
<1> DEFINE R == S \cup {x}
<1>1. IsFiniteSet(R) /\ x \in R /\ R \ {x} = S /\ \A y \in R : w[y] \in Int
  BY FS_AddElement
<1>2. SumFunctionOnSet(w, R) = w[x] + SumFunctionOnSet(w, R \ {x})
  <2> HIDE DEF R
  <2> QED
    BY <1>1, SumTakes
<1> QED
  BY <1>1, <1>2

(* The sum of zeros is zero.                                               *)
LEMMA SumZero ==
  ASSUME NEW w, NEW S, IsFiniteSet(S), \A x \in S : w[x] = 0
  PROVE  SumFunctionOnSet(w, S) = 0
<1> DEFINE T == {s \in SUBSET S : SumFunctionOnSet(w, s) # 0}
<1>1. SUFFICES ASSUME T # {} PROVE FALSE
  BY <1>1
<1>2. PICK R \in T : \A t \in T : t \subseteq R => t = R
  <2> HIDE DEF T
  <2>1. T \subseteq SUBSET S
    BY DEF T
  <2> QED
    BY <1>1, <2>1, SmallestSubset
<1>3. R # {}
  BY <1>2, SumEmpty
<1> PICK x \in R : TRUE
  BY <1>3
<1>4. SumFunctionOnSet(w, R) = w[x] + SumFunctionOnSet(w, R \ {x})
  <2>1. R \subseteq S /\ IsFiniteSet(R) /\ \A y \in R : w[y] \in Int
    BY FS_Subset
  <2> QED
    BY <2>1, SumTakes
<1>5. SumFunctionOnSet(w, R \ {x}) = 0 /\ w[x] = 0
  BY <1>2
<1> QED
  BY <1>2, <1>4, <1>5

(* Greater values have a greater sum.                                      *)
LEMMA SumMonotone ==
  ASSUME NEW v, NEW w, NEW S, IsFiniteSet(S), \A x \in S : v[x] \in Int /\ w[x] \in Int /\ v[x] <= w[x]
  PROVE  SumFunctionOnSet(v, S) <= SumFunctionOnSet(w, S)
<1> DEFINE T == {s \in SUBSET S : ~ (SumFunctionOnSet(v, s) <= SumFunctionOnSet(w, s))}
<1>1. SUFFICES ASSUME T # {} PROVE FALSE
  BY <1>1
<1>2. PICK R \in T : \A t \in T : t \subseteq R => t = R
  <2> HIDE DEF T
  <2>1. T \subseteq SUBSET S
    BY DEF T
  <2> QED
    BY <1>1, <2>1, SmallestSubset
<1>3. R \subseteq S /\ IsFiniteSet(R)
  BY FS_Subset
<1>4. ASSUME R = {} PROVE FALSE
  <2>1. SumFunctionOnSet(v, R) = 0 /\ SumFunctionOnSet(w, R) = 0
    BY <1>4, SumEmpty
  <2> QED
    BY <1>2, <2>1
<1>5. PICK x \in R : TRUE
  BY <1>4
<1> DEFINE Q == R \ {x}
<1>6. Q \subseteq S /\ IsFiniteSet(Q)
  BY <1>3, FS_Subset
<1>7. SumFunctionOnSet(v, Q) <= SumFunctionOnSet(w, Q)
  BY <1>2, <1>6
<1>8. /\ SumFunctionOnSet(v, R) = v[x] + SumFunctionOnSet(v, Q)
      /\ SumFunctionOnSet(w, R) = w[x] + SumFunctionOnSet(w, Q)
  BY <1>3, SumTakes
<1>9. SumFunctionOnSet(v, Q) \in Int /\ SumFunctionOnSet(w, Q) \in Int
  BY <1>6, SumType
<1>10. v[x] \in Int /\ w[x] \in Int /\ v[x] <= w[x]
  BY <1>3
<1> HIDE DEF Q
<1>11. SumFunctionOnSet(v, R) <= SumFunctionOnSet(w, R)
  BY <1>7, <1>8, <1>9, <1>10
<1> QED
  BY <1>2, <1>11

(* The sum depends on nothing but the values on the set.                   *)
LEMMA SumExtensional ==
  ASSUME NEW v, NEW w, NEW S, IsFiniteSet(S), \A x \in S : v[x] \in Int /\ v[x] = w[x]
  PROVE  SumFunctionOnSet(v, S) = SumFunctionOnSet(w, S)
<1>1. SumFunctionOnSet(v, S) <= SumFunctionOnSet(w, S)
  BY SumMonotone
<1>2. SumFunctionOnSet(w, S) <= SumFunctionOnSet(v, S)
  BY SumMonotone
<1>3. SumFunctionOnSet(v, S) \in Int /\ SumFunctionOnSet(w, S) \in Int
  BY SumType
<1> QED
  BY <1>1, <1>2, <1>3

(* No value is negative: neither is the sum.                               *)
LEMMA SumNat ==
  ASSUME NEW w, NEW S, IsFiniteSet(S), \A x \in S : w[x] \in Nat
  PROVE  SumFunctionOnSet(w, S) \in Nat
<1> DEFINE T == {s \in SUBSET S : SumFunctionOnSet(w, s) \notin Nat}
<1>1. SUFFICES ASSUME T # {} PROVE FALSE
  BY <1>1
<1>2. PICK R \in T : \A t \in T : t \subseteq R => t = R
  <2> HIDE DEF T
  <2>1. T \subseteq SUBSET S
    BY DEF T
  <2> QED
    BY <1>1, <2>1, SmallestSubset
<1>3. R \subseteq S /\ IsFiniteSet(R)
  BY FS_Subset
<1>4. ASSUME R = {} PROVE FALSE
  <2>1. SumFunctionOnSet(w, R) = 0
    BY <1>4, SumEmpty
  <2> QED
    BY <1>2, <2>1
<1> PICK x \in R : TRUE
  BY <1>4
<1>5. SumFunctionOnSet(w, R) = w[x] + SumFunctionOnSet(w, R \ {x})
  BY <1>3, SumTakes
<1>6. SumFunctionOnSet(w, R \ {x}) \in Nat
  BY <1>2, <1>3
<1> QED
  BY <1>2, <1>3, <1>5, <1>6

(* A part of a set then has no greater sum.                                *)
LEMMA SumPart ==
  ASSUME NEW w, NEW S, IsFiniteSet(S), \A x \in S : w[x] \in Nat, NEW P, P \subseteq S
  PROVE  SumFunctionOnSet(w, P) <= SumFunctionOnSet(w, S)
<1> DEFINE T == {s \in SUBSET S : P \subseteq s /\ ~ (SumFunctionOnSet(w, P) <= SumFunctionOnSet(w, s))}
<1>1. SUFFICES ASSUME T # {} PROVE FALSE
  BY <1>1
<1>2. PICK R \in T : \A t \in T : t \subseteq R => t = R
  <2> HIDE DEF T
  <2>1. T \subseteq SUBSET S
    BY DEF T
  <2> QED
    BY <1>1, <2>1, SmallestSubset
<1>3. R \subseteq S /\ IsFiniteSet(R) /\ P \subseteq R /\ IsFiniteSet(P)
  BY <1>2, FS_Subset
<1>4. SumFunctionOnSet(w, R) \in Int /\ SumFunctionOnSet(w, P) \in Int
  BY <1>3, SumType
<1>5. PICK x \in R : x \notin P
  <2>1. ~ (SumFunctionOnSet(w, P) <= SumFunctionOnSet(w, R))
    BY <1>2
  <2>2. R # P
    BY <1>4, <2>1
  <2> QED
    BY <1>3, <2>2
<1> DEFINE Q == R \ {x}
<1>6. Q \subseteq S /\ IsFiniteSet(Q) /\ P \subseteq Q
  BY <1>3, <1>5, FS_Subset
<1>7. SumFunctionOnSet(w, P) <= SumFunctionOnSet(w, Q)
  BY <1>2, <1>6
<1>8. SumFunctionOnSet(w, R) = w[x] + SumFunctionOnSet(w, Q) /\ SumFunctionOnSet(w, Q) \in Int
  BY <1>3, <1>6, SumTakes, SumType
<1>9. w[x] \in Nat
  BY <1>3
<1> HIDE DEF Q
<1> QED
  BY <1>2, <1>4, <1>7, <1>8, <1>9

(* Values that were moved, each to a place of its own, and did not become  *)
(* smaller add up to as much.                                              *)
LEMMA SumMoved ==
  ASSUME NEW v, NEW w, NEW S, NEW f, IsFiniteSet(S), \A x, y \in S : f[x] = f[y] => x = y,
         \A x \in S : v[x] \in Int /\ w[f[x]] \in Int /\ v[x] <= w[f[x]]
  PROVE  SumFunctionOnSet(v, S) <= SumFunctionOnSet(w, {f[x] : x \in S})
<1> DEFINE Places(s) == {f[x] : x \in s}
           T == {s \in SUBSET S : ~ (SumFunctionOnSet(v, s) <= SumFunctionOnSet(w, Places(s)))}
<1>1. SUFFICES ASSUME T # {} PROVE FALSE
  BY <1>1
<1>2. PICK R \in T : \A t \in T : t \subseteq R => t = R
  <2> HIDE DEF T
  <2>1. T \subseteq SUBSET S
    BY DEF T
  <2> QED
    BY <1>1, <2>1, SmallestSubset
<1>3. R \subseteq S /\ IsFiniteSet(R)
  BY FS_Subset
<1>4. ASSUME R = {} PROVE FALSE
  <2>1. Places(R) = {}
    BY <1>4
  <2>2. ~ (SumFunctionOnSet(v, R) <= SumFunctionOnSet(w, Places(R)))
    BY <1>2
  <2> HIDE DEF Places
  <2>3. SumFunctionOnSet(v, R) = 0 /\ SumFunctionOnSet(w, Places(R)) = 0
    BY <1>4, <2>1, SumEmpty
  <2> QED
    BY <2>2, <2>3
<1>5. PICK x \in R : TRUE
  BY <1>4
<1> DEFINE Q == R \ {x}
<1>6. Q \subseteq S /\ IsFiniteSet(Q)
  BY <1>3, FS_Subset
<1>7. SumFunctionOnSet(v, Q) <= SumFunctionOnSet(w, Places(Q))
  BY <1>2, <1>6
<1>8. IsFiniteSet(Places(R)) /\ IsFiniteSet(Places(Q)) /\ \A y \in Places(R) : w[y] \in Int
  <2>1. [y \in R |-> f[y]] \in Surjection(R, Places(R))
    BY DEF Surjection
  <2>2. Places(Q) \subseteq Places(R) /\ \A y \in Places(R) : w[y] \in Int
    BY <1>3
  <2> HIDE DEF Places, Q
  <2> QED
    BY <1>3, <2>1, <2>2, FS_Surjection, FS_Subset
<1>9. f[x] \in Places(R) /\ Places(Q) = Places(R) \ {f[x]}
  BY <1>3, <1>5
<1>10. /\ SumFunctionOnSet(v, R) = v[x] + SumFunctionOnSet(v, Q)
       /\ SumFunctionOnSet(w, Places(R)) = w[f[x]] + SumFunctionOnSet(w, Places(Q))
  <2>1. SumFunctionOnSet(v, R) = v[x] + SumFunctionOnSet(v, Q)
    BY <1>3, SumTakes
  <2> HIDE DEF Places
  <2>2. SumFunctionOnSet(w, Places(R)) = w[f[x]] + SumFunctionOnSet(w, Places(R) \ {f[x]})
    BY <1>8, <1>9, SumTakes
  <2> QED
    BY <1>9, <2>1, <2>2
<1>11. SumFunctionOnSet(v, Q) \in Int /\ SumFunctionOnSet(w, Places(Q)) \in Int
  <2>1. \A y \in Places(Q) : w[y] \in Int
    BY <1>8
  <2> HIDE DEF Places
  <2> QED
    BY <1>6, <1>8, <2>1, SumType
<1>12. v[x] \in Int /\ w[f[x]] \in Int /\ v[x] <= w[f[x]]
  BY <1>3
<1> HIDE DEF Q, Places
<1>13. SumFunctionOnSet(v, R) <= SumFunctionOnSet(w, Places(R))
  BY <1>7, <1>10, <1>11, <1>12
<1> QED
  BY <1>2, <1>13 DEF Places

(* What changes for one element changes the sum, and the number, by its    *)
(* own part.                                                               *)
LEMMA SumExchanged ==
  ASSUME NEW v, NEW w, NEW S, NEW T, NEW x, IsFiniteSet(S), S \ {x} = T \ {x},
         \A y \in S : w[y] \in Int, \A y \in T : v[y] \in Int, \A y \in S \ {x} : v[y] = w[y]
  PROVE  SumFunctionOnSet(v, T) - (IF x \in T THEN v[x] ELSE 0) = SumFunctionOnSet(w, S) - (IF x \in S THEN w[x] ELSE 0)
<1> DEFINE R == S \ {x}
<1>1. IsFiniteSet(R) /\ IsFiniteSet(T) /\ R \subseteq S /\ R \subseteq T
  <2>1. IsFiniteSet(R)
    BY FS_Subset
  <2>2. T \subseteq R \cup {x}
    OBVIOUS
  <2> HIDE DEF R
  <2>3. IsFiniteSet(T)
    BY <2>1, <2>2, FS_AddElement, FS_Subset
  <2> QED
    BY <2>1, <2>3 DEF R
<1>2. SumFunctionOnSet(v, R) = SumFunctionOnSet(w, R) /\ SumFunctionOnSet(w, R) \in Int
  <2>1. \A y \in R : v[y] \in Int /\ w[y] \in Int /\ v[y] = w[y]
    OBVIOUS
  <2> HIDE DEF R
  <2> QED
    BY <1>1, <2>1, SumExtensional, SumType
<1>3. SumFunctionOnSet(w, S) - (IF x \in S THEN w[x] ELSE 0) = SumFunctionOnSet(w, R)
  <2>1. CASE x \in S
    BY <1>2, <2>1, SumTakes
  <2>2. CASE x \notin S
    BY <1>2, <2>2
  <2> QED
    BY <2>1, <2>2
<1>4. SumFunctionOnSet(v, T) - (IF x \in T THEN v[x] ELSE 0) = SumFunctionOnSet(v, R)
  <2>0. SumFunctionOnSet(v, R) \in Int
    BY <1>2
  <2>1. CASE x \in T
    BY <1>1, <2>0, <2>1, SumTakes
  <2>2. CASE x \notin T
    <3>1. T = R
      BY <2>2
    <3> HIDE DEF R
    <3> QED
      BY <2>0, <2>2, <3>1
  <2> QED
    BY <2>1, <2>2
<1> QED
  BY <1>2, <1>3, <1>4

LEMMA SumRaised ==
  ASSUME NEW v, NEW w, NEW S, NEW x, NEW d \in Int, IsFiniteSet(S), w[x] \in Int, v[x] = w[x] + d,
         \A y \in S : w[y] \in Int, \A y \in S \ {x} : v[y] = w[y]
  PROVE  SumFunctionOnSet(v, S) = SumFunctionOnSet(w, S) + (IF x \in S THEN d ELSE 0)
<1>1. \A y \in S : v[y] \in Int
  OBVIOUS
<1>2. SumFunctionOnSet(v, S) - (IF x \in S THEN v[x] ELSE 0) = SumFunctionOnSet(w, S) - (IF x \in S THEN w[x] ELSE 0)
  BY <1>1, SumExchanged
<1>3. SumFunctionOnSet(v, S) \in Int /\ SumFunctionOnSet(w, S) \in Int
  BY <1>1, SumType
<1>4. CASE x \in S
  BY <1>2, <1>3, <1>4
<1>5. CASE x \notin S
  BY <1>2, <1>3, <1>5
<1> QED
  BY <1>4, <1>5

LEMMA CardinalityExchanged ==
  ASSUME NEW S, NEW T, NEW x, IsFiniteSet(S), S \ {x} = T \ {x}
  PROVE  /\ IsFiniteSet(T)
         /\ Cardinality(T) - (IF x \in T THEN 1 ELSE 0) = Cardinality(S) - (IF x \in S THEN 1 ELSE 0)
<1> DEFINE R == S \ {x}
<1>1. IsFiniteSet(R) /\ Cardinality(R) = IF x \in S THEN Cardinality(S) - 1 ELSE Cardinality(S)
  BY FS_RemoveElement
<1>2. (x \in T => T = R \cup {x}) /\ (x \notin T => T = R) /\ x \notin R
  OBVIOUS
<1>3. Cardinality(R) \in Nat /\ Cardinality(S) \in Nat
  BY <1>1, FS_CardinalityType
<1> HIDE DEF R
<1>4. IsFiniteSet(R \cup {x}) /\ Cardinality(R \cup {x}) = Cardinality(R) + 1
  BY <1>1, <1>2, FS_AddElement
<1>5. Cardinality(S) - (IF x \in S THEN 1 ELSE 0) = Cardinality(R)
  BY <1>1, <1>3
<1>6. IsFiniteSet(T) /\ Cardinality(T) - (IF x \in T THEN 1 ELSE 0) = Cardinality(R)
  <2>1. CASE x \in T
    <3>1. T = R \cup {x}
      BY <1>2, <2>1
    <3>2. IsFiniteSet(T) /\ Cardinality(T) = Cardinality(R) + 1
      BY <1>4, <3>1, Zenon
    <3> QED
      BY <1>3, <2>1, <3>2
  <2>2. CASE x \notin T
    BY <1>1, <1>2, <1>3, <2>2
  <2> QED
    BY <2>1, <2>2
<1> QED
  BY <1>5, <1>6
=============================================================================
