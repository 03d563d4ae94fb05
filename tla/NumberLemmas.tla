---------------------------- MODULE NumberLemmas ----------------------------
(* Facts about numbers and finite sets that the proofs of several modules   *)
(* use and that no theorem of the library states: division, taking turns,   *)
(* induction over a set, and adding up the members of a set part by part.   *)
EXTENDS Integers, FiniteSetTheorems, FunctionTheorems, WellFoundedInduction, TLAPS

(* Multiplication keeps the order.                                          *)
LEMMA Times ==
    ASSUME NEW a \in Nat, NEW b \in Nat, NEW d \in Nat, a <= b
    PROVE  a * d <= b * d
OBVIOUS

(* Division and remainder, which no theorem of the library is about.        *)
LEMMA DivRange ==
    ASSUME NEW r \in Nat, NEW d \in Nat \ {0}
    PROVE  /\ r \div d \in Nat
           /\ (r \div d) * d <= r
           /\ r < (r \div d) * d + d
           /\ r % d \in 0 .. d - 1
           /\ r = (r \div d) * d + (r % d)
OBVIOUS

LEMMA DivIs ==
    ASSUME NEW r \in Nat, NEW c \in Nat, NEW d \in Nat \ {0},
           c * d <= r, r < c * d + d
    PROVE  r \div d = c
<1> DEFINE q == r \div d
<1>1. q \in Nat /\ q * d <= r /\ r < q * d + d
  BY DivRange
<1> HIDE DEF q
<1>2. ~(q < c)
  <2> SUFFICES ASSUME q + 1 <= c PROVE FALSE
    BY <1>1
  <2>1. (q + 1) * d <= c * d
    BY <1>1, Times
  <2>2. (q + 1) * d = q * d + d
    BY <1>1
  <2> QED BY <1>1, <2>1, <2>2
<1>3. ~(c < q)
  <2> SUFFICES ASSUME c + 1 <= q PROVE FALSE
    BY <1>1
  <2>1. (c + 1) * d <= q * d
    BY <1>1, Times
  <2>2. (c + 1) * d = c * d + d
    OBVIOUS
  <2> QED BY <1>1, <2>1, <2>2
<1> QED BY <1>1, <1>2, <1>3 DEF q

LEMMA ModIs ==
    ASSUME NEW r \in Nat, NEW c \in Nat, NEW d \in Nat \ {0}, NEW m \in 0 .. d - 1,
           r = c * d + m
    PROVE  r % d = m
<1>1. r \div d = c
  <2>1. c * d \in Nat
    OBVIOUS
  <2> QED BY <2>1, DivIs
<1>2. r = (r \div d) * d + (r % d) /\ r % d \in 0 .. d - 1
  BY DivRange
<1>3. c * d \in Nat
  OBVIOUS
<1> QED BY <1>1, <1>2, <1>3

LEMMA ModNext ==
    ASSUME NEW a \in Nat, NEW d \in Nat \ {0}
    PROVE  (a + 1) % d = IF (a % d) + 1 = d THEN 0 ELSE (a % d) + 1
<1> DEFINE q == a \div d
           m == a % d
<1>1. q \in Nat /\ m \in 0 .. d - 1 /\ a = q * d + m
  BY DivRange
<1> HIDE DEF q, m
<1>2. CASE m + 1 = d
  <2>1. a + 1 = (q + 1) * d + 0
    <3>1. (q + 1) * d = q * d + d /\ q * d \in Nat
      BY <1>1
    <3> QED BY <1>1, <1>2, <3>1
  <2>2. 0 \in 0 .. d - 1 /\ q + 1 \in Nat /\ a + 1 \in Nat
    BY <1>1
  <2>3. (a + 1) % d = 0
    BY <2>1, <2>2, ModIs
  <2> QED BY <1>2, <2>3 DEF m
<1>3. CASE m + 1 # d
  <2>1. a + 1 = q * d + (m + 1)
    <3>1. q * d \in Nat
      BY <1>1
    <3> QED BY <1>1, <3>1
  <2>2. m + 1 \in 0 .. d - 1 /\ a + 1 \in Nat
    BY <1>1, <1>3
  <2>3. (a + 1) % d = m + 1
    BY <1>1, <2>1, <2>2, ModIs
  <2> QED BY <1>3, <2>3 DEF m
<1> QED BY <1>2, <1>3

LEMMA DivGrows ==
    ASSUME NEW a \in Nat, NEW b \in Nat, NEW d \in Nat \ {0}, a <= b
    PROVE  a \div d <= b \div d
<1> DEFINE p == a \div d
           q == b \div d
<1>1. /\ p \in Nat /\ p * d <= a
      /\ q \in Nat /\ b < q * d + d
  BY DivRange
<1> HIDE DEF p, q
<1>2. ~(q + 1 <= p)
  <2> SUFFICES ASSUME q + 1 <= p PROVE FALSE
    OBVIOUS
  <2>1. (q + 1) * d <= p * d
    BY <1>1, Times
  <2>2. (q + 1) * d = q * d + d /\ q * d \in Nat /\ p * d \in Nat
    BY <1>1
  <2> QED
    BY <1>1, <2>1, <2>2
<1> QED
  BY <1>1, <1>2 DEF p, q

---------------------------------------------------------------------------
(* Of the numbers below b, those that leave n when divided by d: the turns  *)
(* of n among d when b turns have been taken.                               *)
LEMMA TurnsFinite ==
    ASSUME NEW n, NEW d, NEW b \in Nat
    PROVE  /\ IsFiniteSet({c \in 0 .. b - 1 : c % d = n})
           /\ Cardinality({c \in 0 .. b - 1 : c % d = n}) \in Nat
<1>1. IsFiniteSet(0 .. b - 1)
  BY FS_Interval
<1>2. {c \in 0 .. b - 1 : c % d = n} \subseteq 0 .. b - 1
  OBVIOUS
<1> QED
  BY <1>1, <1>2, FS_Subset, FS_CardinalityType

LEMMA TurnsGrow ==
    ASSUME NEW n, NEW d, NEW b \in Nat
    PROVE  Cardinality({c \in 0 .. b : c % d = n}) =
              Cardinality({c \in 0 .. b - 1 : c % d = n})
                 + (IF b % d = n THEN 1 ELSE 0)
<1> DEFINE Before == {c \in 0 .. b - 1 : c % d = n}
           Now == {c \in 0 .. b : c % d = n}
<1>0. IsFiniteSet(Before) /\ Cardinality(Before) \in Nat
  BY TurnsFinite
<1>1. b \notin Before /\ 0 .. b = (0 .. b - 1) \union {b}
  OBVIOUS
<1>2. CASE b % d = n
  <2>1. Now = Before \union {b}
    BY <1>1, <1>2
  <2> QED
    BY <1>0, <1>1, <1>2, <2>1, FS_AddElement
<1>3. CASE b % d # n
  <2>1. Now = Before
    BY <1>1, <1>3
  <2> QED
    BY <1>0, <1>3, <2>1
<1> QED
  BY <1>2, <1>3

LEMMA TurnsMonotonic ==
    ASSUME NEW n, NEW d, NEW a \in Nat, NEW b \in Nat, a <= b
    PROVE  Cardinality({c \in 0 .. a - 1 : c % d = n})
              <= Cardinality({c \in 0 .. b - 1 : c % d = n})
<1> DEFINE A == {c \in 0 .. a - 1 : c % d = n}
           B == {c \in 0 .. b - 1 : c % d = n}
<1>1. A \subseteq B
  OBVIOUS
<1>2. IsFiniteSet(B)
  BY TurnsFinite
<1> HIDE DEF A, B
<1>3. Cardinality(A) <= Cardinality(B)
  BY <1>1, <1>2, FS_Subset
<1> QED
  BY <1>3 DEF A, B

---------------------------------------------------------------------------
(* Induction over the natural numbers, for what can be said by membership   *)
(* in a set.                                                                *)
LEMMA SetInduction ==
    ASSUME NEW S, 0 \in S, \A n \in Nat : n \in S => n + 1 \in S
    PROVE  Nat \subseteq S
<1> DEFINE T == Nat \ S
<1> SUFFICES ASSUME T # {} PROVE FALSE
  OBVIOUS
<1>1. PICK x \in T : \A y \in T : <<y, x>> \notin OpToRel(<, Nat)
  BY NatLessThanWellFounded, WFMin
<1>2. x \in Nat /\ x \notin S /\ x # 0
  OBVIOUS
<1>3. x - 1 \in Nat /\ x - 1 < x /\ x = (x - 1) + 1
  BY <1>2
<1>4. <<x - 1, x>> \in OpToRel(<, Nat)
  BY <1>2, <1>3 DEF OpToRel
<1>5. x - 1 \in S
  BY <1>1, <1>3, <1>4
<1> QED
  BY <1>2, <1>3, <1>5

LEMMA LeastMember ==
    ASSUME NEW S \in SUBSET Nat, S # {}
    PROVE  \E x \in S : \A y \in S : x <= y
<1>1. PICK x \in S : \A y \in S : <<y, x>> \notin OpToRel(<, Nat)
  BY NatLessThanWellFounded, WFMin
<1>2. ASSUME NEW y \in S PROVE x <= y
  <2>1. x \in Nat /\ y \in Nat
    OBVIOUS
  <2>2. ~(y < x)
    BY <1>1, <2>1 DEF OpToRel
  <2> QED
    BY <2>1, <2>2
<1> QED
  BY <1>2

(* Induction over the subsets of a finite set.                              *)
LEMMA SubsetInduction ==
    ASSUME NEW U, IsFiniteSet(U), NEW S, {} \in S,
           \A A \in SUBSET U : \A x \in U \ A : A \in S => A \union {x} \in S
    PROVE  SUBSET U \subseteq S
<1> DEFINE T == (SUBSET U) \ S
<1> SUFFICES ASSUME T # {} PROVE FALSE
  OBVIOUS
<1>1. IsWellFoundedOn(StrictSubsetOrdering(U), SUBSET U)
  BY FS_StrictSubsetOrderingWellFounded, FS_FiniteSubsetsOfFinite
<1>2. PICK A \in T : \A B \in T : <<B, A>> \notin StrictSubsetOrdering(U)
  BY <1>1, WFMin
<1>3. PICK x \in A : TRUE
  BY <1>2
<1> DEFINE B == A \ {x}
<1>4. <<B, A>> \in StrictSubsetOrdering(U)
  BY <1>2, <1>3 DEF StrictSubsetOrdering
<1>5. B \in S
  BY <1>2, <1>4
<1>6. A = B \union {x} /\ x \in U \ B /\ B \in SUBSET U
  BY <1>2, <1>3
<1> QED
  BY <1>2, <1>5, <1>6

(* A member of a finite set of numbers is known by how many members lie     *)
(* before it.                                                               *)
LEMMA RankIsUnique ==
    ASSUME NEW U \in SUBSET Nat, IsFiniteSet(U), NEW p \in U, NEW q \in U,
           Cardinality({r \in U : r < p}) = Cardinality({r \in U : r < q})
    PROVE  p = q
<1>1. ASSUME NEW a \in U, NEW b \in U, a < b
      PROVE  Cardinality({r \in U : r < a}) # Cardinality({r \in U : r < b})
  <2> DEFINE A == {r \in U : r < a}
             B == {r \in U : r < b}
  <2>1. IsFiniteSet(B)
    <3>1. B \subseteq U
      OBVIOUS
    <3> QED
      BY <3>1, FS_Subset
  <2>2. A \subseteq B /\ a \in B /\ a \notin A
    <3>1. a \in Nat /\ b \in Nat /\ \A r \in U : r \in Nat
      OBVIOUS
    <3>2. \A r \in U : r < a => r < b
      BY <1>1, <3>1
    <3>3. ~(a < a)
      BY <3>1
    <3> QED
      BY <1>1, <3>2, <3>3
  <2> HIDE DEF A, B
  <2>3. Cardinality(A) # Cardinality(B)
    BY <2>1, <2>2, FS_Subset, FS_CardinalityType
  <2> QED
    BY <2>3 DEF A, B
<1>2. p < q \/ q < p \/ p = q
  OBVIOUS
<1> QED
  BY <1>1, <1>2

---------------------------------------------------------------------------
(* Two finite sets without a common member; and the image of a finite set.  *)
LEMMA ApartAdd ==
    ASSUME NEW A, IsFiniteSet(A), NEW B, IsFiniteSet(B), A \intersect B = {}
    PROVE  Cardinality(A \union B) = Cardinality(A) + Cardinality(B)
<1>1. Cardinality(A \union B) = Cardinality(A) + Cardinality(B) - Cardinality(A \intersect B)
  BY FS_Union
<1>2. /\ Cardinality(A) \in Nat /\ Cardinality(B) \in Nat
      /\ Cardinality(A \intersect B) = 0
  BY FS_CardinalityType, FS_EmptySet
<1> QED
  BY <1>1, <1>2

LEMMA ImageFinite ==
    ASSUME NEW S, IsFiniteSet(S), NEW T, NEW f \in [S -> T]
    PROVE  IsFiniteSet({f[x] : x \in S})
<1> DEFINE U == {f[x] : x \in S}
<1>1. PICK n \in Nat : ExistsSurjection(1 .. n, S)
  BY FS_NatSurjection
<1>2. PICK g \in Surjection(1 .. n, S) : TRUE
  BY <1>1, Fun_ExistsSurj
<1>3. f \in [S -> U] /\ \A y \in U : \E x \in S : f[x] = y
  OBVIOUS
<1> HIDE DEF U
<1>4. f \in Surjection(S, U)
  BY <1>3, Fun_IsSurj
<1>5. [x \in 1 .. n |-> f[g[x]]] \in Surjection(1 .. n, U)
  BY <1>2, <1>4, Fun_SurjTransitive
<1>6. ExistsSurjection(1 .. n, U)
  BY <1>5, Fun_ExistsSurj
<1> QED
  BY <1>6, FS_NatSurjection DEF U

(* Members of Q, each with its place in S.                                  *)
PlacedAt(Q, place, x) == {r \in Q : place[r] = x}

(* The members placed in s are those at any one place of s and those at the *)
(* others.                                                                  *)
LEMMA OnePlaceLess ==
    ASSUME NEW S, NEW Q, IsFiniteSet(Q), NEW place \in [Q -> S], NEW s \in SUBSET S, NEW x \in s
    PROVE  Cardinality({r \in Q : place[r] \in s})
             = Cardinality(PlacedAt(Q, place, x))
                 + Cardinality({r \in Q : place[r] \in s \ {x}})
<1> DEFINE In(b) == {r \in Q : place[r] \in b}
           At(y) == PlacedAt(Q, place, y)
<1>1. In(s) = At(x) \union In(s \ {x}) /\ At(x) \intersect In(s \ {x}) = {}
  BY DEF PlacedAt
<1>2. IsFiniteSet(At(x)) /\ IsFiniteSet(In(s \ {x}))
  <2>1. At(x) \subseteq Q /\ In(s \ {x}) \subseteq Q
    BY DEF PlacedAt
  <2> HIDE DEF At, In
  <2> QED
    BY <2>1, FS_Subset
<1>3. Cardinality(In(s)) = Cardinality(At(x)) + Cardinality(In(s \ {x}))
  <2> HIDE DEF At, In
  <2> QED
    BY <1>1, <1>2, ApartAdd
<1> QED
  BY <1>3

(* f adds up, one member of a set after the other, how many of Q have their *)
(* place there.                                                             *)
AddsUp(f, S, Q, place) ==
    /\ f[{}] = 0
    /\ \A s \in SUBSET S : s # {} =>
          \E x \in s : f[s] = Cardinality(PlacedAt(Q, place, x)) + f[s \ {x}]

(* Whatever the order, that comes to all of Q.                              *)
LEMMA PartsAdd ==
    ASSUME NEW S, IsFiniteSet(S), NEW Q, IsFiniteSet(Q), NEW place \in [Q -> S],
           NEW f, AddsUp(f, S, Q, place)
    PROVE  f[S] = Cardinality(Q)
<1>0. /\ f[{}] = 0
      /\ \A s \in SUBSET S : s # {} =>
            \E x \in s : f[s] = Cardinality(PlacedAt(Q, place, x)) + f[s \ {x}]
  BY DEF AddsUp
<1> DEFINE In(s) == {r \in Q : place[r] \in s}
           At(x) == PlacedAt(Q, place, x)
           T == {k \in Nat : \A s \in SUBSET S :
                               Cardinality(s) = k => f[s] = Cardinality(In(s))}
<1>1. \A s \in SUBSET S : \A x \in s :
         Cardinality(In(s)) = Cardinality(At(x)) + Cardinality(In(s \ {x}))
  BY OnePlaceLess
<1>2. 0 \in T
  <2>1. ASSUME NEW s \in SUBSET S, Cardinality(s) = 0
        PROVE  f[s] = Cardinality(In(s))
    <3>1. IsFiniteSet(s)
      BY FS_Subset
    <3>2. s = {}
      BY <2>1, <3>1, FS_EmptySet
    <3>3. In(s) = {}
      BY <3>2
    <3>4. f[s] = 0
      BY <1>0, <3>2
    <3> QED
      BY <3>3, <3>4, FS_EmptySet
  <2> QED
    BY <2>1
<1>3. ASSUME NEW k \in Nat, k \in T
      PROVE  k + 1 \in T
  <2> SUFFICES ASSUME NEW s \in SUBSET S, Cardinality(s) = k + 1
               PROVE  f[s] = Cardinality(In(s))
    OBVIOUS
  <2>1. IsFiniteSet(s) /\ s # {}
    BY FS_Subset, FS_EmptySet
  <2>2. PICK x \in s : f[s] = Cardinality(At(x)) + f[s \ {x}]
    BY <1>0, <2>1
  <2>3. Cardinality(s \ {x}) = k
    <3>1. Cardinality(s \ {x}) = Cardinality(s) - 1
      BY <2>1, <2>2, FS_RemoveElement
    <3> QED
      BY <3>1
  <2>4. f[s \ {x}] = Cardinality(In(s \ {x}))
    BY <1>3, <2>3
  <2> QED
    BY <1>1, <2>2, <2>4
<1>4. Nat \subseteq T
  <2> HIDE DEF T
  <2> QED
    BY <1>2, <1>3, SetInduction
<1>5. Cardinality(S) \in T
  BY <1>4, FS_CardinalityType
<1>6. f[S] = Cardinality(In(S)) /\ In(S) = Q
  BY <1>5
<1> QED
  BY <1>6

============================================================================
