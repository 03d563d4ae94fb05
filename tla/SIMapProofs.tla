----------------------------- MODULE SIMapProofs -----------------------------
(* The hash map, for every capacity, any width of the hash, any words and   *)
(* any number of pairs.                                                     *)
EXTENDS SIMap, NumberLemmas, SequenceTheorems

---------------------------------------------------------------------------
(* Folding over a sequence: what Max, FoldLeft and FlattenSeq do step by    *)
(* step, when the results stay in a set M.                                  *)
LEMMA MaxIs ==
    ASSUME NEW s \in SUBSET Int, NEW x \in s, \A y \in s : x >= y
    PROVE  Max(s) = x
<1>1. \A z \in s : (\A y \in s : z >= y) => z = x
  OBVIOUS
<1> QED
  BY <1>1 DEF Max

LEMMA MaxIn ==
    ASSUME NEW c \in Nat, NEW s \in SUBSET (1 .. c), s # {}
    PROVE  Max(s) \in s /\ \A y \in s : Max(s) >= y
<1> DEFINE T == {z \in Nat : \A y \in s : y <= z}
<1>1. c \in T /\ T \in SUBSET Nat
  OBVIOUS
<1>2. PICK z \in T : \A y \in T : z <= y
  <2> HIDE DEF T
  <2> QED
    BY <1>1, LeastMember
<1>3. z \in Nat /\ \A y \in s : y <= z
  BY <1>2
<1>4. z \in s
  <2> SUFFICES ASSUME z \notin s PROVE FALSE
    OBVIOUS
  <2>1. \A y \in s : y <= z - 1
    BY <1>3
  <2>2. z - 1 \in Nat
    <3>1. PICK y \in s : TRUE
      OBVIOUS
    <3>2. y \in Nat /\ y <= z - 1
      BY <2>1
    <3> QED
      BY <1>3, <3>2
  <2>3. z - 1 \in T
    BY <2>1, <2>2
  <2> QED
    BY <1>2, <1>3, <2>3
<1>5. \E x \in s : \A y \in s : x >= y
  BY <1>3, <1>4
<1> QED
  BY <1>5 DEF Max

(* f folds g over the subsets of 1 .. c, or does so while its values are in *)
(* M; and h is its values one after the other.                              *)
IsFold(f, a, c, g) ==
    /\ f[{}] = a
    /\ \A s \in SUBSET (1 .. c) : s # {} => f[s] = g[<<f[s \ {Max(s)}], Max(s)>>]
FoldsIn(f, M, a, c, g) ==
    /\ f[{}] = a
    /\ \A s \in SUBSET (1 .. c) : s # {} /\ f[s \ {Max(s)}] \in M
          => f[s] = g[<<f[s \ {Max(s)}], Max(s)>>]
PassesThrough(f, M, a, c, g) ==
    /\ f[1 .. 0] = a
    /\ \A j \in 0 .. c : f[1 .. j] \in M
    /\ \A j \in 1 .. c : f[1 .. j] = g[<<f[1 .. j - 1], j>>]
AreSteps(h, a, c, g) ==
    h[0] = a /\ \A j \in 1 .. c : h[j] = g[<<h[j - 1], j>>]

LEMMA FoldExists ==
    ASSUME NEW M, NEW a \in M, NEW c \in Nat, NEW g \in [M \X (1 .. c) -> M]
    PROVE  \E f \in [SUBSET (1 .. c) -> M] : IsFold(f, a, c, g)
<1> DEFINE Is(f, b) == IsFold(f, a, b, g)
           T == {b \in Nat : b <= c => \E f \in [SUBSET (1 .. b) -> M] : Is(f, b)}
<1>1. 0 \in T
  <2> DEFINE f == [s \in SUBSET (1 .. 0) |-> a]
  <2>1. f \in [SUBSET (1 .. 0) -> M]
    OBVIOUS
  <2>2. 1 .. 0 = {}
    OBVIOUS
  <2>3. f[{}] = a /\ \A s \in SUBSET (1 .. 0) : s = {}
    BY <2>2
  <2> HIDE DEF f
  <2>4. Is(f, 0)
    BY <2>3 DEF IsFold
  <2> QED
    BY <2>1, <2>4
<1>2. ASSUME NEW b \in Nat, b \in T
      PROVE  b + 1 \in T
  <2> SUFFICES ASSUME b + 1 <= c
               PROVE  \E f \in [SUBSET (1 .. b + 1) -> M] : Is(f, b + 1)
    <3>1. b + 1 \in Nat
      OBVIOUS
    <3> QED
      BY <3>1
  <2>1. b <= c
    OBVIOUS
  <2>2. PICK f \in [SUBSET (1 .. b) -> M] : Is(f, b)
    BY <1>2, <2>1
  <2> DEFINE h == [s \in SUBSET (1 .. b + 1) |->
                     IF b + 1 \in s THEN g[<<f[s \ {b + 1}], b + 1>>] ELSE f[s]]
  <2>3. b + 1 \in 1 .. c
    OBVIOUS
  <2>4. ASSUME NEW s \in SUBSET (1 .. b + 1)
        PROVE  /\ s \ {b + 1} \in SUBSET (1 .. b)
               /\ b + 1 \notin s => s \in SUBSET (1 .. b)
               /\ h[s] \in M
    <3>1. s \ {b + 1} \in SUBSET (1 .. b)
      OBVIOUS
    <3>2. b + 1 \notin s => s \in SUBSET (1 .. b)
      BY <3>1
    <3>3. CASE b + 1 \in s
      <4>1. f[s \ {b + 1}] \in M
        BY <2>2, <3>1
      <4>2. g[<<f[s \ {b + 1}], b + 1>>] \in M
        BY <2>3, <4>1
      <4> QED
        BY <3>1, <3>2, <3>3, <4>2
    <3>4. CASE b + 1 \notin s
      BY <2>2, <3>1, <3>2, <3>4
    <3> QED
      BY <3>3, <3>4
  <2>5. h \in [SUBSET (1 .. b + 1) -> M]
    BY <2>4
  <2>6. h[{}] = a
    <3>1. {} \in SUBSET (1 .. b + 1) /\ b + 1 \notin {}
      OBVIOUS
    <3> QED
      BY <2>2, <3>1 DEF IsFold
  <2>7. ASSUME NEW s \in SUBSET (1 .. b + 1), s # {}
        PROVE  h[s] = g[<<h[s \ {Max(s)}], Max(s)>>]
    <3>1. CASE b + 1 \in s
      <4>1. \A y \in s : b + 1 >= y
        OBVIOUS
      <4>2. Max(s) = b + 1
        BY <3>1, <4>1, MaxIs
      <4>3. s \ {b + 1} \in SUBSET (1 .. b + 1) /\ b + 1 \notin s \ {b + 1}
        OBVIOUS
      <4>4. h[s \ {b + 1}] = f[s \ {b + 1}]
        BY <4>3
      <4> QED
        BY <3>1, <4>2, <4>4
    <3>2. CASE b + 1 \notin s
      <4>1. s \in SUBSET (1 .. b)
        BY <2>4, <3>2
      <4>2. h[s] = f[s]
        BY <3>2
      <4>3. s \ {Max(s)} \in SUBSET (1 .. b + 1) /\ b + 1 \notin s \ {Max(s)}
        BY <3>2
      <4>4. h[s \ {Max(s)}] = f[s \ {Max(s)}]
        BY <4>3
      <4> QED
        BY <2>2, <2>7, <4>1, <4>2, <4>4 DEF IsFold
    <3> QED
      BY <3>1, <3>2
  <2> HIDE DEF h
  <2>8. Is(h, b + 1)
    BY <2>6, <2>7 DEF IsFold
  <2> QED
    BY <2>5, <2>8
<1>3. c \in T
  <2> HIDE DEF T
  <2>1. Nat \subseteq T
    BY <1>1, <1>2, SetInduction
  <2> QED
    BY <2>1
<1> QED
  <2>1. c <= c
    OBVIOUS
  <2> QED
    BY <1>3, <2>1

(* Any function that satisfies the equation of the fold passes through the  *)
(* same values.                                                             *)
LEMMA FoldSteps ==
    ASSUME NEW M, NEW a \in M, NEW c \in Nat, NEW g \in [M \X (1 .. c) -> M],
           NEW it, FoldsIn(it, M, a, c, g)
    PROVE  PassesThrough(it, M, a, c, g)
<1>1. 1 .. 0 = {} /\ it[{}] = a
  BY DEF FoldsIn
<1>2. ASSUME NEW j \in 1 .. c, it[1 .. j - 1] \in M
      PROVE  it[1 .. j] = g[<<it[1 .. j - 1], j>>] /\ it[1 .. j] \in M
  <2>1. 1 .. j \in SUBSET (1 .. c) /\ 1 .. j # {} /\ j \in 1 .. j /\ 1 .. j \in SUBSET Int
    OBVIOUS
  <2>2. \A y \in 1 .. j : j >= y
    OBVIOUS
  <2>3. Max(1 .. j) = j
    BY <2>1, <2>2, MaxIs
  <2>4. (1 .. j) \ {j} = 1 .. j - 1
    OBVIOUS
  <2>5. it[1 .. j] = g[<<it[1 .. j - 1], j>>]
    BY <1>2, <2>1, <2>3, <2>4 DEF FoldsIn
  <2> QED
    BY <1>2, <2>5
<1> DEFINE T == {j \in Nat : j <= c => it[1 .. j] \in M}
<1>3. 0 \in T
  BY <1>1
<1>4. ASSUME NEW j \in Nat, j \in T
      PROVE  j + 1 \in T
  <2> SUFFICES ASSUME j + 1 <= c PROVE it[1 .. j + 1] \in M
    OBVIOUS
  <2>1. j + 1 \in 1 .. c /\ (j + 1) - 1 = j /\ j <= c
    OBVIOUS
  <2>2. it[1 .. (j + 1) - 1] \in M
    BY <1>4, <2>1
  <2> QED
    BY <1>2, <2>1, <2>2
<1>5. ASSUME NEW j \in 0 .. c
      PROVE  it[1 .. j] \in M
  <2> HIDE DEF T
  <2>1. Nat \subseteq T
    BY <1>3, <1>4, SetInduction
  <2> QED
    BY <2>1 DEF T
<1>6. ASSUME NEW j \in 1 .. c
      PROVE  it[1 .. j] = g[<<it[1 .. j - 1], j>>]
  <2>1. j - 1 \in 0 .. c
    OBVIOUS
  <2> QED
    BY <1>2, <1>5, <2>1
<1> QED
  BY <1>1, <1>5, <1>6 DEF PassesThrough

LEMMA SequenceExists ==
    ASSUME NEW M, NEW a \in M, NEW c \in Nat, NEW g \in [M \X (1 .. c) -> M]
    PROVE  \E h \in [0 .. c -> M] : AreSteps(h, a, c, g)
<1>1. PICK f \in [SUBSET (1 .. c) -> M] : IsFold(f, a, c, g)
  BY FoldExists
<1> DEFINE h == [j \in 0 .. c |-> f[1 .. j]]
<1>2. /\ f[1 .. 0] = a
      /\ \A j \in 0 .. c : f[1 .. j] \in M
      /\ \A j \in 1 .. c : f[1 .. j] = g[<<f[1 .. j - 1], j>>]
  <2>1. /\ f[{}] = a
        /\ \A s \in SUBSET (1 .. c) : s # {} /\ f[s \ {Max(s)}] \in M
              => f[s] = g[<<f[s \ {Max(s)}], Max(s)>>]
    BY <1>1 DEF IsFold
  <2>2. FoldsIn(f, M, a, c, g)
    BY <2>1 DEF FoldsIn
  <2>3. PassesThrough(f, M, a, c, g)
    BY <2>2, FoldSteps
  <2> QED
    BY <2>3 DEF PassesThrough
<1>3. h \in [0 .. c -> M] /\ h[0] = a
  BY <1>2
<1>4. ASSUME NEW j \in 1 .. c
      PROVE  h[j] = g[<<h[j - 1], j>>]
  <2>1. j - 1 \in 0 .. c /\ j \in 0 .. c
    OBVIOUS
  <2> QED
    BY <1>2, <2>1
<1> HIDE DEF h
<1> QED
  BY <1>3, <1>4 DEF AreSteps

---------------------------------------------------------------------------
(* The shape of a map of capacity c.                                        *)
Word == Seq(Int)
Entry == [key : Word, val : Int]
MapOf(c) == [capacity : {c}, size : Nat, items : [0 .. c - 1 -> Seq(Entry)]]

LEMMA HashType ==
    ASSUME NEW w \in Word
    PROVE  Hash(w) \in Int
<1> DEFINE c == Len(w)
           d == 2 ^ HashBits
           M == 0 .. d - 1
           op(x, k) == (w[k] + 65599 * x) % d
           g == [x \in M \X (1 .. c) |-> op(x[1], x[2])]
           Is(it) == it = [s \in SUBSET DOMAIN w |->
                              IF s = {} THEN 0 ELSE op(it[s \ {Max(s)}], Max(s))]
           f == CHOOSE it : Is(it)
<1>1. Hash(w) = f[DOMAIN w]
  BY DEF Hash, FoldLeft, MapThenFoldSet
<1>2. c \in Nat /\ DOMAIN w = 1 .. c /\ (\A k \in 1 .. c : w[k] \in Int) /\ d \in Nat \ {0}
  BY SIMapAssumption DEF Word
<1> HIDE DEF c, d
<1>3. 0 \in M /\ M \subseteq Int
  BY <1>2
<1>4. ASSUME NEW x \in M, NEW k \in 1 .. c
      PROVE  op(x, k) \in M /\ g[<<x, k>>] = op(x, k)
  <2>1. w[k] \in Int /\ x \in Int
    BY <1>2
  <2>2. w[k] + 65599 * x \in Int
    BY <2>1
  <2>3. op(x, k) \in M
    BY <1>2, <2>2
  <2> QED
    BY <2>3
<1> HIDE DEF M, op
<1>5. g \in [M \X (1 .. c) -> M]
  <2>1. ASSUME NEW x \in M \X (1 .. c) PROVE op(x[1], x[2]) \in M
    BY <1>4
  <2> QED
    BY <2>1
<1> HIDE DEF g
<1>6. \E it : Is(it)
  <2>1. PICK it \in [SUBSET (1 .. c) -> M] : IsFold(it, 0, c, g)
    BY <1>2, <1>3, <1>5, FoldExists
  <2>2. ASSUME NEW s \in SUBSET (1 .. c)
        PROVE  it[s] = IF s = {} THEN 0 ELSE op(it[s \ {Max(s)}], Max(s))
    <3>1. CASE s = {}
      BY <2>1, <3>1 DEF IsFold
    <3>2. CASE s # {}
      <4>1. Max(s) \in 1 .. c /\ it[s \ {Max(s)}] \in M
        BY <1>2, <2>1, <3>2, MaxIn
      <4>2. it[s] = g[<<it[s \ {Max(s)}], Max(s)>>]
        BY <2>1, <3>2 DEF IsFold
      <4> QED
        BY <1>4, <3>2, <4>1, <4>2
    <3> QED
      BY <3>1, <3>2
  <2>3. Is(it)
    BY <1>2, <2>2
  <2> QED
    BY <2>3
<1>7. Is(f)
  BY <1>6
<1> HIDE DEF f
<1>8. FoldsIn(f, M, 0, c, g)
  <2>1. f[{}] = 0
    BY <1>2, <1>7
  <2>2. ASSUME NEW s \in SUBSET (1 .. c), s # {}, f[s \ {Max(s)}] \in M
        PROVE  f[s] = g[<<f[s \ {Max(s)}], Max(s)>>]
    <3>1. Max(s) \in 1 .. c
      BY <1>2, <2>2, MaxIn
    <3>2. f[s] = op(f[s \ {Max(s)}], Max(s))
      BY <1>2, <1>7, <2>2
    <3> QED
      BY <1>4, <2>2, <3>1, <3>2
  <2> QED
    BY <2>1, <2>2 DEF FoldsIn
<1>9. PassesThrough(f, M, 0, c, g)
  BY <1>2, <1>3, <1>5, <1>8, FoldSteps
<1>10. f[1 .. c] \in M
  BY <1>2, <1>9 DEF PassesThrough
<1> QED
  BY <1>1, <1>2, <1>3, <1>10

(* off_ is the index of a bucket.                                           *)
LEMMA OffType ==
    ASSUME NEW c \in Nat \ {0}, NEW m, m.capacity = c, NEW w \in Word
    PROVE  Off(m, w) \in 0 .. c - 1
<1>1. Hash(w) \in Int
  BY HashType
<1> QED
  BY <1>1 DEF Off

---------------------------------------------------------------------------
(* The pairs of the buckets 0 .. b - 1, for every b.                        *)
IsUpTo(F, m) ==
    /\ F \in [0 .. m.capacity -> Seq(Entry)]
    /\ F[0] = << >>
    /\ \A b \in 1 .. m.capacity : F[b] = F[b - 1] \o m.items[b - 1]
UpTo(m) == CHOOSE F : IsUpTo(F, m)

LEMMA UpToIs ==
    ASSUME NEW c \in Nat \ {0}, NEW m \in MapOf(c)
    PROVE  IsUpTo(UpTo(m), m)
<1>1. m.capacity = c /\ m.items \in [0 .. c - 1 -> Seq(Entry)]
  BY DEF MapOf
<1> DEFINE g == [x \in Seq(Entry) \X (1 .. c) |-> x[1] \o m.items[x[2] - 1]]
<1>2. ASSUME NEW x \in Seq(Entry), NEW b \in 1 .. c
      PROVE  g[<<x, b>>] = x \o m.items[b - 1] /\ x \o m.items[b - 1] \in Seq(Entry)
  <2>1. b - 1 \in 0 .. c - 1
    OBVIOUS
  <2>2. m.items[b - 1] \in Seq(Entry)
    BY <1>1, <2>1
  <2>3. x \o m.items[b - 1] \in Seq(Entry)
    BY <2>2
  <2>4. <<x, b>> \in Seq(Entry) \X (1 .. c) /\ <<x, b>>[1] = x /\ <<x, b>>[2] = b
    OBVIOUS
  <2> QED
    BY <2>3, <2>4
<1>3. g \in [Seq(Entry) \X (1 .. c) -> Seq(Entry)]
  BY <1>2
<1>4. << >> \in Seq(Entry)
  OBVIOUS
<1> HIDE DEF g
<1>5. PICK F \in [0 .. c -> Seq(Entry)] : AreSteps(F, << >>, c, g)
  BY <1>3, <1>4, SequenceExists
<1>6. ASSUME NEW b \in 1 .. c
      PROVE  F[b] = F[b - 1] \o m.items[b - 1]
  <2>1. b - 1 \in 0 .. c
    OBVIOUS
  <2> QED
    BY <1>2, <1>5, <2>1 DEF AreSteps
<1>7. IsUpTo(F, m)
  BY <1>1, <1>5, <1>6 DEF IsUpTo, AreSteps
<1> QED
  BY <1>7 DEF UpTo

LEMMA PairsAre ==
    ASSUME NEW c \in Nat \ {0}, NEW m \in MapOf(c)
    PROVE  Pairs(m) = UpTo(m)[c]
<1> DEFINE q == [b \in 1 .. c |-> m.items[b - 1]]
           Is(h) == h = [b \in 1 .. c |-> IF b = 1 THEN q[b] ELSE h[b - 1] \o q[b]]
           f == CHOOSE h : Is(h)
           F == UpTo(m)
<1>1. m.capacity = c /\ m.items \in [0 .. c - 1 -> Seq(Entry)] /\ IsUpTo(F, m)
  BY UpToIs DEF MapOf
<1>2. /\ F \in [0 .. c -> Seq(Entry)] /\ F[0] = << >>
      /\ \A b \in 1 .. c : F[b] = F[b - 1] \o m.items[b - 1]
  BY <1>1 DEF IsUpTo
<1> HIDE DEF F
<1>3. Len(q) = c
  <2>1. \A b \in 1 .. c : q[b] \in Seq(Entry)
    BY <1>1
  <2>2. q \in Seq(Seq(Entry))
    BY <2>1
  <2> QED
    BY <2>2
<1>4. Pairs(m) = f[c]
  BY <1>1, <1>3 DEF Pairs, FlattenSeq
<1>5. ASSUME NEW b \in 1 .. c
      PROVE  F[b] = IF b = 1 THEN q[b] ELSE F[b - 1] \o q[b]
  <2>1. b - 1 \in 0 .. c - 1
    OBVIOUS
  <2>2. m.items[b - 1] \in Seq(Entry)
    BY <1>1, <2>1
  <2>3. << >> \o m.items[b - 1] = m.items[b - 1]
    BY <2>2
  <2>4. q[b] = m.items[b - 1] /\ F[b] = F[b - 1] \o m.items[b - 1]
    BY <1>2
  <2>5. b = 1 => F[b - 1] = << >>
    BY <1>2
  <2> HIDE DEF q
  <2> QED
    BY <2>3, <2>4, <2>5
<1>6. \E h : Is(h)
  <2> DEFINE h == [b \in 1 .. c |-> F[b]]
  <2>1. ASSUME NEW b \in 1 .. c
        PROVE  h[b] = IF b = 1 THEN q[b] ELSE h[b - 1] \o q[b]
    <3>1. b # 1 => b - 1 \in 1 .. c
      OBVIOUS
    <3> HIDE DEF q
    <3> QED
      BY <1>5, <3>1
  <2>2. h = [b \in 1 .. c |-> IF b = 1 THEN q[b] ELSE h[b - 1] \o q[b]]
    BY <2>1
  <2> QED
    BY <2>2
<1>7. Is(f)
  BY <1>6
<1> HIDE DEF f, q
<1> DEFINE T == {b \in Nat : b \in 1 .. c => f[b] = F[b]}
<1>8. 0 \in T
  OBVIOUS
<1>9. ASSUME NEW b \in Nat, b \in T
      PROVE  b + 1 \in T
  <2> SUFFICES ASSUME b + 1 \in 1 .. c PROVE f[b + 1] = F[b + 1]
    OBVIOUS
  <2>1. f[b + 1] = IF b + 1 = 1 THEN q[b + 1] ELSE f[(b + 1) - 1] \o q[b + 1]
    BY <1>7
  <2>2. (b + 1) - 1 = b /\ (b + 1 # 1 => b \in 1 .. c)
    OBVIOUS
  <2>3. F[b + 1] = IF b + 1 = 1 THEN q[b + 1] ELSE F[(b + 1) - 1] \o q[b + 1]
    BY <1>5
  <2> QED
    BY <1>9, <2>1, <2>2, <2>3
<1>10. c \in T
  <2> HIDE DEF T
  <2> QED
    BY <1>8, <1>9, SetInduction
<1> QED
  BY <1>4, <1>10 DEF F

---------------------------------------------------------------------------
(* Setting a key, when there is room.  Every pair is where its hash says,   *)
(* and no two in a bucket are of one key.                                   *)
Filed(m) ==
    \A i \in 0 .. m.capacity - 1 : \A p \in 1 .. Len(m.items[i]) :
       /\ Off(m, m.items[i][p].key) = i
       /\ \A q \in 1 .. Len(m.items[i]) :
             m.items[i][p].key = m.items[i][q].key => p = q
Whole(c) == {m \in MapOf(c) : Filed(m) /\ m.size = Len(Pairs(m))}

LEMMA MapIs ==
    ASSUME NEW c \in Nat \ {0}, NEW m \in MapOf(c)
    PROVE  /\ m.capacity = c /\ m.size \in Nat
           /\ \A i \in 0 .. c - 1 : /\ m.items[i] \in Seq(Entry) /\ Len(m.items[i]) \in Nat
                                    /\ DOMAIN m.items[i] = 1 .. Len(m.items[i])
           /\ \A i \in 0 .. c - 1 : \A p \in 1 .. Len(m.items[i]) :
                 /\ m.items[i][p] \in Entry
                 /\ m.items[i][p].key \in Word /\ m.items[i][p].val \in Int
<1>1. m.capacity = c /\ m.size \in Nat /\ m.items \in [0 .. c - 1 -> Seq(Entry)]
  BY DEF MapOf
<1>2. ASSUME NEW i \in 0 .. c - 1
      PROVE  /\ m.items[i] \in Seq(Entry) /\ Len(m.items[i]) \in Nat
             /\ DOMAIN m.items[i] = 1 .. Len(m.items[i])
             /\ \A p \in 1 .. Len(m.items[i]) : m.items[i][p] \in Entry
  <2>1. m.items[i] \in Seq(Entry)
    BY <1>1
  <2> QED
    BY <2>1
<1>3. \A e \in Entry : e.key \in Word /\ e.val \in Int
  BY DEF Entry
<1> QED
  BY <1>1, <1>2, <1>3

(* What a key is found with.                                                *)
LEMMA Finds ==
    ASSUME NEW c \in Nat \ {0}, NEW m \in MapOf(c), NEW w \in Word
    PROVE  /\ Off(m, w) \in 0 .. c - 1
           /\ HasKey(m, w) <=> \E p \in 1 .. Len(m.items[Off(m, w)]) :
                                  m.items[Off(m, w)][p].key = w
           /\ HasKey(m, w) => \E p \in 1 .. Len(m.items[Off(m, w)]) :
                                  /\ m.items[Off(m, w)][p].key = w
                                  /\ Get(m, w) = m.items[Off(m, w)][p].val
<1>1. Off(m, w) \in 0 .. c - 1
  BY OffType, MapIs
<1>2. DOMAIN m.items[Off(m, w)] = 1 .. Len(m.items[Off(m, w)])
  BY <1>1, MapIs
<1> QED
  BY <1>1, <1>2 DEF HasKey, Get, Positions

LEMMA FindsPair ==
    ASSUME NEW c \in Nat \ {0}, NEW m \in MapOf(c), Filed(m),
           NEW i \in 0 .. c - 1, NEW p \in 1 .. Len(m.items[i])
    PROVE  LET w == m.items[i][p].key
           IN  w \in Word /\ Off(m, w) = i /\ HasKey(m, w) /\ Get(m, w) = m.items[i][p].val
<1> DEFINE w == m.items[i][p].key
<1>1. w \in Word /\ m.capacity = c
  BY MapIs
<1>2. Off(m, w) = i
  BY <1>1 DEF Filed
<1>3. HasKey(m, w)
  BY <1>1, <1>2, Finds
<1> HIDE DEF w
<1>4. PICK q \in 1 .. Len(m.items[i]) : m.items[i][q].key = w /\ Get(m, w) = m.items[i][q].val
  BY <1>1, <1>2, <1>3, Finds
<1>5. q = p
  BY <1>1, <1>4 DEF Filed, w
<1> QED
  BY <1>1, <1>2, <1>3, <1>4, <1>5 DEF w

(* r has the buckets of m, but for bucket o, in which w has the value v.     *)
Placed(c, r, m, w, v, o) ==
    /\ r \in MapOf(c)
    /\ r.size = m.size + (IF HasKey(m, w) THEN 0 ELSE 1)
    /\ \A i \in 0 .. c - 1 : i # o => r.items[i] = m.items[i]
    /\ Len(r.items[o]) = Len(m.items[o]) + (IF HasKey(m, w) THEN 0 ELSE 1)
    /\ \A p \in 1 .. Len(m.items[o]) :
          /\ r.items[o][p].key = m.items[o][p].key
          /\ r.items[o][p].val = IF m.items[o][p].key = w THEN v ELSE m.items[o][p].val
    /\ ~HasKey(m, w) => /\ r.items[o][Len(m.items[o]) + 1].key = w
                        /\ r.items[o][Len(m.items[o]) + 1].val = v

(* What Put does to the buckets.                                            *)
LEMMA PutPlaces ==
    ASSUME NEW c \in Nat \ {0}, NEW m \in MapOf(c), NEW w \in Word, NEW v \in Int,
           NEW r, r = Put(m, w, v), NEW o, o = Off(m, w)
    PROVE  Placed(c, r, m, w, v, o)
<1> DEFINE pair == [key |-> w, val |-> v]
           old == m.items[o]
           over == [p \in DOMAIN old |-> IF p \in Positions(m, w) THEN pair ELSE old[p]]
           longer == Append(old, pair)
<1>1. pair \in Entry /\ pair.key = w /\ pair.val = v
  BY DEF Entry
<1>2. o \in 0 .. c - 1 /\ old \in Seq(Entry) /\ DOMAIN old = 1 .. Len(old) /\ Len(old) \in Nat
  <2>1. o \in 0 .. c - 1
    BY Finds
  <2>2. \A i \in 0 .. c - 1 : /\ m.items[i] \in Seq(Entry) /\ Len(m.items[i]) \in Nat
                              /\ DOMAIN m.items[i] = 1 .. Len(m.items[i])
    BY MapIs
  <2> QED
    BY <2>1, <2>2
<1>3. m.items \in [0 .. c - 1 -> Seq(Entry)] /\ m.capacity = c /\ m.size \in Nat
  BY DEF MapOf
<1>4. CASE HasKey(m, w)
  <2>1. r = [m EXCEPT !.items[o] = over]
    BY <1>4 DEF Put
  <2>2. \A p \in 1 .. Len(old) : over[p] = IF p \in Positions(m, w) THEN pair ELSE old[p]
    BY <1>2
  <2>3. \A p \in 1 .. Len(old) : old[p] \in Entry
    BY <1>2
  <2>4. over \in [1 .. Len(old) -> Entry]
    BY <1>1, <1>2, <2>3
  <2>5. over \in Seq(Entry) /\ Len(over) = Len(old)
    <3> HIDE DEF over, old, pair
    <3> QED
      BY <1>2, <2>4
  <2>6. \A p \in 1 .. Len(old) : p \in Positions(m, w) <=> old[p].key = w
    BY <1>2 DEF Positions
  <2>7. \A p \in 1 .. Len(old) : /\ over[p].key = old[p].key
                                 /\ over[p].val = IF old[p].key = w THEN v ELSE old[p].val
    <3> HIDE DEF over, old, pair
    <3> QED
      BY <1>1, <2>2, <2>6
  <2> HIDE DEF over
  <2>8. r.items = [m.items EXCEPT ![o] = over] /\ r.size = m.size /\ r \in MapOf(c)
    <3> DEFINE its == [m.items EXCEPT ![o] = over]
    <3>1. its \in [0 .. c - 1 -> Seq(Entry)]
      BY <1>2, <1>3, <2>5
    <3>2. r = [m EXCEPT !.items = its]
      BY <2>1
    <3> HIDE DEF its
    <3>3. r \in MapOf(c) /\ r.items = its /\ r.size = m.size
      BY <3>1, <3>2 DEF MapOf
    <3> QED
      BY <3>3 DEF its
  <2>9. r.items[o] = over /\ \A i \in 0 .. c - 1 : i # o => r.items[i] = m.items[i]
    BY <1>2, <1>3, <2>8
  <2> QED
    BY <1>2, <1>3, <1>4, <2>5, <2>7, <2>8, <2>9 DEF Placed
<1>5. CASE ~HasKey(m, w)
  <2>1. r = [m EXCEPT !.items[o] = longer, !.size = m.size + 1]
    BY <1>5 DEF Put, PushBack
  <2>2. /\ longer \in Seq(Entry) /\ Len(longer) = Len(old) + 1
        /\ longer[Len(old) + 1] = pair
        /\ \A p \in 1 .. Len(old) : longer[p] = old[p]
    <3> HIDE DEF pair, old
    <3> QED
      BY <1>1, <1>2
  <2>3. \A p \in 1 .. Len(old) : old[p].key # w
    BY <1>5, Finds
  <2> HIDE DEF longer
  <2>4. r.items = [m.items EXCEPT ![o] = longer] /\ r.size = m.size + 1 /\ r \in MapOf(c)
    <3> DEFINE its == [m.items EXCEPT ![o] = longer]
    <3>1. its \in [0 .. c - 1 -> Seq(Entry)]
      BY <1>2, <1>3, <2>2
    <3>2. r = [m EXCEPT !.items = its, !.size = m.size + 1]
      BY <2>1
    <3> HIDE DEF its
    <3>3. r.items = its /\ r.size = m.size + 1 /\ r.capacity = c
      BY <1>3, <3>1, <3>2 DEF MapOf
    <3>4. r \in MapOf(c)
      <4>1. m.size + 1 \in Nat
        BY <1>3
      <4>2. r = [capacity |-> c, size |-> m.size + 1, items |-> its]
        BY <1>3, <3>2 DEF MapOf
      <4> QED
        BY <3>1, <4>1, <4>2 DEF MapOf
    <3> QED
      BY <3>3, <3>4 DEF its
  <2>5. r.items[o] = longer /\ \A i \in 0 .. c - 1 : i # o => r.items[i] = m.items[i]
    BY <1>2, <1>3, <2>4
  <2> QED
    BY <1>1, <1>2, <1>3, <1>5, <2>2, <2>3, <2>4, <2>5 DEF Placed
<1> QED
  BY <1>4, <1>5

LEMMA PutFiled ==
    ASSUME NEW c \in Nat \ {0}, NEW m \in MapOf(c), Filed(m), NEW w \in Word, NEW v \in Int,
           NEW r, NEW o, o = Off(m, w), Placed(c, r, m, w, v, o)
    PROVE  Filed(r)
<1>0. /\ r \in MapOf(c)
      /\ \A i \in 0 .. c - 1 : i # o => r.items[i] = m.items[i]
      /\ Len(r.items[o]) = Len(m.items[o]) + (IF HasKey(m, w) THEN 0 ELSE 1)
      /\ \A p \in 1 .. Len(m.items[o]) : r.items[o][p].key = m.items[o][p].key
      /\ ~HasKey(m, w) => r.items[o][Len(m.items[o]) + 1].key = w
  BY DEF Placed
<1>1. m.capacity = c /\ r.capacity = c /\ o \in 0 .. c - 1
  BY <1>0, MapIs, Finds
<1>2. Len(m.items[o]) \in Nat
  BY <1>1, MapIs
<1>3. \A u : Off(r, u) = Off(m, u)
  BY <1>1 DEF Off
<1>5. ~HasKey(m, w) => \A p \in 1 .. Len(m.items[o]) : m.items[o][p].key # w
  BY Finds
<1>6. ASSUME NEW i \in 0 .. c - 1, NEW p \in 1 .. Len(r.items[i])
      PROVE  /\ Off(r, r.items[i][p].key) = i
             /\ \A q \in 1 .. Len(r.items[i]) : r.items[i][p].key = r.items[i][q].key => p = q
  <2>1. CASE i # o
    BY <1>0, <1>1, <1>3, <2>1 DEF Filed
  <2>2. CASE i = o /\ HasKey(m, w)
    BY <1>0, <1>1, <1>2, <1>3, <2>2 DEF Filed
  <2>3. CASE i = o /\ ~HasKey(m, w)
    <3>1. \A q \in 1 .. Len(r.items[o]) : q \in 1 .. Len(m.items[o]) \/ q = Len(m.items[o]) + 1
      BY <1>0, <1>2, <2>3
    <3>2. \A q \in 1 .. Len(m.items[o]) : r.items[o][q].key = m.items[o][q].key
      BY <1>0
    <3>3. r.items[o][Len(m.items[o]) + 1].key = w
      BY <1>0, <2>3
    <3>4. \A q \in 1 .. Len(m.items[o]) :
             /\ Off(m, m.items[o][q].key) = o /\ m.items[o][q].key # w
             /\ \A q2 \in 1 .. Len(m.items[o]) : m.items[o][q].key = m.items[o][q2].key => q = q2
      BY <1>1, <1>5, <2>3 DEF Filed
    <3>5. p \in 1 .. Len(r.items[o])
      BY <2>3
    <3>6. CASE p = Len(m.items[o]) + 1
      <4>1. Off(r, r.items[o][p].key) = o
        BY <1>3, <3>3, <3>6
      <4>2. \A q \in 1 .. Len(r.items[o]) : r.items[o][p].key = r.items[o][q].key => p = q
        BY <3>1, <3>2, <3>3, <3>4, <3>6
      <4> QED
        BY <2>3, <4>1, <4>2
    <3>7. CASE p \in 1 .. Len(m.items[o])
      <4>1. Off(r, r.items[o][p].key) = o
        BY <1>3, <3>2, <3>4, <3>7
      <4>2. \A q \in 1 .. Len(r.items[o]) : r.items[o][p].key = r.items[o][q].key => p = q
        BY <3>1, <3>2, <3>3, <3>4, <3>7
      <4> QED
        BY <2>3, <4>1, <4>2
    <3> QED
      BY <3>1, <3>5, <3>6, <3>7
  <2> QED
    BY <2>1, <2>2, <2>3
<1> QED
  BY <1>1, <1>6 DEF Filed

(* r finds every word as m does, but for w, which it finds with v.          *)
FindsAlso(r, m, w, v) ==
    /\ HasKey(r, w) /\ Get(r, w) = v
    /\ \A u \in Word \ {w} : /\ HasKey(r, u) <=> HasKey(m, u)
                             /\ HasKey(m, u) => Get(r, u) = Get(m, u)

LEMMA PutFinds ==
    ASSUME NEW c \in Nat \ {0}, NEW m \in MapOf(c), Filed(m), NEW w \in Word, NEW v \in Int,
           NEW r, NEW o, o = Off(m, w), Placed(c, r, m, w, v, o)
    PROVE  FindsAlso(r, m, w, v)
<1>0. /\ r \in MapOf(c)
      /\ \A i \in 0 .. c - 1 : i # o => r.items[i] = m.items[i]
      /\ Len(r.items[o]) = Len(m.items[o]) + (IF HasKey(m, w) THEN 0 ELSE 1)
      /\ \A p \in 1 .. Len(m.items[o]) :
            /\ r.items[o][p].key = m.items[o][p].key
            /\ r.items[o][p].val = IF m.items[o][p].key = w THEN v ELSE m.items[o][p].val
      /\ ~HasKey(m, w) => /\ r.items[o][Len(m.items[o]) + 1].key = w
                          /\ r.items[o][Len(m.items[o]) + 1].val = v
  BY DEF Placed
<1>1. m.capacity = c /\ r.capacity = c /\ o \in 0 .. c - 1 /\ Filed(r)
  BY <1>0, MapIs, Finds, PutFiled
<1>2. Len(m.items[o]) \in Nat
  BY <1>1, MapIs
<1>3. \A u : Off(r, u) = Off(m, u)
  BY <1>1 DEF Off
<1>4. \A i \in 0 .. c - 1 : \A p \in 1 .. Len(r.items[i]) :
         HasKey(r, r.items[i][p].key) /\ Get(r, r.items[i][p].key) = r.items[i][p].val
  BY <1>0, <1>1, FindsPair
<1>5. HasKey(r, w) /\ Get(r, w) = v
  <2>1. CASE HasKey(m, w)
    <3>1. PICK p \in 1 .. Len(m.items[o]) : m.items[o][p].key = w
      BY <1>1, <2>1, Finds
    <3> QED
      BY <1>0, <1>1, <1>2, <1>4, <2>1, <3>1
  <2>2. CASE ~HasKey(m, w)
    <3>1. Len(m.items[o]) + 1 \in 1 .. Len(r.items[o])
      BY <1>0, <1>2, <2>2
    <3>2. r.items[o][Len(m.items[o]) + 1].key = w /\ r.items[o][Len(m.items[o]) + 1].val = v
      BY <1>0, <2>2
    <3> QED
      BY <1>1, <1>4, <3>1, <3>2
  <2> QED
    BY <2>1, <2>2
<1>6. ASSUME NEW u \in Word \ {w}
      PROVE  /\ HasKey(r, u) <=> HasKey(m, u)
             /\ HasKey(m, u) => Get(r, u) = Get(m, u)
  <2> DEFINE i == Off(m, u)
  <2>1. i \in 0 .. c - 1 /\ Off(r, u) = i
    BY <1>3, Finds
  <2>2. HasKey(m, u) => \E p \in 1 .. Len(m.items[i]) :
                            m.items[i][p].key = u /\ Get(m, u) = m.items[i][p].val
    BY Finds
  <2>3. HasKey(m, u) <=> \E p \in 1 .. Len(m.items[i]) : m.items[i][p].key = u
    BY Finds
  <2>4. HasKey(r, u) <=> \E p \in 1 .. Len(r.items[i]) : r.items[i][p].key = u
    <3>1. HasKey(r, u) <=> \E p \in 1 .. Len(r.items[Off(r, u)]) : r.items[Off(r, u)][p].key = u
      BY <1>0, Finds
    <3> QED
      BY <2>1, <3>1
  <2> HIDE DEF i
  <2>5. ASSUME HasKey(m, u)
        PROVE  HasKey(r, u) /\ Get(r, u) = Get(m, u)
    <3>1. PICK p \in 1 .. Len(m.items[i]) : m.items[i][p].key = u /\ Get(m, u) = m.items[i][p].val
      BY <2>2, <2>5
    <3>2. /\ p \in 1 .. Len(r.items[i])
          /\ r.items[i][p].key = u /\ r.items[i][p].val = m.items[i][p].val
      <4>1. CASE i = o
        <5>0. Len(r.items[o]) = Len(m.items[o]) \/ Len(r.items[o]) = Len(m.items[o]) + 1
          <6>1. Len(r.items[o]) = Len(m.items[o]) + (IF HasKey(m, w) THEN 0 ELSE 1)
            BY <1>0
          <6>2. CASE HasKey(m, w)
            BY <1>2, <6>1, <6>2
          <6>3. CASE ~HasKey(m, w)
            BY <1>2, <6>1, <6>3
          <6> QED
            BY <6>2, <6>3
        <5>1. Len(r.items[o]) >= Len(m.items[o]) /\ Len(r.items[o]) \in Nat
          BY <1>2, <5>0
        <5>2. p \in 1 .. Len(m.items[o]) /\ p \in 1 .. Len(r.items[o])
          BY <1>2, <4>1, <5>1
        <5>3. r.items[o][p].key = u /\ u # w
          BY <1>0, <3>1, <4>1, <5>2
        <5> QED
          BY <1>0, <3>1, <4>1, <5>2, <5>3
      <4>2. CASE i # o
        BY <1>0, <2>1, <3>1, <4>2
      <4> QED
        BY <4>1, <4>2
    <3> QED
      BY <1>4, <2>1, <3>1, <3>2
  <2>6. ASSUME HasKey(r, u)
        PROVE  HasKey(m, u)
    <3>1. PICK p \in 1 .. Len(r.items[i]) : r.items[i][p].key = u
      BY <2>4, <2>6
    <3>2. CASE i # o
      BY <1>0, <2>1, <2>3, <3>1, <3>2
    <3>3. CASE i = o
      <4>1. p \in 1 .. Len(m.items[i])
        <5>1. p \in 1 .. Len(r.items[o])
          BY <3>3
        <5>2. CASE HasKey(m, w)
          BY <1>0, <3>3, <5>1, <5>2
        <5>3. CASE ~HasKey(m, w)
          <6>1. Len(r.items[o]) = Len(m.items[o]) + 1
            BY <1>0, <5>3
          <6>2. p # Len(m.items[o]) + 1
            BY <1>0, <3>1, <3>3, <5>3
          <6> QED
            BY <1>2, <3>3, <5>1, <6>1, <6>2
        <5> QED
          BY <5>2, <5>3
      <4> QED
        BY <1>0, <2>3, <3>1, <3>3, <4>1
    <3> QED
      BY <3>2, <3>3
  <2> QED
    BY <2>5, <2>6
<1> QED
  BY <1>5, <1>6 DEF FindsAlso

(* One more pair in a bucket is one more pair.                              *)
Longer(c, r, m, o, d) ==
    \A i \in 0 .. c - 1 : Len(r.items[i]) = Len(m.items[i]) + (IF i = o THEN d ELSE 0)

LEMMA PairsCounted ==
    ASSUME NEW c \in Nat \ {0}, NEW m \in MapOf(c), NEW r \in MapOf(c),
           NEW o \in 0 .. c - 1, NEW d \in Nat, Longer(c, r, m, o, d)
    PROVE  Len(Pairs(r)) = Len(Pairs(m)) + d
<1> DEFINE F == UpTo(m)
           G == UpTo(r)
           more == [j \in Nat |-> IF j > o THEN d ELSE 0]
           T == {j \in Nat : j <= c => Len(G[j]) = Len(F[j]) + more[j]}
<1>1. /\ F \in [0 .. c -> Seq(Entry)] /\ F[0] = << >>
      /\ \A b \in 1 .. c : F[b] = F[b - 1] \o m.items[b - 1]
  BY UpToIs, MapIs DEF IsUpTo
<1>2. /\ G \in [0 .. c -> Seq(Entry)] /\ G[0] = << >>
      /\ \A b \in 1 .. c : G[b] = G[b - 1] \o r.items[b - 1]
  BY UpToIs, MapIs DEF IsUpTo
<1>3. Pairs(m) = F[c] /\ Pairs(r) = G[c]
  BY PairsAre
<1>4. \A i \in 0 .. c - 1 : /\ m.items[i] \in Seq(Entry) /\ Len(m.items[i]) \in Nat
                            /\ r.items[i] \in Seq(Entry) /\ Len(r.items[i]) \in Nat
  BY MapIs
<1> HIDE DEF F, G
<1>5. 0 \in T
  BY <1>1, <1>2
<1>6. ASSUME NEW b \in Nat, b \in T
      PROVE  b + 1 \in T
  <2> SUFFICES ASSUME b + 1 <= c
               PROVE  Len(G[b + 1]) = Len(F[b + 1]) + more[b + 1]
    <3> HIDE DEF more
    <3>1. b + 1 \in Nat
      OBVIOUS
    <3> QED
      BY <3>1
  <2>1. b \in 0 .. c - 1 /\ b \in 0 .. c /\ b + 1 \in 1 .. c /\ (b + 1) - 1 = b
    OBVIOUS
  <2>2. F[b + 1] = F[b] \o m.items[b] /\ G[b + 1] = G[b] \o r.items[b]
    BY <1>1, <1>2, <2>1
  <2>3. /\ F[b] \in Seq(Entry) /\ G[b] \in Seq(Entry)
        /\ m.items[b] \in Seq(Entry) /\ r.items[b] \in Seq(Entry)
    BY <1>1, <1>2, <1>4, <2>1
  <2>4. /\ Len(F[b + 1]) = Len(F[b]) + Len(m.items[b])
        /\ Len(G[b + 1]) = Len(G[b]) + Len(r.items[b])
        /\ Len(F[b]) \in Nat /\ Len(m.items[b]) \in Nat
    BY <2>2, <2>3
  <2>5. PICK e \in Nat : e = IF b = o THEN d ELSE 0
    OBVIOUS
  <2>6. Len(r.items[b]) = Len(m.items[b]) + e
    BY <2>1, <2>5 DEF Longer
  <2>7. more[b] \in Nat /\ more[b + 1] = more[b] + e
    BY <2>5
  <2> HIDE DEF more
  <2>8. Len(G[b]) = Len(F[b]) + more[b]
    <3>1. b <= c
      OBVIOUS
    <3> QED
      BY <1>6, <3>1
  <2>9. PICK x \in Nat, y \in Nat, z \in Nat :
           x = Len(F[b]) /\ y = Len(m.items[b]) /\ z = more[b]
    BY <2>4, <2>7
  <2>10. (x + z) + (y + e) = (x + y) + (z + e)
    OBVIOUS
  <2> QED
    BY <2>4, <2>6, <2>7, <2>8, <2>9, <2>10
<1>7. c \in T
  <2> HIDE DEF T
  <2> QED
    BY <1>5, <1>6, SetInduction
<1>8. more[c] = d /\ c <= c
  OBVIOUS
<1> HIDE DEF more
<1> QED
  BY <1>3, <1>7, <1>8

LEMMA PutKeeps ==
    ASSUME NEW c \in Nat \ {0}, NEW m \in Whole(c), NEW w \in Word, NEW v \in Int
    PROVE  /\ Put(m, w, v) \in Whole(c)
           /\ Put(m, w, v).size = m.size + (IF HasKey(m, w) THEN 0 ELSE 1)
           /\ FindsAlso(Put(m, w, v), m, w, v)
<1> DEFINE r == Put(m, w, v)
           o == Off(m, w)
           d == IF HasKey(m, w) THEN 0 ELSE 1
<1>1. m \in MapOf(c) /\ Filed(m) /\ m.size = Len(Pairs(m)) /\ o \in 0 .. c - 1
  BY Finds DEF Whole
<1>p. Placed(c, r, m, w, v, o) /\ o = Off(m, w)
  BY <1>1, PutPlaces
<1> HIDE DEF r, o
<1>2. /\ r \in MapOf(c) /\ r.size = m.size + d
      /\ \A i \in 0 .. c - 1 : i # o => r.items[i] = m.items[i]
      /\ Len(r.items[o]) = Len(m.items[o]) + d
  BY <1>p DEF Placed
<1>3. Filed(r) /\ FindsAlso(r, m, w, v)
  BY <1>1, <1>p, PutFiled, PutFinds
<1>4. \A i \in 0 .. c - 1 : Len(m.items[i]) \in Nat
  BY <1>1, MapIs
<1>5. d \in Nat
  OBVIOUS
<1> HIDE DEF d
<1>6. Longer(c, r, m, o, d)
  BY <1>2, <1>4 DEF Longer
<1>7. Len(Pairs(r)) = Len(Pairs(m)) + d
  BY <1>1, <1>2, <1>5, <1>6, PairsCounted
<1> QED
  BY <1>1, <1>2, <1>3, <1>7 DEF Whole, r, d

---------------------------------------------------------------------------
(* The pairs of a map are its keys and their values, each key once.         *)
LEMMA UpToNext ==
    ASSUME NEW c \in Nat \ {0}, NEW m \in MapOf(c), NEW b \in 0 .. c - 1
    PROVE  /\ UpTo(m)[b] \in Seq(Entry) /\ UpTo(m)[b + 1] \in Seq(Entry)
           /\ Len(UpTo(m)[b]) \in Nat /\ Len(m.items[b]) \in Nat
           /\ Len(UpTo(m)[b + 1]) = Len(UpTo(m)[b]) + Len(m.items[b])
           /\ \A q \in 1 .. Len(UpTo(m)[b]) : UpTo(m)[b + 1][q] = UpTo(m)[b][q]
           /\ \A p \in 1 .. Len(m.items[b]) :
                 UpTo(m)[b + 1][Len(UpTo(m)[b]) + p] = m.items[b][p]
<1> DEFINE F == UpTo(m)
           s == m.items[b]
<1>1. /\ F \in [0 .. c -> Seq(Entry)]
      /\ \A i \in 1 .. c : F[i] = F[i - 1] \o m.items[i - 1]
  BY UpToIs, MapIs DEF IsUpTo
<1>2. b + 1 \in 1 .. c /\ (b + 1) - 1 = b /\ b \in 0 .. c /\ b + 1 \in 0 .. c
  OBVIOUS
<1>3. s \in Seq(Entry)
  BY MapIs
<1> HIDE DEF F, s
<1>4. F[b + 1] = F[b] \o s /\ F[b] \in Seq(Entry) /\ F[b + 1] \in Seq(Entry)
  <2>1. F[b + 1] = F[(b + 1) - 1] \o m.items[(b + 1) - 1]
    BY <1>1, <1>2
  <2> QED
    BY <1>1, <1>2, <2>1 DEF s
<1>5. /\ Len(F[b]) \in Nat /\ Len(s) \in Nat
      /\ Len(F[b + 1]) = Len(F[b]) + Len(s)
  BY <1>3, <1>4
<1>6. \A q \in 1 .. Len(F[b]) : F[b + 1][q] = F[b][q]
  BY <1>3, <1>4
<1>7. \A p \in 1 .. Len(s) : F[b + 1][Len(F[b]) + p] = s[p]
  BY <1>3, <1>4
<1> QED
  BY <1>4, <1>5, <1>6, <1>7 DEF F, s

(* The first b buckets are those of the keys whose place is below b.        *)
ListedBelow(m, b) ==
    /\ \A q \in 1 .. Len(UpTo(m)[b]) :
          LET e == UpTo(m)[b][q]
          IN  /\ e.key \in Word /\ Off(m, e.key) \in 0 .. b - 1
              /\ HasKey(m, e.key) /\ Get(m, e.key) = e.val
    /\ \A q, p \in 1 .. Len(UpTo(m)[b]) :
          UpTo(m)[b][q].key = UpTo(m)[b][p].key => q = p
    /\ \A w \in Word :
          HasKey(m, w) /\ Off(m, w) \in 0 .. b - 1
             => \E q \in 1 .. Len(UpTo(m)[b]) : UpTo(m)[b][q].key = w

LEMMA BucketsListed ==
    ASSUME NEW c \in Nat \ {0}, NEW m \in MapOf(c), Filed(m), NEW b \in 0 .. c - 1,
           ListedBelow(m, b)
    PROVE  ListedBelow(m, b + 1)
<1> DEFINE F == UpTo(m)[b]
           G == UpTo(m)[b + 1]
           s == m.items[b]
<1>1. /\ Len(F) \in Nat /\ Len(s) \in Nat /\ Len(G) = Len(F) + Len(s)
      /\ \A q \in 1 .. Len(F) : G[q] = F[q]
      /\ \A p \in 1 .. Len(s) : G[Len(F) + p] = s[p]
  BY UpToNext
<1>2. \A p \in 1 .. Len(s) :
         /\ s[p].key \in Word /\ Off(m, s[p].key) = b
         /\ HasKey(m, s[p].key) /\ Get(m, s[p].key) = s[p].val
  BY FindsPair
<1>3. \A p, q \in 1 .. Len(s) : s[p].key = s[q].key => p = q
  BY MapIs DEF Filed
<1>4. /\ \A q \in 1 .. Len(F) :
            /\ F[q].key \in Word /\ Off(m, F[q].key) \in 0 .. b - 1
            /\ HasKey(m, F[q].key) /\ Get(m, F[q].key) = F[q].val
      /\ \A q, p \in 1 .. Len(F) : F[q].key = F[p].key => q = p
      /\ \A w \in Word : HasKey(m, w) /\ Off(m, w) \in 0 .. b - 1
                            => \E q \in 1 .. Len(F) : F[q].key = w
  BY DEF ListedBelow
<1>5. \A w \in Word : HasKey(m, w) /\ Off(m, w) = b => \E p \in 1 .. Len(s) : s[p].key = w
  BY Finds
<1> HIDE DEF F, G, s
<1>6. ASSUME NEW q \in 1 .. Len(G)
      PROVE  q \in 1 .. Len(F) \/ \E p \in 1 .. Len(s) : q = Len(F) + p
  <2>1. CASE q <= Len(F)
    BY <1>1, <2>1
  <2>2. CASE q > Len(F)
    <3>1. q - Len(F) \in 1 .. Len(s) /\ q = Len(F) + (q - Len(F))
      BY <1>1, <2>2
    <3> QED
      BY <3>1
  <2> QED
    BY <1>1, <2>1, <2>2
<1>7. ASSUME NEW q \in 1 .. Len(G)
      PROVE  /\ G[q].key \in Word /\ Off(m, G[q].key) \in 0 .. (b + 1) - 1
             /\ HasKey(m, G[q].key) /\ Get(m, G[q].key) = G[q].val
  <2>1. CASE q \in 1 .. Len(F)
    <3>1. G[q] = F[q]
      BY <1>1, <2>1
    <3>2. \A o \in 0 .. b - 1 : o \in 0 .. (b + 1) - 1
      OBVIOUS
    <3> QED
      BY <1>4, <2>1, <3>1, <3>2
  <2>2. CASE \E p \in 1 .. Len(s) : q = Len(F) + p
    <3>1. PICK p \in 1 .. Len(s) : q = Len(F) + p
      BY <2>2
    <3>2. G[q] = s[p]
      BY <1>1, <3>1
    <3>3. b \in 0 .. (b + 1) - 1
      OBVIOUS
    <3> QED
      BY <1>2, <3>2, <3>3
  <2> QED
    BY <1>6, <2>1, <2>2
<1>8. ASSUME NEW q \in 1 .. Len(G), NEW p \in 1 .. Len(G), G[q].key = G[p].key
      PROVE  q = p
  <2>1. CASE q \in 1 .. Len(F) /\ p \in 1 .. Len(F)
    BY <1>1, <1>4, <1>8, <2>1
  <2>2. CASE (q \in 1 .. Len(F)) # (p \in 1 .. Len(F))
    <3>1. \A i \in 1 .. Len(F) : \A j \in 1 .. Len(s) : F[i].key # s[j].key
      <4>1. b \notin 0 .. b - 1
        OBVIOUS
      <4> QED
        BY <1>2, <1>4, <4>1
    <3>2. \A i \in 1 .. Len(F) : \A j \in 1 .. Len(s) : G[i].key # G[Len(F) + j].key
      BY <1>1, <3>1
    <3>3. CASE q \in 1 .. Len(F) /\ p \notin 1 .. Len(F)
      <4>1. PICK j \in 1 .. Len(s) : p = Len(F) + j
        BY <1>6, <3>3
      <4> QED
        BY <1>8, <3>2, <3>3, <4>1
    <3>4. CASE q \notin 1 .. Len(F) /\ p \in 1 .. Len(F)
      <4>1. PICK j \in 1 .. Len(s) : q = Len(F) + j
        BY <1>6, <3>4
      <4> QED
        BY <1>8, <3>2, <3>4, <4>1
    <3> QED
      BY <2>2, <3>3, <3>4
  <2>3. CASE q \notin 1 .. Len(F) /\ p \notin 1 .. Len(F)
    <3>1. PICK i \in 1 .. Len(s) : q = Len(F) + i
      BY <1>6, <2>3
    <3>2. PICK j \in 1 .. Len(s) : p = Len(F) + j
      BY <1>6, <2>3
    <3>3. s[i].key = s[j].key
      BY <1>1, <1>8, <3>1, <3>2
    <3> QED
      BY <1>3, <3>1, <3>2, <3>3
  <2> QED
    BY <2>1, <2>2, <2>3
<1>9. ASSUME NEW w \in Word, HasKey(m, w), Off(m, w) \in 0 .. (b + 1) - 1
      PROVE  \E q \in 1 .. Len(G) : G[q].key = w
  <2>1. CASE Off(m, w) = b
    <3>1. PICK p \in 1 .. Len(s) : s[p].key = w
      BY <1>5, <1>9, <2>1
    <3>2. Len(F) + p \in 1 .. Len(G) /\ G[Len(F) + p] = s[p]
      BY <1>1
    <3> QED
      BY <3>1, <3>2
  <2>2. CASE Off(m, w) # b
    <3>1. Off(m, w) \in 0 .. b - 1
      BY <1>9, <2>2
    <3>2. PICK q \in 1 .. Len(F) : F[q].key = w
      BY <1>4, <1>9, <3>1
    <3>3. q \in 1 .. Len(G) /\ G[q] = F[q]
      BY <1>1
    <3> QED
      BY <3>2, <3>3
  <2> QED
    BY <2>1, <2>2
<1> QED
  BY <1>7, <1>8, <1>9 DEF ListedBelow, G

(* P lists the keys of m.                                                   *)
Lists(P, m) ==
    /\ P \in Seq(Entry)
    /\ \A q \in 1 .. Len(P) : /\ P[q].key \in Word /\ P[q].val \in Int
                              /\ HasKey(m, P[q].key) /\ Get(m, P[q].key) = P[q].val
    /\ \A q, p \in 1 .. Len(P) : P[q].key = P[p].key => q = p
    /\ \A w \in Word : HasKey(m, w) => \E q \in 1 .. Len(P) : P[q].key = w

LEMMA PairsList ==
    ASSUME NEW c \in Nat \ {0}, NEW m \in MapOf(c), Filed(m)
    PROVE  Lists(Pairs(m), m)
<1> DEFINE T == {b \in Nat : b <= c => ListedBelow(m, b)}
           P == Pairs(m)
<1>1. UpTo(m)[0] = << >> /\ UpTo(m)[c] \in Seq(Entry)
  <2>1. UpTo(m) \in [0 .. c -> Seq(Entry)] /\ UpTo(m)[0] = << >>
    BY UpToIs, MapIs DEF IsUpTo
  <2> QED
    BY <2>1
<1>2. 0 \in T
  <2>1. Len(UpTo(m)[0]) = 0 /\ 1 .. 0 = {} /\ 0 .. 0 - 1 = {}
    BY <1>1
  <2>2. ListedBelow(m, 0)
    BY <2>1 DEF ListedBelow
  <2> QED
    BY <2>2
<1>3. ASSUME NEW b \in Nat, b \in T
      PROVE  b + 1 \in T
  <2>1. b + 1 <= c => b \in 0 .. c - 1 /\ b <= c
    OBVIOUS
  <2>2. b + 1 <= c => ListedBelow(m, b + 1)
    BY <1>3, <2>1, BucketsListed
  <2>3. b + 1 \in Nat
    OBVIOUS
  <2> QED
    BY <2>2, <2>3
<1>4. ListedBelow(m, c)
  <2>1. c \in T
    <3> HIDE DEF T
    <3> QED
      BY <1>2, <1>3, SetInduction
  <2>2. c <= c
    OBVIOUS
  <2> QED
    BY <2>1, <2>2
<1>5. P = UpTo(m)[c]
  BY PairsAre
<1>6. \A q \in 1 .. Len(P) : P[q].val \in Int
  <2>1. \A q \in 1 .. Len(P) : P[q] \in Entry
    BY <1>1, <1>5
  <2> QED
    BY <2>1 DEF Entry
<1>7. \A w \in Word : Off(m, w) \in 0 .. c - 1
  BY Finds
<1> HIDE DEF P
<1> QED
  BY <1>1, <1>4, <1>5, <1>6, <1>7 DEF ListedBelow, Lists, P

(* Where the pairs of a bucket are among all pairs.                         *)
LEMMA PairsInOrder ==
    ASSUME NEW c \in Nat \ {0}, NEW m \in MapOf(c), NEW b \in 0 .. c
    PROVE  /\ Len(Pairs(m)) \in Nat /\ Len(UpTo(m)[b]) \in 0 .. Len(Pairs(m))
           /\ \A q \in 1 .. Len(UpTo(m)[b]) : Pairs(m)[q] = UpTo(m)[b][q]
<1> DEFINE F == UpTo(m)
           Holds(j) == /\ Len(F[b]) <= Len(F[j])
                       /\ \A q \in 1 .. Len(F[b]) : F[j][q] = F[b][q]
           T == {i \in Nat : b + i <= c => Holds(b + i)}
<1>1. \A j \in 0 .. c : Len(F[j]) \in Nat
  <2>1. F \in [0 .. c -> Seq(Entry)]
    BY UpToIs, MapIs DEF IsUpTo
  <2> HIDE DEF F
  <2> QED
    BY <2>1
<1>2. 0 \in T
  BY <1>1
<1>3. ASSUME NEW j \in b .. c - 1, Holds(j)
      PROVE  Holds(j + 1)
  <2>1. j \in 0 .. c - 1
    OBVIOUS
  <2>2. /\ Len(F[j]) \in Nat /\ Len(m.items[j]) \in Nat
        /\ Len(F[j + 1]) = Len(F[j]) + Len(m.items[j])
        /\ \A q \in 1 .. Len(F[j]) : F[j + 1][q] = F[j][q]
    BY <2>1, UpToNext
  <2>3. Len(F[b]) \in Nat
    BY <1>1
  <2> HIDE DEF F
  <2>4. Len(F[b]) <= Len(F[j + 1]) /\ 1 .. Len(F[b]) \subseteq 1 .. Len(F[j])
    <3>1. PICK x \in Nat, y \in Nat, z \in Nat :
             x = Len(F[b]) /\ y = Len(F[j]) /\ z = Len(m.items[j])
      BY <2>2, <2>3
    <3>2. x <= y
      BY <1>3, <3>1
    <3>3. x <= y + z /\ 1 .. x \subseteq 1 .. y
      BY <3>2
    <3> QED
      BY <2>2, <3>1, <3>3
  <2> QED
    BY <1>3, <2>2, <2>4
<1> HIDE DEF Holds
<1>4. ASSUME NEW i \in Nat, i \in T
      PROVE  i + 1 \in T
  <2> SUFFICES ASSUME b + (i + 1) <= c PROVE Holds(b + (i + 1))
    OBVIOUS
  <2>1. b + i \in b .. c - 1 /\ (b + i) + 1 = b + (i + 1) /\ b + i <= c
    OBVIOUS
  <2> QED
    BY <1>3, <1>4, <2>1
<1>5. c - b \in T
  <2>1. c - b \in Nat
    OBVIOUS
  <2> HIDE DEF T
  <2> QED
    BY <1>2, <1>4, <2>1, SetInduction
<1>6. Holds(c)
  <2>1. b + (c - b) = c /\ c <= c
    OBVIOUS
  <2> QED
    BY <1>5, <2>1
<1>7. Pairs(m) = F[c]
  BY PairsAre
<1> HIDE DEF F
<1> QED
  BY <1>1, <1>6, <1>7 DEF Holds, F

---------------------------------------------------------------------------
(* Growing and setting.                                                     *)
LEMMA EmptyIs ==
    ASSUME NEW c \in Nat \ {0}
    PROVE  Map(c) \in Whole(c) /\ Map(c).size = 0 /\ \A w \in Word : ~HasKey(Map(c), w)
<1> DEFINE m == Map(c)
           T == {b \in Nat : b <= c => Len(UpTo(m)[b]) = 0}
<1>1. m.capacity = c /\ m.size = 0 /\ \A i \in 0 .. c - 1 : m.items[i] = << >>
  BY DEF Map
<1>2. m \in MapOf(c)
  BY DEF Map, MapOf
<1>3. \A i \in 0 .. c - 1 : Len(m.items[i]) = 0 /\ 1 .. Len(m.items[i]) = {}
  BY <1>1
<1>4. Filed(m)
  BY <1>1, <1>3 DEF Filed
<1> HIDE DEF m
<1>5. 0 \in T
  <2>1. UpTo(m)[0] = << >>
    BY <1>2, UpToIs DEF IsUpTo
  <2> QED
    BY <2>1
<1>6. ASSUME NEW b \in Nat, b \in T
      PROVE  b + 1 \in T
  <2> SUFFICES ASSUME b + 1 <= c PROVE Len(UpTo(m)[b + 1]) = 0
    OBVIOUS
  <2>1. b \in 0 .. c - 1 /\ b <= c
    OBVIOUS
  <2>2. Len(UpTo(m)[b + 1]) = Len(UpTo(m)[b]) + Len(m.items[b])
    BY <1>2, <2>1, UpToNext
  <2>3. Len(m.items[b]) = 0 /\ Len(UpTo(m)[b]) = 0
    BY <1>3, <1>6, <2>1
  <2>4. 0 + 0 = 0
    OBVIOUS
  <2> QED
    BY <2>2, <2>3, <2>4
<1>7. Len(Pairs(m)) = 0
  <2>1. c \in T
    <3> HIDE DEF T
    <3> QED
      BY <1>5, <1>6, SetInduction
  <2>2. c <= c
    OBVIOUS
  <2> QED
    BY <1>2, <2>1, <2>2, PairsAre
<1>8. \A w \in Word : ~HasKey(m, w)
  BY <1>2, <1>3, Finds
<1> QED
  BY <1>1, <1>2, <1>4, <1>7, <1>8 DEF Whole, m

(* After j pairs the new map holds these and no others.                     *)
HoldsFirst(r, P, j) ==
    /\ r.size = j
    /\ \A w \in Word : HasKey(r, w) <=> \E q \in 1 .. j : P[q].key = w
    /\ \A q \in 1 .. j : Get(r, P[q].key) = P[q].val

LEMMA HoldsNext ==
    ASSUME NEW c \in Nat \ {0}, NEW m \in Whole(c), NEW P, Lists(P, m),
           NEW d \in Nat \ {0}, NEW r \in Whole(d), NEW j \in 1 .. Len(P),
           HoldsFirst(r, P, j - 1)
    PROVE  LET s == Put(r, P[j].key, P[j].val) IN s \in Whole(d) /\ HoldsFirst(s, P, j)
<1> DEFINE w == P[j].key
           v == P[j].val
           s == Put(r, w, v)
<1>1. /\ Len(P) \in Nat /\ w \in Word /\ v \in Int
      /\ \A q \in 1 .. Len(P) : P[q].key \in Word
      /\ \A q, p \in 1 .. Len(P) : P[q].key = P[p].key => q = p
  BY DEF Lists
<1>2. /\ r.size = j - 1
      /\ \A u \in Word : HasKey(r, u) <=> \E q \in 1 .. j - 1 : P[q].key = u
      /\ \A q \in 1 .. j - 1 : Get(r, P[q].key) = P[q].val
  BY DEF HoldsFirst
<1>3. \A q \in 1 .. j - 1 : q \in 1 .. Len(P) /\ q # j
  BY <1>1
<1>4. ~HasKey(r, w)
  BY <1>1, <1>2, <1>3
<1> HIDE DEF w, v
<1>5. /\ s \in Whole(d)
      /\ s.size = r.size + 1
      /\ HasKey(s, w) /\ Get(s, w) = v
      /\ \A u \in Word \ {w} : /\ HasKey(s, u) <=> HasKey(r, u)
                               /\ HasKey(r, u) => Get(s, u) = Get(r, u)
  <2>1. /\ s \in Whole(d)
        /\ s.size = r.size + (IF HasKey(r, w) THEN 0 ELSE 1)
        /\ FindsAlso(s, r, w, v)
    BY <1>1, PutKeeps
  <2> HIDE DEF s
  <2> QED
    BY <1>4, <2>1 DEF FindsAlso
<1> HIDE DEF s
<1>6. \A q \in 1 .. j : q \in 1 .. j - 1 \/ q = j
  BY <1>1
<1>7. j \in 1 .. j /\ 1 .. j - 1 \subseteq 1 .. j
  BY <1>1
<1>8. \A u \in Word : HasKey(s, u) <=> \E q \in 1 .. j : P[q].key = u
  <2> TAKE u \in Word
  <2>1. CASE u = w
    BY <1>5, <1>7, <2>1 DEF w
  <2>2. CASE u # w
    <3>1. HasKey(s, u) <=> \E q \in 1 .. j - 1 : P[q].key = u
      BY <1>2, <1>5, <2>2
    <3> QED
      BY <1>6, <1>7, <2>2, <3>1 DEF w
  <2> QED
    BY <2>1, <2>2
<1>9. ASSUME NEW q \in 1 .. j
      PROVE  Get(s, P[q].key) = P[q].val
  <2>1. CASE q = j
    BY <1>5, <2>1 DEF w, v
  <2>2. CASE q \in 1 .. j - 1
    <3>1. P[q].key \in Word \ {w} /\ HasKey(r, P[q].key)
      BY <1>1, <1>2, <1>3, <2>2 DEF w
    <3> QED
      BY <1>2, <1>5, <2>2, <3>1
  <2> QED
    BY <1>6, <2>1, <2>2
<1>10. s.size = j
  BY <1>1, <1>2, <1>5
<1> QED
  BY <1>5, <1>8, <1>9, <1>10 DEF HoldsFirst, s, w, v

(* r finds every word as m does.                                            *)
FindsSame(r, m) ==
    \A u \in Word : /\ HasKey(r, u) <=> HasKey(m, u)
                    /\ HasKey(m, u) => Get(r, u) = Get(m, u)

LEMMA GrowKeeps ==
    ASSUME NEW c \in Nat \ {0}, NEW m \in Whole(c)
    PROVE  Grow(m) \in Whole(2 * c) /\ Grow(m).size = m.size /\ FindsSame(Grow(m), m)
<1> DEFINE P == Pairs(m)
           len == Len(P)
           M == Whole(2 * c)
           a == Map(2 * c)
           op(x, k) == Put(x, P[k].key, P[k].val)
           g == [x \in M \X (1 .. len) |-> op(x[1], x[2])]
           Is(it) == it = [s \in SUBSET DOMAIN P |->
                              IF s = {} THEN a ELSE op(it[s \ {Max(s)}], Max(s))]
           f == CHOOSE it : Is(it)
<1>1. m.capacity = c /\ m \in MapOf(c) /\ Filed(m) /\ m.size = len
  BY MapIs DEF Whole
<1>2. Grow(m) = f[DOMAIN P]
  <2>1. Grow(m) = (CHOOSE it : it = [s \in SUBSET DOMAIN P |->
                      IF s = {} THEN Map(2 * m.capacity)
                      ELSE Put(it[s \ {Max(s)}], P[Max(s)].key, P[Max(s)].val)])[DOMAIN P]
    BY DEF Grow, FoldLeft, MapThenFoldSet
  <2> QED
    BY <1>1, <2>1
<1>3. Lists(P, m)
  BY <1>1, PairsList
<1>4. /\ len \in Nat /\ DOMAIN P = 1 .. len
      /\ \A k \in 1 .. len : P[k].key \in Word /\ P[k].val \in Int
  BY <1>3 DEF Lists
<1> HIDE DEF P, len
<1>5. 2 * c \in Nat \ {0}
  OBVIOUS
<1>6. a \in M /\ a.size = 0 /\ \A w \in Word : ~HasKey(a, w)
  BY <1>5, EmptyIs
<1>7. ASSUME NEW x \in M, NEW k \in 1 .. len
      PROVE  op(x, k) \in M /\ g[<<x, k>>] = op(x, k)
  <2>1. op(x, k) \in M
    BY <1>4, <1>5, PutKeeps
  <2> QED
    BY <2>1
<1> HIDE DEF M, op, a
<1>8. g \in [M \X (1 .. len) -> M]
  <2>1. ASSUME NEW x \in M \X (1 .. len) PROVE op(x[1], x[2]) \in M
    BY <1>7
  <2> QED
    BY <2>1
<1> HIDE DEF g
<1>9. \E it : Is(it)
  <2>1. PICK it \in [SUBSET (1 .. len) -> M] : IsFold(it, a, len, g)
    BY <1>4, <1>6, <1>8, FoldExists
  <2>2. ASSUME NEW s \in SUBSET (1 .. len)
        PROVE  it[s] = IF s = {} THEN a ELSE op(it[s \ {Max(s)}], Max(s))
    <3>1. CASE s = {}
      BY <2>1, <3>1 DEF IsFold
    <3>2. CASE s # {}
      <4>1. Max(s) \in 1 .. len /\ it[s \ {Max(s)}] \in M
        BY <1>4, <2>1, <3>2, MaxIn
      <4>2. it[s] = g[<<it[s \ {Max(s)}], Max(s)>>]
        BY <2>1, <3>2 DEF IsFold
      <4> QED
        BY <1>7, <3>2, <4>1, <4>2
    <3> QED
      BY <3>1, <3>2
  <2>3. Is(it)
    BY <1>4, <2>2
  <2> QED
    BY <2>3
<1>10. Is(f)
  BY <1>9
<1> HIDE DEF f
<1>11. FoldsIn(f, M, a, len, g)
  <2>1. f[{}] = a
    BY <1>4, <1>10
  <2>2. ASSUME NEW s \in SUBSET (1 .. len), s # {}, f[s \ {Max(s)}] \in M
        PROVE  f[s] = g[<<f[s \ {Max(s)}], Max(s)>>]
    <3>1. Max(s) \in 1 .. len
      BY <1>4, <2>2, MaxIn
    <3>2. f[s] = op(f[s \ {Max(s)}], Max(s))
      BY <1>4, <1>10, <2>2
    <3> QED
      BY <1>7, <2>2, <3>1, <3>2
  <2> QED
    BY <2>1, <2>2 DEF FoldsIn
<1>12. PassesThrough(f, M, a, len, g)
  BY <1>4, <1>6, <1>8, <1>11, FoldSteps
<1> DEFINE T == {j \in Nat : j <= len => HoldsFirst(f[1 .. j], P, j)}
<1>13. 0 \in T
  <2>1. f[1 .. 0] = a
    BY <1>12 DEF PassesThrough
  <2>2. HoldsFirst(a, P, 0)
    BY <1>6 DEF HoldsFirst
  <2> QED
    BY <2>1, <2>2
<1>14. ASSUME NEW j \in Nat, j \in T
       PROVE  j + 1 \in T
  <2> SUFFICES ASSUME j + 1 <= len PROVE HoldsFirst(f[1 .. j + 1], P, j + 1)
    OBVIOUS
  <2>1. /\ j + 1 \in 1 .. len /\ (j + 1) - 1 = j /\ j <= len /\ j \in 0 .. len
        /\ j + 1 \in 1 .. Len(P)
    BY <1>4 DEF len
  <2>2. f[1 .. j] \in M /\ f[1 .. j + 1] = g[<<f[1 .. (j + 1) - 1], j + 1>>]
    BY <1>12, <2>1 DEF PassesThrough
  <2>3. f[1 .. j + 1] = op(f[1 .. j], j + 1)
    BY <1>7, <2>1, <2>2
  <2>4. HoldsFirst(f[1 .. j], P, (j + 1) - 1)
    BY <1>14, <2>1
  <2> QED
    BY <1>3, <1>5, <2>1, <2>2, <2>3, <2>4, HoldsNext DEF M, op
<1>15. HoldsFirst(f[1 .. len], P, len)
  <2>1. len \in T
    <3> HIDE DEF T
    <3> QED
      BY <1>4, <1>13, <1>14, SetInduction
  <2>2. len <= len
    BY <1>4
  <2> QED
    BY <2>1, <2>2
<1>16. Grow(m) = f[1 .. len] /\ Grow(m) \in Whole(2 * c)
  <2>1. len \in 0 .. len
    BY <1>4
  <2>2. f[1 .. len] \in M
    BY <1>12, <2>1 DEF PassesThrough
  <2> QED
    BY <1>2, <1>4, <2>2 DEF M
<1> DEFINE r == Grow(m)
<1>17. /\ r.size = len
       /\ \A w \in Word : HasKey(r, w) <=> \E q \in 1 .. len : P[q].key = w
       /\ \A q \in 1 .. len : Get(r, P[q].key) = P[q].val
  BY <1>15, <1>16 DEF HoldsFirst
<1> HIDE DEF r
<1>18. /\ \A q \in 1 .. len : HasKey(m, P[q].key) /\ Get(m, P[q].key) = P[q].val
       /\ \A w \in Word : HasKey(m, w) => \E q \in 1 .. len : P[q].key = w
  BY <1>3 DEF Lists, len
<1>19. FindsSame(r, m)
  BY <1>17, <1>18 DEF FindsSame
<1> QED
  BY <1>1, <1>16, <1>17, <1>19 DEF r

(* A map as Map::set leaves it.                                             *)
GoodMap(m) == \E c \in Nat \ {0} : m \in Whole(c) /\ m.size <= c

LEMMA NewMapGood == GoodMap(NewMap) /\ NewMap.size = 0 /\ \A w \in Word : ~HasKey(NewMap, w)
<1>1. InitialCapacity \in Nat \ {0} /\ 0 <= InitialCapacity
  BY SIMapAssumption
<1>2. /\ NewMap \in Whole(InitialCapacity) /\ NewMap.size = 0
      /\ \A w \in Word : ~HasKey(NewMap, w)
  BY <1>1, EmptyIs DEF NewMap
<1> QED
  BY <1>1, <1>2 DEF GoodMap

LEMMA SetKeeps ==
    ASSUME NEW m, GoodMap(m), NEW w \in Word, NEW v \in Int
    PROVE  /\ GoodMap(Set(m, w, v))
           /\ Set(m, w, v).size = m.size + (IF HasKey(m, w) THEN 0 ELSE 1)
           /\ FindsAlso(Set(m, w, v), m, w, v)
           /\ GrowsWhole(m)
<1>1. PICK c \in Nat \ {0} : m \in Whole(c) /\ m.size <= c
  BY DEF GoodMap
<1>2. m.capacity = c /\ m.size \in Nat
  BY <1>1, MapIs DEF Whole
<1> DEFINE b == IF m.size >= m.capacity THEN Grow(m) ELSE m
           d == IF m.size >= m.capacity THEN 2 * c ELSE c
           more == IF HasKey(m, w) THEN 0 ELSE 1
<1>3. Grow(m) \in Whole(2 * c) /\ Grow(m).size = m.size /\ FindsSame(Grow(m), m)
  BY <1>1, GrowKeeps
<1>4. d \in Nat \ {0} /\ b \in Whole(d) /\ b.size = m.size /\ m.size + 1 <= d
  <2>1. 2 * c \in Nat \ {0} /\ c + 1 <= 2 * c
    OBVIOUS
  <2>2. CASE m.size >= m.capacity
    BY <1>1, <1>2, <1>3, <2>1, <2>2
  <2>3. CASE ~(m.size >= m.capacity)
    BY <1>1, <1>2, <2>3
  <2> QED
    BY <2>2, <2>3
<1>5. FindsSame(b, m)
  BY <1>3 DEF FindsSame
<1>6. Set(m, w, v) = Put(b, w, v)
  BY DEF Set
<1> HIDE DEF b, d
<1> DEFINE r == Put(b, w, v)
<1>7. /\ r \in Whole(d)
      /\ r.size = b.size + (IF HasKey(b, w) THEN 0 ELSE 1)
      /\ FindsAlso(r, b, w, v)
  BY <1>4, PutKeeps
<1> HIDE DEF r
<1>8. FindsAlso(r, m, w, v)
  BY <1>5, <1>7 DEF FindsAlso, FindsSame
<1>9. r.size = m.size + more
  BY <1>4, <1>5, <1>7 DEF FindsSame
<1>10. GoodMap(r)
  <2>1. r.size = m.size \/ r.size = m.size + 1
    BY <1>2, <1>9
  <2>2. r.size <= d
    BY <1>2, <1>4, <2>1
  <2> QED
    BY <1>4, <1>7, <2>2 DEF GoodMap
<1> QED
  BY <1>3, <1>6, <1>8, <1>9, <1>10 DEF GrowsWhole, r

============================================================================
