------------------------------- MODULE SIMap -------------------------------
(* The hash map of the word count application (src/SImap.h): buckets of     *)
(* keys and values, doubled when there are as many pairs as buckets.  A map *)
(* is a value here; the module that uses it keeps it in a variable.  Words  *)
(* are sequences of character codes.                                        *)
EXTENDS Integers, Sequences, SequencesExt

CONSTANTS
    InitialCapacity,  \* 10 in the code
    HashBits          \* width of size_t, 64 in the code

ASSUME SIMapAssumption ==
    /\ InitialCapacity \in Nat \ {0}
    /\ HashBits \in Nat /\ 2 ^ HashBits \in Nat \ {0}

(* String::hash_me: shifts and a subtraction, that is, a product.           *)
Hash(word) == FoldLeft(LAMBDA h, c : (c + 65599 * h) % 2 ^ HashBits, 0, word)

Map(capacity) ==
    [capacity |-> capacity, size |-> 0, items |-> [i \in 0 .. capacity - 1 |-> << >>]]
NewMap == Map(InitialCapacity)

(* Where a key belongs: off_, and Object::hash, which keeps what it         *)
(* computed in the key.                                                     *)
Off(m, k) == Hash(k) % m.capacity

(* The position of a key in its bucket, if it is there.                     *)
Positions(m, k) == {p \in DOMAIN m.items[Off(m, k)] : m.items[Off(m, k)][p].key = k}
HasKey(m, k) == Positions(m, k) # {}
Get(m, k) == m.items[Off(m, k)][CHOOSE p \in Positions(m, k) : TRUE].val

(* Array::push_back, on the keys and on the values of a bucket.             *)
PushBack(bucket, pair) == Append(bucket, pair)

(* A slip: a known key gets a second pair.                                  *)
PutTwice(m, k, v) ==
    [m EXCEPT !.items[Off(m, k)] = PushBack(@, [key |-> k, val |-> v]), !.size = @ + 1]

(* Items_::set_ and the count of pairs: replace the value of a known key,   *)
(* append a new one.                                                        *)
Put(m, k, v) ==
    LET pair == [key |-> k, val |-> v]
        o == Off(m, k)
    IN  IF HasKey(m, k)
        THEN [m EXCEPT !.items[o] = [p \in DOMAIN @ |->
                                        IF p \in Positions(m, k) THEN pair ELSE @[p]]]
        ELSE [m EXCEPT !.items[o] = PushBack(@, pair), !.size = @ + 1]

(* The pairs of a map, bucket by bucket.                                    *)
Pairs(m) == FlattenSeq([i \in 1 .. m.capacity |-> m.items[i - 1]])

(* A slip: the buckets are kept where they are, and empty ones are added.   *)
GrowInPlace(m) ==
    [m EXCEPT !.capacity = 2 * @,
              !.items = [i \in 0 .. 2 * m.capacity - 1 |->
                            IF i < m.capacity THEN m.items[i] ELSE << >>]]

(* grow: every pair is set in a map of twice the capacity.                  *)
Grow(m) ==
    FoldLeft(LAMBDA big, p : Put(big, p.key, p.val), Map(2 * m.capacity), Pairs(m))

(* What grow asserts.                                                       *)
GrowsWhole(m) == m.size >= m.capacity => Grow(m).size = m.size

(* Map::set grows first, then looks for the place.                          *)
Set(m, k, v) == Put(IF m.size >= m.capacity THEN Grow(m) ELSE m, k, v)

============================================================================
