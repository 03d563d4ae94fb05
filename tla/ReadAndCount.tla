---------------------------- MODULE ReadAndCount ----------------------------
(* What one node does to a text file, call by call: FileReader turns it     *)
(* into rows (the actions of FileReader), Adder counts the rows in a hash   *)
(* map, Summer walks the map and makes a frame of counts, Adder adds that   *)
(* frame up in a second map, and the size of that map is printed            *)
(* (WordCount::local_count and reduce with a single node).  The words are   *)
(* taken to survive the deletion of the rows that refer to them: WordCount  *)
(* has the other outcomes.                                                  *)
EXTENDS FileReader, SIMap, FiniteSets

(* A word can be hashed: its characters are character codes.                *)
ASSUME CharAssumption == Char \subseteq Int

VARIABLES
    phase,    \* what local_count and reduce are doing
    n,        \* the next row of the frame that is mapped over
    map,      \* the map local_count fills
    bucket,   \* Summer::i
    slot,     \* Summer::j
    seen,     \* Summer::seen
    counts,   \* the frame of counts
    all       \* the map reduce fills

countVars == <<phase, n, map, bucket, slot, seen, counts, all>>
runVars == <<vars, countVars>>

RunInit ==
    /\ Init
    /\ phase = "reading"
    /\ n = 1
    /\ map = NewMap
    /\ bucket = 0 /\ slot = 0 /\ seen = 0
    /\ counts = << >>
    /\ all = NewMap

Read ==
    /\ Next
    /\ UNCHANGED countVars

(* The frame is complete: local_count maps Adder over it.                   *)
StartAdding ==
    /\ phase = "reading" /\ pc = "finished"
    /\ phase' = "adding"
    /\ UNCHANGED <<vars, n, map, bucket, slot, seen, counts, all>>

(* A slip: every row counts as one word.                                    *)
AddedOne(m, word, count) ==
    Set(m, word, 1 + (IF HasKey(m, word) THEN Get(m, word) ELSE 0))

(* Adder::visit, for a row of one column and for a row of two.              *)
Added(m, word, count) ==
    Set(m, word, count + (IF HasKey(m, word) THEN Get(m, word) ELSE 0))

(* DataFrame::fill_row: the row a Reader is shown.                          *)
RowAt(frame, r) == frame[r]

AddWord ==
    /\ phase = "adding" /\ n <= Len(rows)
    /\ map' = Added(map, RowAt(rows, n), 1)
    /\ phase' = IF GrowsWhole(map) THEN "adding" ELSE "aborted"
    /\ n' = n + 1
    /\ UNCHANGED <<vars, bucket, slot, seen, counts, all>>

StartSumming ==
    /\ phase = "adding" /\ n > Len(rows)
    /\ phase' = "summing"
    /\ UNCHANGED <<vars, n, map, bucket, slot, seen, counts, all>>

---------------------------------------------------------------------------
(* Summer's cursor: the pair at bucket i and slot j, if there is one.       *)
Used(i) == Len(map.items[i])
AtPair(i, j) == i < map.capacity /\ j < Used(i)

(* Summer::next: along the bucket, then to the next one that has pairs.     *)
NextBucket(i) ==
    LET later == {b \in i + 1 .. map.capacity - 1 : Used(b) > 0}
    IN  IF later = {} THEN map.capacity ELSE CHOOSE b \in later : \A c \in later : b <= c

(* A slip: the cursor leaves a bucket after its first pair.                 *)
NextPlaceHasty(i, j) ==
    IF i = map.capacity THEN <<i, j>> ELSE <<NextBucket(i), 0>>

NextPlace(i, j) ==
    IF i = map.capacity THEN <<i, j>>
    ELSE IF j < Used(i) THEN <<i, j + 1>>
    ELSE <<NextBucket(i), 0>>

(* Summer::visit: step when there is no pair here, then take the one that   *)
(* is, or abort in v().                                                     *)
VisitPair ==
    LET here == IF AtPair(bucket, slot) THEN <<bucket, slot>> ELSE NextPlace(bucket, slot)
        there == NextPlace(here[1], here[2])
    IN  /\ phase = "summing" /\ seen < map.size
        /\ IF AtPair(here[1], here[2])
           THEN /\ counts' = Append(counts, map.items[here[1]][here[2] + 1])
                /\ seen' = seen + 1
                /\ bucket' = there[1] /\ slot' = there[2]
                /\ UNCHANGED phase
           ELSE phase' = "aborted" /\ UNCHANGED <<counts, seen, bucket, slot>>
        /\ UNCHANGED <<vars, n, map, all>>

(* Summer::done, and on to reduce.                                          *)
StartReducing ==
    /\ phase = "summing" /\ seen >= map.size
    /\ phase' = "reducing"
    /\ n' = 1
    /\ UNCHANGED <<vars, map, bucket, slot, seen, counts, all>>

AddCount ==
    /\ phase = "reducing" /\ n <= Len(counts)
    /\ all' = Added(all, RowAt(counts, n).key, RowAt(counts, n).val)
    /\ phase' = IF GrowsWhole(all) THEN "reducing" ELSE "aborted"
    /\ n' = n + 1
    /\ UNCHANGED <<vars, map, bucket, slot, seen, counts>>

(* all.size is printed.                                                     *)
PrintAnswer ==
    /\ phase = "reducing" /\ n > Len(counts)
    /\ phase' = "printed"
    /\ UNCHANGED <<vars, n, map, bucket, slot, seen, counts, all>>

(* The process has ended, in one way or the other.                          *)
Ended == phase \in {"printed", "aborted"} \/ pc = "failed"
End == Ended /\ UNCHANGED runVars

Work ==
    \/ Read
    \/ StartAdding \/ AddWord
    \/ StartSumming \/ VisitPair
    \/ StartReducing \/ AddCount
    \/ PrintAnswer

RunNext == Work \/ End

RunSpec == RunInit /\ [][RunNext]_runVars

(* The operating system goes on running the process.                        *)
FairSpec == RunSpec /\ WF_runVars(Work)

---------------------------------------------------------------------------
(* The words of a file, without a buffer: a word starts at every character  *)
(* that is not white space and does not continue a word; it is what follows *)
(* in letters and digits, nothing at all where that is punctuation.         *)
WordStarts(f) ==
    {p \in DOMAIN f : f[p] # Space /\ (p > 1 => f[p - 1] \notin Alnum)}

WordAt(f, p) ==
    LET in == {q \in p .. Len(f) : \A r \in p .. q : f[r] \in Alnum}
    IN  [k \in 1 .. Cardinality(in) |-> f[p + k - 1]]

WordStart(f, k) ==
    CHOOSE p \in WordStarts(f) : Cardinality({q \in WordStarts(f) : q < p}) = k - 1
WordsOf(f) == [k \in 1 .. Cardinality(WordStarts(f)) |-> WordAt(f, WordStart(f, k))]

Occurrences(seq, w) == Cardinality({k \in DOMAIN seq : seq[k] = w})

(* The state of a run has the expected shape: the reader's state is a       *)
(* reader's, the maps are maps of the words that were read, and Summer's    *)
(* cursor is in the map or just behind it.                                  *)
Phases == {"reading", "adding", "summing", "reducing", "printed", "aborted"}
WordsRead == {rows[k] : k \in DOMAIN rows}
IsMap(m) ==
    /\ DOMAIN m.items = 0 .. m.capacity - 1
    /\ \A i \in DOMAIN m.items : \A p \in DOMAIN m.items[i] :
          m.items[i][p].key \in WordsRead /\ m.items[i][p].val \in 1 .. Len(rows)

RunTypeOK ==
    /\ TypeOK
    /\ phase \in Phases
    /\ phase # "reading" => pc = "finished"
    /\ n \in 1 .. Len(rows) + 1
    /\ IsMap(map) /\ IsMap(all)
    /\ bucket \in 0 .. map.capacity
    /\ bucket < map.capacity => slot \in 0 .. Used(bucket)
    /\ seen = Len(counts)
    /\ \A k \in DOMAIN counts : counts[k].key \in WordsRead

(* The rows are the words of the file, in order, none lost at a refill,     *)
(* none twice, none cut in two where the buffer ends, when the file is one  *)
(* the reader is made for.                                                  *)
RowsAreWords ==
    Regular(file) =>
        /\ IsPrefix(rows, WordsOf(file))
        /\ pc = "finished" => rows = WordsOf(file)

(* The same of any file: what visit promises of every row (src/writer.h:34, *)
(* "Reads next word and stores it in the row").                             *)
EveryRowIsAWord == pc = "finished" => rows = WordsOf(file)

(* Whatever the words and however often it has grown, a map finds every key *)
(* where its hash says, holds it once, counts its pairs right, and has not  *)
(* outgrown its buckets.                                                    *)
Sound(m) ==
    /\ \A i \in DOMAIN m.items : \A p \in DOMAIN m.items[i] :
          /\ Off(m, m.items[i][p].key) = i
          /\ \A q \in DOMAIN m.items[i] :
                m.items[i][p].key = m.items[i][q].key => p = q
    /\ m.size = Len(Pairs(m))
    /\ m.size <= m.capacity
MapSound == Sound(map) /\ Sound(all)

(* While Adder goes through the rows, the map holds the number of           *)
(* occurrences so far of each word seen so far, through every grow.         *)
MapCounts ==
    phase = "adding" =>
        \A w \in WordsRead :
            LET so_far == Occurrences(SubSeq(rows, 1, n - 1), w)
            IN  IF so_far = 0 THEN ~HasKey(map, w)
                ELSE HasKey(map, w) /\ Get(map, w) = so_far

(* Summer takes the pairs of the map in order, each once, and when it has   *)
(* counted as many as the map says it has, it has taken all of them; it     *)
(* never looks where there is none.                                         *)
EveryPairOnce ==
    /\ counts = SubSeq(Pairs(map), 1, seen)
    /\ phase = "reducing" => counts = Pairs(map)
    /\ phase # "aborted"

---------------------------------------------------------------------------
(* What the application promises for the words of the file, with the second *)
(* map as the tally once its size is printed.  Nothing is promised for the  *)
(* files FileReader is not made for.                                        *)
Terms == UNION {[1 .. k -> Alnum] : k \in 0 .. BUFSIZE - 1}
Answered == phase = "printed" /\ Regular(file)
Tally == [w \in Terms |-> IF HasKey(all, w) THEN Get(all, w) ELSE 0]
Promise == INSTANCE DistinctWords WITH
    Words <- Terms,
    EmptyWord <- << >>,
    NoAnswer <- << >>,
    text <- WordsOf(file),
    tally <- IF Answered THEN Tally ELSE << >>

(* From the bytes of the file to the map whose size is printed: a node on   *)
(* its own gives the one right answer or none.                              *)
AnswerCorrect == Promise!Spec

============================================================================
