------------------------- MODULE ReadAndCountProofs -------------------------
(* What one node does to a text file, for any file, any size of the buffer, *)
(* any capacity of the map to begin with and any width of the hash.         *)
EXTENDS ReadAndCount, FileReaderProofs, SIMapProofs, FunctionTheorems

---------------------------------------------------------------------------
(* How far the rows are.  The byte of the file from which on no word has    *)
(* become a row yet is the first of the word being read, or the next one to *)
(* be skipped.                                                              *)
Current == Source(IF Scanning THEN wStart ELSE IF i_ <= end_ THEN i_ ELSE end_)
StartsBelow(f, p) == {q \in WordStarts(f) : q < p}

FirstWords(frame, f) ==
    /\ Len(frame) <= Cardinality(WordStarts(f))
    /\ \A k \in 1 .. Len(frame) : frame[k] = WordAt(f, WordStart(f, k))

RowsInv ==
    Regular(file) =>
        /\ FirstWords(rows, file)
        /\ pc = "open" => rows = << >>
        /\ Scanning \/ Skipping => Len(rows) = Cardinality(StartsBelow(file, Current))
        /\ Scanning => Current \in WordStarts(file)
        /\ Skipping /\ (i_ > end_ \/ (pc \in {"skipByte", "ready"} /\ i_ = end_)) => eof
        /\ pc = "ready" /\ i_ < end_ => buf_[i_] # Space
        /\ pc = "finished" => Len(rows) = Cardinality(WordStarts(file))

LEMMA WordStartsFinite ==
    ASSUME NEW f \in Seq(Char)
    PROVE  /\ WordStarts(f) \subseteq 1 .. Len(f)
           /\ WordStarts(f) \in SUBSET Nat
           /\ IsFiniteSet(WordStarts(f)) /\ Cardinality(WordStarts(f)) \in Nat
           /\ \A p : /\ IsFiniteSet(StartsBelow(f, p))
                     /\ Cardinality(StartsBelow(f, p)) \in Nat
                     /\ Cardinality(StartsBelow(f, p)) <= Cardinality(WordStarts(f))
<1>1. WordStarts(f) \subseteq 1 .. Len(f) /\ Len(f) \in Nat
  BY DEF WordStarts
<1>2. WordStarts(f) \in SUBSET Nat
  BY <1>1
<1>3. IsFiniteSet(WordStarts(f))
  <2>1. IsFiniteSet(1 .. Len(f))
    BY <1>1, FS_Interval
  <2> QED
    BY <1>1, <2>1, FS_Subset
<1>4. \A p : StartsBelow(f, p) \in SUBSET WordStarts(f)
  BY DEF StartsBelow
<1> QED
  BY <1>1, <1>2, <1>3, <1>4, FS_Subset, FS_CardinalityType

LEMMA WordStartIs ==
    ASSUME NEW f \in Seq(Char), NEW p \in WordStarts(f), NEW k \in Nat,
           Cardinality(StartsBelow(f, p)) = k
    PROVE  WordStart(f, k + 1) = p /\ k < Cardinality(WordStarts(f))
<1>1. WordStarts(f) \in SUBSET Nat /\ IsFiniteSet(WordStarts(f))
  BY WordStartsFinite
<1>2. \A q \in WordStarts(f) : Cardinality({r \in WordStarts(f) : r < q}) \in Nat
  BY WordStartsFinite DEF StartsBelow
<1>3. \A q \in WordStarts(f) :
         Cardinality({r \in WordStarts(f) : r < q}) = (k + 1) - 1 <=> q = p
  <2>1. (k + 1) - 1 = k
    OBVIOUS
  <2> QED
    BY <1>1, <2>1, RankIsUnique DEF StartsBelow
<1>4. k < Cardinality(WordStarts(f))
  <2>1. p \notin StartsBelow(f, p) /\ StartsBelow(f, p) \in SUBSET WordStarts(f)
    BY <1>1 DEF StartsBelow
  <2> QED
    BY <2>1, WordStartsFinite, FS_Subset
<1> QED
  BY <1>3, <1>4 DEF WordStart

(* A word is the letters from its start up to the first other character.    *)
LEMMA WordAtIs ==
    ASSUME NEW f \in Seq(Char), NEW p \in 1 .. Len(f), NEW e \in p .. Len(f),
           \A q \in p .. e - 1 : f[q] \in Alnum, f[e] \notin Alnum
    PROVE  WordAt(f, p) = [k \in 1 .. e - p |-> f[p + k - 1]]
<1> DEFINE in == {q \in p .. Len(f) : \A r \in p .. q : f[r] \in Alnum}
<1>1. Len(f) \in Nat /\ p \in Nat /\ e \in Nat
  OBVIOUS
<1>2. in = p .. e - 1
  <2>1. ASSUME NEW q \in p .. e - 1 PROVE q \in in
    <3>1. q \in p .. Len(f) /\ \A r \in p .. q : r \in p .. e - 1
      BY <1>1
    <3> QED
      BY <3>1
  <2>2. ASSUME NEW q \in in PROVE q \in p .. e - 1
    <3>1. q \in p .. Len(f) /\ \A r \in p .. q : f[r] \in Alnum
      OBVIOUS
    <3>2. e \notin p .. q
      BY <3>1
    <3> QED
      BY <1>1, <3>1, <3>2
  <2> QED
    BY <2>1, <2>2
<1> HIDE DEF in
<1>3. Cardinality(in) = e - p
  <2>1. Cardinality(p .. e - 1) = IF p > e - 1 THEN 0 ELSE (e - 1) - p + 1
    BY <1>1, FS_Interval
  <2> QED
    BY <1>1, <1>2, <2>1
<1>4. WordAt(f, p) = [k \in 1 .. Cardinality(in) |-> f[p + k - 1]]
  BY DEF WordAt, in
<1> QED
  BY <1>3, <1>4

(* Behind a word and the character that ends it, one more word has begun.   *)
LEMMA OneMoreStart ==
    ASSUME NEW f \in Seq(Char), NEW p \in WordStarts(f), NEW e \in p .. Len(f),
           \A q \in p .. e - 1 : f[q] \in Alnum
    PROVE  Cardinality(StartsBelow(f, e + 1)) = Cardinality(StartsBelow(f, p)) + 1
<1>1. p \in 1 .. Len(f) /\ p \in Nat /\ e \in Nat /\ Len(f) \in Nat
  BY WordStartsFinite
<1>2. ASSUME NEW q \in WordStarts(f)
      PROVE  q < e + 1 <=> q < p \/ q = p
  <2>1. q \in Nat
    BY WordStartsFinite
  <2>2. ASSUME q > p, q < e + 1 PROVE FALSE
    <3>1. q - 1 \in p .. e - 1 /\ q > 1
      BY <1>1, <2>1, <2>2
    <3>2. f[q - 1] \notin Alnum
      BY <3>1 DEF WordStarts
    <3> QED
      BY <3>1, <3>2
  <2> QED
    BY <1>1, <2>1, <2>2
<1>3. StartsBelow(f, e + 1) = StartsBelow(f, p) \cup {p}
  BY <1>2 DEF StartsBelow
<1>4. p \notin StartsBelow(f, p)
  BY <1>1 DEF StartsBelow
<1>5. IsFiniteSet(StartsBelow(f, p))
  BY WordStartsFinite
<1> QED
  BY <1>3, <1>4, <1>5, FS_AddElement

LEMMA NoStartAtSpace ==
    ASSUME NEW f \in Seq(Char), NEW p \in 1 .. Len(f), f[p] = Space
    PROVE  StartsBelow(f, p + 1) = StartsBelow(f, p)
<1>1. p \notin WordStarts(f)
  BY DEF WordStarts
<1>2. \A q \in WordStarts(f) : q \in Nat
  BY WordStartsFinite
<1>3. \A q \in WordStarts(f) : q < p + 1 <=> q < p \/ q = p
  BY <1>2
<1> QED
  BY <1>1, <1>3 DEF StartsBelow

---------------------------------------------------------------------------
(* No step loses a word, repeats one or cuts one in two.                    *)
LEMMA RefillKeepsRows ==
    ASSUME BufferInv, WordInv, RowsInv, Open \/ SkipRefill \/ ScanRefill
    PROVE  RowsInv'
<1> SUFFICES ASSUME Regular(file)' PROVE RowsInv'
  BY DEF RowsInv
<1>1. /\ TypeOK /\ end_ <= pos /\ (eof => pos = Len(file))
      /\ CopyFrom(Unpassed)
      /\ end_ \in 0 .. BUFSIZE /\ pos \in 0 .. Len(file) /\ Len(file) \in Nat
      /\ BUFSIZE \in Nat \ {0} /\ wStart \in Nat /\ file \in Seq(Char)
  BY FileReaderAssumption, FileType DEF BufferInv, TypeOK
<1>2. Regular(file) /\ file' = file /\ rows' = rows
  BY DEF Open, SkipRefill, ScanRefill, FillFrom
<1>3. FirstWords(rows, file)'
  BY <1>2 DEF RowsInv
<1>4. ASSUME NEW from \in 0 .. end_, CopyFrom(from), FillFrom(from)
      PROVE  /\ i_' = end_ - from
             /\ i_' <= end_' /\ end_' \in 0 .. BUFSIZE
             /\ pos' \in 0 .. Len(file)
             /\ pos' - end_' = pos - end_ + from
             /\ end_' = i_' => pos = Len(file) \/ i_' = BUFSIZE
             /\ eof' = (eof \/ Len(file) - pos < BUFSIZE - (end_ - from))
  <2>1. eof' = (eof \/ Len(file) - pos < BUFSIZE - (end_ - from))
    BY <1>4 DEF FillFrom, Left
  <2> QED
    BY <1>1, <1>4, <2>1, FillCopies
<1>5. CASE Open
  <2>1. pc = "open" /\ i_ = 0 /\ pos = 0 /\ end_ = 0 /\ FillFrom(0) /\ pc' = "skip"
    BY <1>1, <1>5 DEF Open, BufferInv
  <2>2. CopyFrom(0)
    BY <1>1, <2>1 DEF Unpassed
  <2>3. i_' = 0 /\ pos' - end_' = 0 /\ 0 <= end_' /\ end_' \in Nat /\ pos' \in Nat
    <3>1. 0 \in 0 .. end_
      BY <2>1
    <3>2. /\ i_' = 0 - 0 /\ i_' <= end_' /\ end_' \in 0 .. BUFSIZE
          /\ pos' \in 0 .. Len(file) /\ pos' - end_' = 0 - 0 + 0
      BY <1>4, <2>1, <2>2, <3>1
    <3>3. 0 - 0 = 0 /\ 0 - 0 + 0 = 0
      OBVIOUS
    <3>4. end_' \in Nat /\ pos' \in Nat
      BY <1>1, <3>2
    <3> QED
      BY <3>2, <3>3, <3>4
  <2>4. Current' = 1
    <3>1. Current' = pos' - end_' + i_' + 1
      BY <2>1, <2>3 DEF Current, Scanning, Source
    <3>2. 0 + 0 + 1 = 1
      OBVIOUS
    <3> QED
      BY <2>3, <3>1, <3>2
  <2>5. StartsBelow(file, 1) = {}
    <3>1. \A q \in WordStarts(file) : q \in 1 .. Len(file)
      BY <1>1, WordStartsFinite
    <3> QED
      BY <1>1, <3>1 DEF StartsBelow
  <2>6. rows = << >> /\ Len(rows) = 0 /\ Cardinality({}) = 0
    BY <1>2, <2>1, FS_EmptySet DEF RowsInv
  <2>7. /\ ~Scanning' /\ Skipping' /\ ~(i_' > end_')
        /\ pc' \notin {"skipByte", "ready", "finished", "open"}
    BY <2>1, <2>3 DEF Scanning, Skipping
  <2> QED
    BY <1>2, <1>3, <2>4, <2>5, <2>6, <2>7 DEF RowsInv
<1>6. CASE SkipRefill
  <2>1. pc = "skip" /\ i_ = end_ /\ FillFrom(end_) /\ pc' = "skipByte" /\ ~eof
    BY <1>6 DEF SkipRefill, AtEnd
  <2>2. CopyFrom(end_) /\ end_ \in 0 .. end_
    BY <1>1, <2>1 DEF Unpassed
  <2>3. /\ i_' = end_ - end_ /\ end_' \in Nat /\ pos' \in Nat
        /\ pos' - end_' = pos - end_ + end_
        /\ end_' = i_' => pos = Len(file) \/ i_' = BUFSIZE
        /\ eof' = (eof \/ Len(file) - pos < BUFSIZE - (end_ - end_))
    BY <1>1, <1>4, <2>1, <2>2
  <2>4. i_' = 0 /\ pos' - end_' = pos /\ ~(i_' > end_') /\ i_' <= end_'
    <3>1. end_ - end_ = 0 /\ pos - end_ + end_ = pos
      BY <1>1
    <3>2. ~(0 > end_') /\ 0 <= end_'
      BY <2>3
    <3> QED
      BY <2>3, <3>1, <3>2
  <2>5. end_' = i_' => eof'
    <3>1. end_ - end_ = 0 /\ 0 # BUFSIZE /\ Len(file) - Len(file) < BUFSIZE - 0
      BY <1>1
    <3> QED
      BY <2>3, <2>4, <3>1
  <2>6. Current' = pos + 1
    <3>1. Current' = pos' - end_' + i_' + 1
      BY <2>1, <2>4 DEF Current, Scanning, Source
    <3>2. pos + 0 + 1 = pos + 1
      BY <1>1
    <3> QED
      BY <2>4, <3>1, <3>2
  <2>7. Current = pos + 1
    <3>1. Current = pos - end_ + end_ + 1
      BY <2>1 DEF Current, Scanning, Source
    <3> QED
      BY <1>1, <3>1
  <2>8. Len(rows) = Cardinality(StartsBelow(file, pos + 1))
    BY <1>2, <2>1, <2>7 DEF RowsInv, Skipping
  <2> QED
    BY <1>2, <1>3, <2>1, <2>4, <2>5, <2>6, <2>8 DEF RowsInv, Scanning, Skipping
<1>7. CASE ScanRefill
  <2>1. /\ wStart \in 0 .. end_ /\ FillFrom(wStart) /\ CopyFrom(wStart)
        /\ Scanning /\ pc' = "scanByte" /\ wStart' = 0
    BY <1>1, <1>7 DEF BufferInv, Scanning, ScanRefill, Unpassed
  <2>2. pos' - end_' = pos - end_ + wStart /\ end_' \in Nat /\ pos' \in Nat
    BY <1>1, <1>4, <2>1
  <2>3. Current' = Current
    <3>1. Current' = pos' - end_' + 0 + 1 /\ Current = pos - end_ + wStart + 1
      BY <2>1 DEF Current, Scanning, Source
    <3>2. \A x \in Int : x + 0 + 1 = x + 1
      OBVIOUS
    <3>3. pos - end_ + wStart \in Int
      BY <1>1, <2>1
    <3> QED
      BY <2>2, <3>1, <3>2, <3>3
  <2>4. Len(rows) = Cardinality(StartsBelow(file, Current)) /\ Current \in WordStarts(file)
    BY <1>2, <2>1 DEF RowsInv
  <2> QED
    BY <1>2, <1>3, <2>1, <2>3, <2>4 DEF RowsInv, Scanning, Skipping
<1> QED
  BY <1>5, <1>6, <1>7

(* What the buffer says of the file where the reader has come to.           *)
LEMMA WhereReaderIs ==
    ASSUME BufferInv, WordInv, Regular(file)
    PROVE  /\ file \in Seq(Char) /\ Len(file) \in Nat
           /\ i_ \in Nat /\ end_ \in Nat /\ pos \in Nat /\ wStart \in Nat
           /\ \A k \in Unpassed .. end_ - 1 :
                 Source(k) \in 1 .. Len(file) /\ buf_[k] = file[Source(k)]
           /\ Skipping => Unpassed = i_
           /\ Scanning => Unpassed = wStart /\ wStart <= i_
           /\ \A k \in Nat : Source(k) \in Int /\ Source(k + 1) = Source(k) + 1
           /\ Source(end_) = pos + 1
<1>1. /\ i_ \in Nat /\ end_ \in Nat /\ pos \in Nat /\ wStart \in Nat
      /\ Len(file) \in Nat /\ file \in Seq(Char)
      /\ end_ <= pos /\ pos <= Len(file) /\ CopyFrom(Unpassed)
  BY FileReaderAssumption, FileType DEF BufferInv, TypeOK
<1>2. Unpassed \in Nat
  BY <1>1 DEF Unpassed
<1>3. ASSUME NEW k \in Unpassed .. end_ - 1
      PROVE  Source(k) \in 1 .. Len(file) /\ buf_[k] = file[Source(k)]
  BY <1>1, <1>2 DEF CopyFrom, Source
<1>4. /\ \A k \in Nat : Source(k) \in Int /\ Source(k + 1) = Source(k) + 1
      /\ Source(end_) = pos + 1
  BY <1>1 DEF Source
<1>5. Skipping => Unpassed = i_
  BY DEF Skipping, Unpassed
<1>6. Scanning => Unpassed = wStart /\ wStart <= i_
  BY DEF Scanning, Unpassed, BufferInv
<1> QED
  BY <1>1, <1>3, <1>4, <1>5, <1>6

LEMMA SkipLookKeepsRows ==
    ASSUME BufferInv, WordInv, RowsInv, Regular(file), SkipLook
    PROVE  RowsInv'
<1>1. /\ pc \in {"skip", "skipByte"} /\ (pc = "skip" => i_ # end_)
      /\ UNCHANGED <<file, pos, eof, buf_, end_, wStart, rows>>
      /\ IF buf_[i_] = Space
         THEN i_' = i_ + 1 /\ pc' = "skip"
         ELSE i_' = i_ /\ pc' = "ready"
  BY DEF SkipLook, streamVars, AtEnd
<1>2. /\ i_ \in Nat /\ end_ \in Nat /\ pos \in Nat /\ Unpassed = i_
      /\ file \in Seq(Char) /\ Len(file) \in Nat
      /\ \A k \in Unpassed .. end_ - 1 :
            Source(k) \in 1 .. Len(file) /\ buf_[k] = file[Source(k)]
      /\ \A k \in Nat : Source(k) \in Int /\ Source(k + 1) = Source(k) + 1
  BY <1>1, WhereReaderIs DEF Skipping
<1>11. i_ \in Nat /\ end_ \in Nat /\ Unpassed = i_
  BY <1>2
<1>3. /\ FirstWords(rows, file) /\ ~Scanning /\ Skipping
      /\ Len(rows) = Cardinality(StartsBelow(file, Current))
      /\ i_ > end_ \/ (pc = "skipByte" /\ i_ = end_) => eof
  BY <1>1 DEF RowsInv, Scanning, Skipping
<1>4. ~Scanning' /\ Skipping'
  BY <1>1 DEF Scanning, Skipping
<1>5. \A k : Source(k)' = Source(k)
  BY <1>1 DEF Source
<1>6. /\ Current = Source(IF i_ <= end_ THEN i_ ELSE end_)
      /\ Current' = Source(IF i_' <= end_' THEN i_' ELSE end_')
  BY <1>1, <1>3, <1>4 DEF Current, Source
<1>7. i_ >= end_ => eof
  <2>1. i_ >= end_ => i_ > end_ \/ i_ = end_
    BY <1>11
  <2> QED
    BY <1>1, <1>3, <2>1
<1>8. CASE buf_[i_] = Space /\ i_ < end_
  <2>1. i_ \in Unpassed .. end_ - 1 /\ i_' <= end_ /\ i_ <= end_
    <3>1. i_' = i_ + 1
      BY <1>1, <1>8
    <3> QED
      BY <1>8, <1>11, <3>1
  <2>2. Current = Source(i_) /\ Current' = Source(i_) + 1
    BY <1>1, <1>2, <1>6, <1>8, <2>1
  <2>3. StartsBelow(file, Current') = StartsBelow(file, Current)
    BY <1>2, <1>8, <2>1, <2>2, NoStartAtSpace
  <2>4. ~(i_' > end_) /\ pc' = "skip"
    BY <1>1, <1>8, <1>11, <2>1
  <2> QED
    BY <1>1, <1>3, <1>4, <2>3, <2>4 DEF RowsInv
<1>9. CASE buf_[i_] = Space /\ ~(i_ < end_)
  <2>1. i_ >= end_ /\ eof' /\ pc' = "skip"
    <3>1. i_ >= end_
      BY <1>9, <1>11
    <3> QED
      BY <1>1, <1>7, <1>9, <3>1
  <2>2. Current' = Current
    <3>1. i_' = i_ + 1 /\ end_' = end_
      BY <1>1, <1>9
    <3>2. ~(i_' <= end_') /\ (i_ <= end_ => i_ = end_)
      BY <1>9, <1>11, <3>1
    <3> QED
      BY <1>6, <3>1, <3>2
  <2> QED
    BY <1>1, <1>3, <1>4, <2>1, <2>2 DEF RowsInv
<1>10. CASE buf_[i_] # Space
  <2>1. i_' = i_ /\ end_' = end_ /\ pc' = "ready"
    BY <1>1, <1>10
  <2>2. Current' = Current
    BY <1>6, <2>1
  <2>3. i_ > end_ \/ i_ = end_ => eof
    BY <1>2, <1>7
  <2> QED
    BY <1>1, <1>3, <1>4, <1>10, <2>1, <2>2, <2>3 DEF RowsInv
<1> QED
  BY <1>8, <1>9, <1>10

LEMMA TakeWordKeepsRows ==
    ASSUME BufferInv, WordInv, RowsInv, Regular(file), TakeWord
    PROVE  RowsInv'
<1> DEFINE p == Source(wStart)
           e == Source(i_)
           w == WordInBuffer
<1>1. /\ pc = "word" /\ pc' = "skip" /\ i_' = i_ + 1
      /\ rows' = Append(rows, w)
      /\ UNCHANGED <<file, pos, eof, end_, wStart>>
  BY DEF TakeWord, AddRow, streamVars
<1>2. /\ i_ \in Nat /\ end_ \in Nat /\ wStart \in Nat /\ Unpassed = wStart /\ wStart <= i_
      /\ file \in Seq(Char) /\ Len(file) \in Nat /\ pos \in Nat
      /\ \A k \in Unpassed .. end_ - 1 :
            Source(k) \in 1 .. Len(file) /\ buf_[k] = file[Source(k)]
      /\ Source(i_ + 1) = Source(i_) + 1
  BY <1>1, WhereReaderIs DEF Scanning
<1>3. /\ i_ < end_ /\ buf_[i_] \notin Alnum
      /\ \A k \in wStart .. i_ - 1 : buf_[k] \in Alnum
  BY <1>1 DEF WordInv, Scanning
<1>4. /\ FirstWords(rows, file) /\ Scanning /\ Current = p
      /\ Len(rows) = Cardinality(StartsBelow(file, p)) /\ p \in WordStarts(file)
  BY <1>1 DEF RowsInv, Scanning, Current
<1>5. /\ i_ \in Unpassed .. end_ - 1
      /\ \A k \in wStart .. i_ - 1 : k \in Unpassed .. end_ - 1
  BY <1>2, <1>3
<1>6. /\ e \in 1 .. Len(file) /\ file[e] \notin Alnum
      /\ \A k \in wStart .. i_ - 1 : file[Source(k)] \in Alnum /\ buf_[k] = file[Source(k)]
  BY <1>2, <1>3, <1>5
<1>7. /\ p \in Nat /\ p <= e /\ e - p = i_ - wStart
      /\ \A k \in 1 .. i_ - wStart : /\ wStart + k - 1 \in wStart .. i_ - 1
                                     /\ Source(wStart + k - 1) = p + k - 1
      /\ \A q \in p .. e - 1 : /\ q - p + wStart \in wStart .. i_ - 1
                               /\ Source(q - p + wStart) = q
  <2>1. p \in Nat
    BY <1>4, WordStartsFinite, <1>2
  <2>2. p <= e /\ e - p = i_ - wStart
    BY <1>2 DEF Source
  <2>3. ASSUME NEW k \in 1 .. i_ - wStart
        PROVE  /\ wStart + k - 1 \in wStart .. i_ - 1
               /\ Source(wStart + k - 1) = p + k - 1
    BY <1>2 DEF Source
  <2>4. ASSUME NEW q \in p .. e - 1
        PROVE  q - p + wStart \in wStart .. i_ - 1 /\ Source(q - p + wStart) = q
    BY <1>2 DEF Source
  <2> QED
    BY <2>1, <2>2, <2>3, <2>4
<1>8. \A q \in p .. e - 1 : file[q] \in Alnum
  BY <1>6, <1>7
<1>9. w = [k \in 1 .. e - p |-> file[p + k - 1]]
  <2>1. \A k \in 1 .. i_ - wStart : buf_[wStart + k - 1] = file[p + k - 1]
    BY <1>6, <1>7
  <2> HIDE DEF p, e
  <2> QED
    BY <1>7, <2>1 DEF WordInBuffer
<1> HIDE DEF p, e, w
<1>10. p \in 1 .. Len(file) /\ e \in p .. Len(file)
  BY <1>2, <1>6, <1>7, <1>4, WordStartsFinite
<1>11. w = WordAt(file, p)
  BY <1>2, <1>6, <1>8, <1>9, <1>10, WordAtIs
<1>12. /\ WordStart(file, Len(rows) + 1) = p
       /\ Len(rows) \in Nat /\ Len(rows) < Cardinality(WordStarts(file))
       /\ Cardinality(WordStarts(file)) \in Nat
  BY <1>2, <1>4, WordStartsFinite, WordStartIs
<1>13. rows \in Seq(Seq(Char)) /\ w \in Seq(Char)
  <2>1. TypeOK /\ i_ <= MemoryEnd
    BY DEF BufferInv, TakeWord
  <2> QED
    BY <1>1, <2>1, WordType DEF TypeOK, w
<1>14. /\ Len(rows') = Len(rows) + 1
       /\ \A k \in 1 .. Len(rows) : rows'[k] = rows[k]
       /\ rows'[Len(rows) + 1] = w
  BY <1>1, <1>13
<1>15. FirstWords(rows, file)'
  <2>1. \A k \in 1 .. Len(rows) + 1 : k \in 1 .. Len(rows) \/ k = Len(rows) + 1
    BY <1>12
  <2>2. Len(rows) + 1 <= Cardinality(WordStarts(file))
    BY <1>12
  <2> QED
    BY <1>1, <1>4, <1>11, <1>12, <1>14, <2>1, <2>2 DEF FirstWords
<1>16. Current' = e + 1
  <2>1. i_ + 1 <= end_
    BY <1>2, <1>3
  <2>2. Current' = Source(i_ + 1)
    BY <1>1, <2>1 DEF Current, Scanning, Source
  <2> QED
    BY <1>2, <2>2 DEF e
<1>17. Len(rows') = Cardinality(StartsBelow(file, Current'))
  BY <1>2, <1>4, <1>8, <1>10, <1>14, <1>16, OneMoreStart
<1>18. ~(i_' > end_)
  BY <1>1, <1>2, <1>3
<1> QED
  BY <1>1, <1>15, <1>17, <1>18 DEF RowsInv, Scanning, Skipping

(* The steps that do not change what has been read.                         *)
LEMMA OtherStepsKeepRows ==
    ASSUME BufferInv, WordInv, RowsInv, Regular(file),
           \/ CannotOpen \/ SkipAtEnd \/ Finish \/ Visit \/ ScanAtEnd \/ ScanLook \/ Fault
           \/ UNCHANGED vars
    PROVE  RowsInv'
<1>1. /\ UNCHANGED <<file, pos, eof, buf_, end_, rows>>
      /\ \A k : Source(k)' = Source(k)
  BY DEF CannotOpen, SkipAtEnd, Finish, Visit, ScanAtEnd, ScanLook, Fault, vars, streamVars,
         Source
<1>2. /\ i_ \in Nat /\ end_ \in Nat /\ pos \in Nat /\ wStart \in Nat
      /\ file \in Seq(Char) /\ Len(file) \in Nat
  BY WhereReaderIs
<1>3. FirstWords(rows, file) /\ FirstWords(rows, file)'
  BY <1>1 DEF RowsInv
<1>4. CASE CannotOpen \/ Fault
  <2>1. pc' = "failed"
    BY <1>4 DEF CannotOpen, Fault
  <2> QED
    BY <1>1, <1>3, <2>1 DEF RowsInv, Scanning, Skipping
<1>5. CASE SkipAtEnd
  <2>1. /\ pc = "skip" /\ pc' = "ready" /\ i_ = end_ /\ eof
        /\ i_' = i_ /\ UNCHANGED <<end_, wStart, eof>>
    BY <1>5 DEF SkipAtEnd, AtEnd, streamVars
  <2>2. Current' = Current
    BY <1>1, <2>1 DEF Current, Scanning, Source
  <2>3. ~(i_' < end_)
    BY <1>2, <2>1
  <2> QED
    BY <1>1, <1>3, <2>1, <2>2, <2>3 DEF RowsInv, Scanning, Skipping
<1>6. CASE Finish
  <2>1. pc = "ready" /\ pc' = "finished" /\ i_ >= end_ /\ eof
    BY <1>6 DEF Finish, Done
  <2>2. pos = Len(file)
    BY <2>1 DEF BufferInv
  <2>3. Current = Len(file) + 1
    <3>1. i_ <= end_ => i_ = end_
      BY <1>2, <2>1
    <3>2. Source(end_) = pos + 1
      BY WhereReaderIs
    <3> QED
      BY <2>1, <2>2, <3>1, <3>2 DEF Current, Scanning
  <2>4. StartsBelow(file, Current) = WordStarts(file)
    <3>1. \A q \in WordStarts(file) : q \in 1 .. Len(file)
      BY <1>2, WordStartsFinite
    <3> QED
      BY <1>2, <2>3, <3>1 DEF StartsBelow
  <2> QED
    BY <1>1, <1>3, <2>1, <2>4 DEF RowsInv, Scanning, Skipping
<1>7. CASE Visit
  <2>1. pc = "ready" /\ Skipping /\ ~Scanning
    BY <1>7 DEF Visit, Scanning, Skipping
  <2>2. CASE i_ < end_ /\ buf_[i_] # Space
    <3>1. pc' = "scan" /\ wStart' = i_ /\ i_ <= end_
      BY <1>2, <1>7, <2>2 DEF Visit
    <3>2. Current' = Current /\ Current = Source(i_)
      BY <1>1, <2>1, <3>1 DEF Current, Scanning, Source
    <3>3. Source(i_) \in 1 .. Len(file) /\ buf_[i_] = file[Source(i_)]
      <4>1. i_ \in Unpassed .. end_ - 1
        BY <1>2, <2>1, <2>2, WhereReaderIs
      <4> QED
        BY <4>1, WhereReaderIs
    <3>4. WordMayStart(i_)
      BY <2>1, <3>1 DEF WordInv
    <3>5. Source(i_) \in WordStarts(file)
      BY <2>2, <3>3, <3>4, <1>2 DEF WordStarts, WordMayStart
    <3> QED
      BY <1>1, <1>3, <2>1, <3>1, <3>2, <3>5 DEF RowsInv, Scanning, Skipping
  <2>3. CASE ~(i_ < end_ /\ buf_[i_] # Space)
    <3>1. pc' = "failed"
      BY <1>7, <2>3 DEF Visit
    <3> QED
      BY <1>1, <1>3, <3>1 DEF RowsInv, Scanning, Skipping
  <2> QED
    BY <2>2, <2>3
<1>8. ~ScanAtEnd
  <2> SUFFICES ASSUME ScanAtEnd PROVE FALSE
    OBVIOUS
  <2>1. Scanning /\ i_ = end_ /\ eof
    BY DEF ScanAtEnd, AtEnd, Scanning
  <2>2. pos = Len(file)
    BY <2>1 DEF BufferInv
  <2>3. pos < Len(file)
    BY <2>1, WordHasRoom
  <2> QED
    BY <1>2, <2>2, <2>3
<1>9. CASE ScanLook
  <2>1. Scanning /\ Scanning' /\ ~Skipping' /\ wStart' = wStart
        /\ pc' \notin {"open", "ready", "finished"}
    BY <1>9 DEF ScanLook, Scanning, Skipping
  <2>2. Current' = Current
    BY <1>1, <2>1 DEF Current, Source
  <2> QED
    BY <1>1, <1>3, <2>1, <2>2 DEF RowsInv
<1>10. CASE UNCHANGED vars
  <2>1. UNCHANGED <<file, pos, eof, buf_, i_, end_, wStart, rows, pc>>
    BY <1>10 DEF vars, streamVars
  <2> QED
    BY <2>1 DEF RowsInv, FirstWords, Scanning, Skipping, Current, Source
<1> QED
  BY <1>4, <1>5, <1>6, <1>7, <1>8, <1>9, <1>10

LEMMA RowsInvInit == Init => RowsInv
<1> SUFFICES ASSUME Init PROVE RowsInv
  OBVIOUS
<1>1. rows = << >> /\ pc = "open" /\ file \in Seq(Char)
  BY FileReaderAssumption DEF Init
<1>2. FirstWords(rows, file)
  BY <1>1, WordStartsFinite DEF FirstWords
<1> QED
  BY <1>1, <1>2 DEF RowsInv, Scanning, Skipping

LEMMA RowsInvAlways == Spec => [](BufferInv /\ WordInv /\ RowsInv)
<1>1. BufferInv /\ WordInv /\ RowsInv /\ [Next]_vars => RowsInv'
  <2> SUFFICES ASSUME BufferInv, WordInv, RowsInv, [Next]_vars PROVE RowsInv'
    OBVIOUS
  <2>1. CASE ~Regular(file)
    <3>1. file' = file
      BY DEF Next, Open, CannotOpen, SkipAtEnd, SkipRefill, SkipLook, Finish, Visit, ScanAtEnd,
             ScanRefill, ScanLook, TakeWord, Fault, FillFrom, vars, streamVars
    <3> QED
      BY <2>1, <3>1 DEF RowsInv
  <2>2. CASE Regular(file)
    BY <2>2, RefillKeepsRows, SkipLookKeepsRows, TakeWordKeepsRows, OtherStepsKeepRows DEF Next
  <2> QED
    BY <2>1, <2>2
<1> QED
  BY RowsInvInit, WordInvAlways, <1>1, PTL DEF Spec

(* To the reader, a run is one of its own behaviours.                       *)
LEMMA RunReads == RunSpec => Spec
<1>1. RunInit => Init
  BY DEF RunInit
<1>2. [RunNext]_runVars => [Next]_vars
  BY DEF RunNext, Work, Read, StartAdding, AddWord, StartSumming, VisitPair, StartReducing,
         AddCount, PrintAnswer, End, runVars
<1> QED
  BY <1>1, <1>2, PTL DEF RunSpec, Spec

(* The rows are the words of the file, in order: no refill of the buffer    *)
(* loses one, repeats one or cuts one in two (FileReader::visit and         *)
(* fillBuffer_, with the loop of fromVisitor), for a buffer of any size and *)
(* any file the reader is made for.                                         *)
THEOREM RowsAreWordsAlways == RunSpec => []RowsAreWords
<1>1. BufferInv /\ RowsInv => RowsAreWords
  <2> SUFFICES ASSUME BufferInv, RowsInv, Regular(file)
               PROVE  /\ IsPrefix(rows, WordsOf(file))
                      /\ pc = "finished" => rows = WordsOf(file)
    BY DEF RowsAreWords
  <2> DEFINE c == Cardinality(WordStarts(file))
             ws == WordsOf(file)
  <2>1. file \in Seq(Char) /\ rows \in Seq(Seq(Char)) /\ c \in Nat
    BY FileType, WordStartsFinite DEF BufferInv, TypeOK
  <2>2. ws = [k \in 1 .. c |-> WordAt(file, WordStart(file, k))]
    BY DEF WordsOf
  <2> HIDE DEF ws, c
  <2>3. ws \in Seq({ws[k] : k \in 1 .. c}) /\ Len(ws) = c /\ DOMAIN ws = 1 .. c
    <3> DEFINE at == [k \in 1 .. c |-> WordAt(file, WordStart(file, k))]
               R == {at[k] : k \in 1 .. c}
    <3>1. at \in [1 .. c -> R]
      OBVIOUS
    <3> HIDE DEF at, R
    <3>2. at \in Seq(R) /\ Len(at) = c /\ DOMAIN at = 1 .. c
      BY <2>1, <3>1
    <3>3. ws = at /\ R = {ws[k] : k \in 1 .. c}
      BY <2>2 DEF at, R
    <3> QED
      BY <3>2, <3>3
  <2>4. /\ Len(rows) \in Nat /\ Len(rows) <= c
        /\ \A k \in 1 .. Len(rows) : k \in 1 .. c /\ rows[k] = ws[k]
    BY <2>1, <2>2 DEF RowsInv, FirstWords, c
  <2>5. IsPrefix(rows, ws)
    <3>1. SubSeq(rows, 1, Len(rows)) = [k \in 1 .. Len(rows) |-> rows[k]]
      BY <2>1, <2>4
    <3>2. SubSeq(ws, 1, Len(rows)) = [k \in 1 .. Len(rows) |-> ws[k]]
      BY <2>3, <2>4
    <3> QED
      BY <2>3, <2>4, <3>1, <3>2 DEF IsPrefix
  <2>6. ASSUME pc = "finished" PROVE rows = ws
    <3>1. Len(rows) = c
      BY <2>6 DEF RowsInv, c
    <3>2. rows = [k \in 1 .. c |-> rows[k]]
      BY <2>1, <3>1
    <3>3. ws = [k \in 1 .. c |-> ws[k]]
      BY <2>3
    <3> QED
      BY <2>4, <3>1, <3>2, <3>3
  <2> QED
    BY <2>5, <2>6 DEF ws
<1> QED
  BY <1>1, RowsInvAlways, RunReads, PTL

---------------------------------------------------------------------------
(* Adder: the map holds, of every word of the rows 1 .. j and of no other,  *)
(* in how many of them it is.                                               *)
Tallies(m, frame, j) ==
    \A w \in Word :
       /\ HasKey(m, w) <=> Occurrences(SubSeq(frame, 1, j), w) # 0
       /\ HasKey(m, w) => Get(m, w) = Occurrences(SubSeq(frame, 1, j), w)

LEMMA OccurrencesAre ==
    ASSUME NEW S, NEW frame \in Seq(S), NEW j \in 0 .. Len(frame), NEW w
    PROVE  /\ Occurrences(SubSeq(frame, 1, j), w) = Cardinality({k \in 1 .. j : frame[k] = w})
           /\ IsFiniteSet({k \in 1 .. j : frame[k] = w})
           /\ Occurrences(SubSeq(frame, 1, j), w) \in 0 .. j
           /\ Occurrences(SubSeq(frame, 1, j), w) # 0 => \E k \in 1 .. j : frame[k] = w
<1> DEFINE in == {k \in 1 .. j : frame[k] = w}
<1>1. j \in Nat /\ Len(frame) \in Nat /\ j <= Len(frame)
  OBVIOUS
<1>2. SubSeq(frame, 1, j) = [k \in 1 .. j |-> frame[k]]
  BY <1>1
<1>3. DOMAIN SubSeq(frame, 1, j) = 1 .. j /\ \A k \in 1 .. j : SubSeq(frame, 1, j)[k] = frame[k]
  BY <1>2
<1>4. Occurrences(SubSeq(frame, 1, j), w) = Cardinality(in)
  BY <1>3 DEF Occurrences
<1>5. IsFiniteSet(1 .. j) /\ Cardinality(1 .. j) = j
  <2>1. IsFiniteSet(1 .. j) /\ Cardinality(1 .. j) = IF 1 > j THEN 0 ELSE j - 1 + 1
    BY <1>1, FS_Interval
  <2>2. IF 1 > j THEN j = 0 ELSE j - 1 + 1 = j
    BY <1>1
  <2> QED
    BY <2>1, <2>2
<1>6. in \subseteq 1 .. j
  OBVIOUS
<1> HIDE DEF in
<1>7. IsFiniteSet(in) /\ Cardinality(in) \in Nat /\ Cardinality(in) <= j
  BY <1>5, <1>6, FS_Subset, FS_CardinalityType
<1>8. Cardinality(in) # 0 => in # {}
  BY FS_EmptySet
<1> QED
  BY <1>1, <1>4, <1>7, <1>8 DEF in

LEMMA NoOccurrences ==
    ASSUME NEW S, NEW frame \in Seq(S), NEW w
    PROVE  Occurrences(SubSeq(frame, 1, 0), w) = 0
<1>1. 0 \in 0 .. Len(frame)
  OBVIOUS
<1>2. Occurrences(SubSeq(frame, 1, 0), w) \in 0 .. 0
  BY <1>1, OccurrencesAre
<1> QED
  BY <1>2

LEMMA OneMoreRow ==
    ASSUME NEW S, NEW frame \in Seq(S), NEW j \in 0 .. Len(frame) - 1, NEW w
    PROVE  Occurrences(SubSeq(frame, 1, j + 1), w) =
              Occurrences(SubSeq(frame, 1, j), w) + (IF frame[j + 1] = w THEN 1 ELSE 0)
<1> DEFINE before == {k \in 1 .. j : frame[k] = w}
           after == {k \in 1 .. j + 1 : frame[k] = w}
<1>1. j \in 0 .. Len(frame) /\ j + 1 \in 0 .. Len(frame) /\ j \in Nat
  OBVIOUS
<1>2. /\ Occurrences(SubSeq(frame, 1, j), w) = Cardinality(before)
      /\ Occurrences(SubSeq(frame, 1, j + 1), w) = Cardinality(after)
      /\ IsFiniteSet(before) /\ Cardinality(before) \in Nat
  BY <1>1, OccurrencesAre, FS_CardinalityType
<1>3. \A k : k \in 1 .. j + 1 <=> k \in 1 .. j \/ k = j + 1
  BY <1>1
<1>4. j + 1 \notin before
  BY <1>1
<1>5. CASE frame[j + 1] = w
  <2>1. after = before \cup {j + 1}
    BY <1>3, <1>5
  <2>2. Cardinality(after) = Cardinality(before) + 1
    <3> HIDE DEF before, after
    <3> QED
      BY <1>2, <1>4, <2>1, FS_AddElement
  <2> HIDE DEF before, after
  <2> QED
    BY <1>2, <1>5, <2>2
<1>6. CASE frame[j + 1] # w
  <2>1. after = before
    BY <1>3, <1>6
  <2> HIDE DEF before, after
  <2> QED
    BY <1>2, <1>6, <2>1
<1> QED
  BY <1>5, <1>6

(* One row more (Adder::visit with Map::set, which may grow the map).        *)
LEMMA AddedTallies ==
    ASSUME NEW frame \in Seq(Word), NEW j \in 0 .. Len(frame) - 1,
           NEW m, GoodMap(m), Tallies(m, frame, j), m.size <= j, m.size \in Nat,
           NEW r, r = Added(m, frame[j + 1], 1)
    PROVE  /\ GoodMap(r) /\ Tallies(r, frame, j + 1)
           /\ r.size <= j + 1 /\ r.size \in Nat /\ GrowsWhole(m)
<1> DEFINE w == frame[j + 1]
           so_far == IF HasKey(m, w) THEN Get(m, w) ELSE 0
           v == 1 + so_far
           Count(u) == Occurrences(SubSeq(frame, 1, j), u)
           Next1(u) == Occurrences(SubSeq(frame, 1, j + 1), u)
<1>1. j \in Nat /\ j + 1 \in 1 .. Len(frame) /\ w \in Word /\ j \in 0 .. Len(frame)
  OBVIOUS
<1>2. \A u \in Word : Next1(u) = Count(u) + (IF w = u THEN 1 ELSE 0)
  BY OneMoreRow
<1>3. \A u \in Word : Count(u) \in Nat
  <2>1. \A u \in Word : Count(u) \in 0 .. j
    BY <1>1, OccurrencesAre
  <2> HIDE DEF Count
  <2> QED
    BY <2>1
<1>4. /\ \A u \in Word : HasKey(m, u) <=> Count(u) # 0
      /\ \A u \in Word : HasKey(m, u) => Get(m, u) = Count(u)
  BY DEF Tallies
<1>5. r = Set(m, w, v)
  BY DEF Added
<1> HIDE DEF w, Count, Next1
<1>6. so_far = Count(w)
  BY <1>1, <1>4
<1>7. v \in Int /\ v = Count(w) + 1 /\ v # 0
  BY <1>1, <1>3, <1>6
<1> HIDE DEF v, so_far
<1>8. /\ GoodMap(r) /\ FindsAlso(r, m, w, v) /\ GrowsWhole(m)
      /\ r.size = m.size + (IF HasKey(m, w) THEN 0 ELSE 1)
  BY <1>1, <1>5, <1>7, SetKeeps
<1>9. r.size \in Nat /\ r.size <= j + 1
  <2>1. r.size = m.size \/ r.size = m.size + 1
    BY <1>8
  <2> QED
    BY <1>1, <2>1
<1>10. Tallies(r, frame, j + 1)
  <2>1. ASSUME NEW u \in Word
        PROVE  (HasKey(r, u) <=> Next1(u) # 0) /\ (HasKey(r, u) => Get(r, u) = Next1(u))
    <3>1. CASE u = w
      BY <1>1, <1>2, <1>7, <1>8, <3>1 DEF FindsAlso
    <3>2. CASE u # w
      <4>1. Next1(u) = Count(u)
        BY <1>2, <1>3, <3>2
      <4>2. (HasKey(r, u) <=> HasKey(m, u)) /\ (HasKey(m, u) => Get(r, u) = Get(m, u))
        BY <1>8, <3>2 DEF FindsAlso
      <4> QED
        BY <1>4, <4>1, <4>2
    <3> QED
      BY <3>1, <3>2
  <2> QED
    BY <2>1 DEF Tallies, Next1
<1> QED
  BY <1>8, <1>9, <1>10

---------------------------------------------------------------------------
(* Summer's cursor is at a pair, or behind the last one of a bucket, and    *)
(* has passed all the pairs before it.                                      *)
AtPlace(m, b, j, passed) ==
    /\ b \in 0 .. m.capacity - 1 /\ j \in 0 .. Len(m.items[b])
    /\ passed = Len(UpTo(m)[b]) + j

LEMMA SmallestIn ==
    ASSUME NEW S \in SUBSET Nat, S # {}
    PROVE  \E b \in S : \A e \in S : b <= e
<1>1. PICK x \in S : \A y \in S : <<y, x>> \notin OpToRel(<, Nat)
  BY NatLessThanWellFounded, WFMin
<1>2. \A y \in S : ~(y < x)
  BY <1>1 DEF OpToRel
<1> QED
  BY <1>2

LEMMA EmptyBetween ==
    ASSUME NEW c \in Nat \ {0}, NEW m \in MapOf(c), NEW a \in 0 .. c, NEW b \in a .. c,
           \A i \in a .. b - 1 : Len(m.items[i]) = 0
    PROVE  Len(UpTo(m)[b]) = Len(UpTo(m)[a])
<1> DEFINE T == {i \in Nat : a + i <= b => Len(UpTo(m)[a + i]) = Len(UpTo(m)[a])}
<1>1. 0 \in T
  <2>1. a + 0 = a
    OBVIOUS
  <2> QED
    BY <2>1
<1>2. ASSUME NEW i \in Nat, i \in T
      PROVE  i + 1 \in T
  <2> SUFFICES ASSUME a + (i + 1) <= b
               PROVE  Len(UpTo(m)[a + (i + 1)]) = Len(UpTo(m)[a])
    OBVIOUS
  <2>1. PICK e \in Nat : e = a + i
    OBVIOUS
  <2>2. /\ e \in 0 .. c - 1 /\ e \in a .. b - 1 /\ a + (i + 1) = e + 1 /\ a + i <= b
    BY <2>1
  <2>3. Len(UpTo(m)[e + 1]) = Len(UpTo(m)[e]) + Len(m.items[e]) /\ Len(UpTo(m)[e]) \in Nat
    BY <2>2, UpToNext
  <2>4. Len(m.items[e]) = 0
    BY <2>2
  <2>5. Len(UpTo(m)[e]) = Len(UpTo(m)[a])
    BY <1>2, <2>1, <2>2
  <2>6. \A x \in Nat : x + 0 = x
    OBVIOUS
  <2> QED
    BY <2>2, <2>3, <2>4, <2>5, <2>6
<1>3. PICK k \in Nat : b = a + k
  <2>1. b - a \in Nat /\ b = a + (b - a)
    OBVIOUS
  <2> QED
    BY <2>1
<1>4. k \in T
  <2> HIDE DEF T
  <2> QED
    BY <1>1, <1>2, SetInduction
<1>5. a + k <= b
  BY <1>3
<1> QED
  BY <1>3, <1>4, <1>5

(* As long as the map has more pairs than Summer has passed, next() finds   *)
(* one of them where visit looks.                                           *)
LEMMA FindsNextPair ==
    ASSUME NEW c \in Nat \ {0}, map \in Whole(c), AtPlace(map, bucket, slot, seen),
           seen < map.size,
           NEW h, h = IF AtPair(bucket, slot) THEN <<bucket, slot>> ELSE NextPlace(bucket, slot)
    PROVE  /\ h[1] \in 0 .. c - 1 /\ h[2] \in 0 .. Used(h[1]) - 1
           /\ AtPair(h[1], h[2])
           /\ seen = Len(UpTo(map)[h[1]]) + h[2]
<1>1. /\ map.capacity = c /\ map \in MapOf(c) /\ map.size = Len(Pairs(map))
      /\ \A i \in 0 .. c - 1 : Used(i) \in Nat
  BY MapIs DEF Whole, Used
<1>2. /\ bucket \in 0 .. c - 1 /\ slot \in 0 .. Used(bucket)
      /\ seen = Len(UpTo(map)[bucket]) + slot
  BY <1>1 DEF AtPlace, Used
<1>3. CASE AtPair(bucket, slot)
  <2>1. h = <<bucket, slot>> /\ h[1] = bucket /\ h[2] = slot
    BY <1>3
  <2>2. slot \in 0 .. Used(bucket) - 1
    BY <1>1, <1>2, <1>3 DEF AtPair
  <2> QED
    BY <1>2, <1>3, <2>1, <2>2
<1>4. CASE ~AtPair(bucket, slot)
  <2> DEFINE later == {b \in bucket + 1 .. c - 1 : Used(b) > 0}
  <2>1. bucket # c /\ bucket < c /\ ~(slot < Used(bucket)) /\ slot = Used(bucket)
    BY <1>1, <1>2, <1>4 DEF AtPair
  <2>2. h = <<NextBucket(bucket), 0>>
    BY <1>1, <1>4, <2>1 DEF NextPlace
  <2>3. NextBucket(bucket) = IF later = {} THEN c
                             ELSE CHOOSE b \in later : \A e \in later : b <= e
    BY <1>1 DEF NextBucket
  <2>4. /\ bucket + 1 \in 0 .. c /\ bucket + 1 \in Nat
        /\ Len(UpTo(map)[bucket + 1]) = seen /\ seen \in Nat
    <3>1. /\ Len(UpTo(map)[bucket + 1]) = Len(UpTo(map)[bucket]) + Len(map.items[bucket])
          /\ Len(UpTo(map)[bucket]) \in Nat
      BY <1>1, <1>2, UpToNext
    <3>2. Len(map.items[bucket]) = slot /\ slot \in Nat
      BY <1>2, <2>1 DEF Used
    <3>3. bucket + 1 \in 0 .. c /\ bucket + 1 \in Nat
      BY <1>2
    <3>4. seen \in Nat
      BY <1>2, <3>1, <3>2
    <3> QED
      BY <1>2, <3>1, <3>2, <3>3, <3>4
  <2>5. later # {}
    <3> SUFFICES ASSUME later = {} PROVE FALSE
      OBVIOUS
    <3>1. ASSUME NEW i \in bucket + 1 .. c - 1 PROVE Len(map.items[i]) = 0
      <4>1. ~(Used(i) > 0) /\ i \in 0 .. c - 1
        BY <1>2
      <4>2. Used(i) \in Nat
        BY <1>1, <4>1
      <4> QED
        BY <4>1, <4>2 DEF Used
    <3>2. c \in bucket + 1 .. c
      BY <1>2
    <3>3. Len(UpTo(map)[c]) = seen
      <4>1. PICK a \in 0 .. c : a = bucket + 1
        BY <2>4
      <4>2. map \in MapOf(c) /\ c \in a .. c /\ \A i \in a .. c - 1 : Len(map.items[i]) = 0
        BY <1>1, <3>1, <3>2, <4>1
      <4>3. Len(UpTo(map)[c]) = Len(UpTo(map)[a])
        BY <4>2, EmptyBetween
      <4> QED
        BY <2>4, <4>1, <4>3
    <3>4. map.size = seen
      BY <1>1, <3>3, PairsAre
    <3> QED
      BY <2>4, <3>4
  <2>6. later \in SUBSET Nat
    BY <2>4
  <2>7. \E b \in later : \A e \in later : b <= e
    <3> HIDE DEF later
    <3> QED
      BY <2>5, <2>6, SmallestIn
  <2>8. PICK b \in later : b = NextBucket(bucket) /\ \A e \in later : b <= e
    <3> HIDE DEF later
    <3> QED
      BY <2>3, <2>5, <2>7
  <2>9. b \in bucket + 1 .. c - 1 /\ Used(b) > 0 /\ b \in 0 .. c - 1 /\ Used(b) \in Nat
    BY <1>1, <1>2, <2>8
  <2>10. ASSUME NEW i \in bucket + 1 .. b - 1 PROVE Len(map.items[i]) = 0
    <3>1. i \in bucket + 1 .. c - 1 /\ i \in 0 .. c - 1 /\ ~(b <= i)
      BY <1>2, <2>9
    <3>2. ~(Used(i) > 0)
      BY <2>8, <3>1
    <3>3. Used(i) \in Nat
      BY <1>1, <3>1
    <3> QED
      BY <3>2, <3>3 DEF Used
  <2>11. Len(UpTo(map)[b]) = seen
    <3>1. b \in bucket + 1 .. c
      BY <1>2, <2>9
    <3> QED
      BY <1>1, <2>4, <2>10, <3>1, EmptyBetween
  <2>12. h[1] = b /\ h[2] = 0
    BY <2>2, <2>8
  <2>13. 0 \in 0 .. Used(b) - 1 /\ 0 < Used(b) /\ b < c /\ seen + 0 = seen
    BY <2>4, <2>9
  <2> QED
    BY <1>1, <2>9, <2>11, <2>12, <2>13 DEF AtPair
<1> QED
  BY <1>3, <1>4

LEMMA OneMore ==
    ASSUME NEW S, NEW s \in Seq(S), NEW j \in 0 .. Len(s) - 1
    PROVE  Append(SubSeq(s, 1, j), s[j + 1]) = SubSeq(s, 1, j + 1)
<1>1. j \in Nat /\ Len(s) \in Nat /\ j + 1 \in 1 .. Len(s)
  OBVIOUS
<1>2. SubSeq(s, 1, j) \in Seq(S) /\ Len(SubSeq(s, 1, j)) = j
      /\ \A k \in 1 .. j : SubSeq(s, 1, j)[k] = s[k]
  <2>1. \A k \in 1 .. j : k \in 1 .. Len(s)
    BY <1>1
  <2>2. SubSeq(s, 1, j) = [k \in 1 .. j |-> s[k]]
    BY <1>1
  <2>3. [k \in 1 .. j |-> s[k]] \in [1 .. j -> S]
    BY <2>1
  <2> QED
    BY <1>1, <2>2, <2>3
<1>3. SubSeq(s, 1, j + 1) = [k \in 1 .. j + 1 |-> s[k]]
  BY <1>1
<1> DEFINE t == Append(SubSeq(s, 1, j), s[j + 1])
<1>4. t \in Seq(S) /\ Len(t) = j + 1
  BY <1>1, <1>2
<1>5. \A k \in 1 .. j + 1 : t[k] = s[k]
  BY <1>1, <1>2
<1> HIDE DEF t
<1>6. t = [k \in 1 .. j + 1 |-> t[k]]
  BY <1>1, <1>4
<1> QED
  BY <1>3, <1>5, <1>6 DEF t

(* Summer::visit takes the next pair of the map, and never aborts.           *)
LEMMA VisitTakesNext ==
    ASSUME NEW c \in Nat \ {0}, map \in Whole(c), AtPlace(map, bucket, slot, seen),
           counts = SubSeq(Pairs(map), 1, seen), VisitPair
    PROVE  /\ AtPlace(map, bucket', slot', seen')
           /\ counts' = SubSeq(Pairs(map), 1, seen')
           /\ UNCHANGED <<vars, phase, n, map, all>>
<1> DEFINE h == IF AtPair(bucket, slot) THEN <<bucket, slot>> ELSE NextPlace(bucket, slot)
           t == NextPlace(h[1], h[2])
<1>1. /\ seen < map.size
      /\ IF AtPair(h[1], h[2])
         THEN /\ counts' = Append(counts, map.items[h[1]][h[2] + 1])
              /\ seen' = seen + 1
              /\ bucket' = t[1] /\ slot' = t[2]
              /\ phase' = phase
         ELSE phase' = "aborted" /\ UNCHANGED <<counts, seen, bucket, slot>>
      /\ UNCHANGED <<vars, n, map, all>>
  BY DEF VisitPair
<1>2. /\ h[1] \in 0 .. c - 1 /\ h[2] \in 0 .. Used(h[1]) - 1 /\ AtPair(h[1], h[2])
      /\ seen = Len(UpTo(map)[h[1]]) + h[2]
  <2> HIDE DEF h
  <2>1. /\ h[1] \in 0 .. c - 1 /\ h[2] \in 0 .. Used(h[1]) - 1
        /\ AtPair(h[1], h[2])
        /\ seen = Len(UpTo(map)[h[1]]) + h[2]
    BY <1>1, FindsNextPair DEF h
  <2> QED
    BY <2>1
<1>3. /\ map.capacity = c /\ map \in MapOf(c)
      /\ \A i \in 0 .. c - 1 : Used(i) \in Nat /\ Used(i) = Len(map.items[i])
  BY MapIs DEF Whole, Used
<1>4. t = <<h[1], h[2] + 1>>
  <2>1. h[1] # map.capacity /\ h[2] < Used(h[1])
    BY <1>2, <1>3
  <2> HIDE DEF h
  <2> QED
    BY <2>1 DEF NextPlace
<1> HIDE DEF h, t
<1>5. /\ counts' = Append(counts, map.items[h[1]][h[2] + 1])
      /\ seen' = seen + 1 /\ bucket' = h[1] /\ slot' = h[2] + 1 /\ phase' = phase
  BY <1>1, <1>2, <1>4
<1>13. PICK b \in 0 .. c - 1 : b = h[1]
  BY <1>2
<1>14. Used(b) \in Nat /\ Used(b) = Len(map.items[b])
  BY <1>3
<1>15. PICK j \in Nat : j = h[2] /\ j \in 0 .. Used(b) - 1
  <2>1. h[2] \in 0 .. Used(b) - 1
    BY <1>2, <1>13
  <2>2. PICK u \in Nat : u = Used(b)
    BY <1>14
  <2>3. h[2] \in Nat
    BY <2>1, <2>2
  <2> QED
    BY <2>1, <2>3
<1>16. /\ seen = Len(UpTo(map)[b]) + j /\ bucket' = b /\ slot' = j + 1
       /\ counts' = Append(counts, map.items[b][j + 1])
  BY <1>2, <1>5, <1>13, <1>15
<1>6. j + 1 \in 1 .. Used(b) /\ j + 1 \in 0 .. Used(b)
  BY <1>14, <1>15
<1>7. /\ Len(UpTo(map)[b]) \in Nat /\ b + 1 \in 0 .. c
      /\ Len(UpTo(map)[b + 1]) = Len(UpTo(map)[b]) + Used(b)
      /\ UpTo(map)[b + 1][Len(UpTo(map)[b]) + (j + 1)] = map.items[b][j + 1]
  <2>1. map \in MapOf(c) /\ j + 1 \in 1 .. Len(map.items[b]) /\ b + 1 \in 0 .. c
    BY <1>3, <1>6, <1>14
  <2>2. /\ Len(UpTo(map)[b]) \in Nat
        /\ Len(UpTo(map)[b + 1]) = Len(UpTo(map)[b]) + Len(map.items[b])
        /\ \A p \in 1 .. Len(map.items[b]) :
              UpTo(map)[b + 1][Len(UpTo(map)[b]) + p] = map.items[b][p]
    BY <2>1, UpToNext
  <2> QED
    BY <1>14, <2>1, <2>2
<1>8. PICK l \in Nat : l = Len(UpTo(map)[b])
  BY <1>7
<1>9. seen = l + j /\ seen + 1 = l + (j + 1) /\ seen \in Nat
  <2>1. seen = l + j
    BY <1>8, <1>16
  <2> QED
    BY <2>1
<1>10. AtPlace(map, bucket', slot', seen')
  BY <1>3, <1>5, <1>6, <1>8, <1>9, <1>14, <1>16 DEF AtPlace
<1>11. /\ Pairs(map) \in Seq(Entry) /\ seen \in 0 .. Len(Pairs(map)) - 1
       /\ Pairs(map)[seen + 1] = map.items[b][j + 1]
  <2>1. seen + 1 \in 1 .. Len(UpTo(map)[b + 1])
    <3>1. Len(UpTo(map)[b + 1]) = l + Used(b)
      BY <1>7, <1>8
    <3> QED
      BY <1>6, <1>9, <1>14, <3>1
  <2>2. /\ Len(Pairs(map)) \in Nat /\ Len(UpTo(map)[b + 1]) \in 0 .. Len(Pairs(map))
        /\ Pairs(map)[seen + 1] = UpTo(map)[b + 1][seen + 1]
    BY <1>3, <1>7, <2>1, PairsInOrder
  <2>3. seen \in 0 .. Len(Pairs(map)) - 1
    BY <1>9, <2>1, <2>2
  <2>4. Pairs(map) \in Seq(Entry)
    BY PairsList DEF Whole, Lists
  <2> QED
    BY <1>7, <1>8, <1>9, <2>2, <2>3, <2>4
<1>12. counts' = SubSeq(Pairs(map), 1, seen + 1)
  BY <1>11, <1>16, OneMore
<1> QED
  BY <1>1, <1>5, <1>10, <1>12

(* reduce: a pair of the first map that the second one has not got yet.      *)
LEMMA AddedHolds ==
    ASSUME NEW m, NEW P, Lists(P, m), NEW j \in 0 .. Len(P) - 1,
           NEW a, GoodMap(a), HoldsFirst(a, P, j),
           NEW r, r = Added(a, P[j + 1].key, P[j + 1].val)
    PROVE  GoodMap(r) /\ HoldsFirst(r, P, j + 1) /\ GrowsWhole(a)
<1>1. PICK i \in 1 .. Len(P) : i = j + 1
  OBVIOUS
<1> DEFINE w == P[i].key
           v == P[i].val
<1>2. /\ Len(P) \in Nat /\ w \in Word /\ v \in Int
      /\ \A q \in 1 .. Len(P) : P[q].key \in Word
      /\ \A q, p \in 1 .. Len(P) : P[q].key = P[p].key => q = p
  BY DEF Lists
<1>3. /\ j \in Nat /\ i = j + 1 /\ \A q \in 1 .. j : q \in 1 .. Len(P) /\ q # i
      /\ \A q : q \in 1 .. i <=> q \in 1 .. j \/ q = i
  BY <1>1
<1>4. /\ a.size = j
      /\ \A u \in Word : HasKey(a, u) <=> \E q \in 1 .. j : P[q].key = u
      /\ \A q \in 1 .. j : Get(a, P[q].key) = P[q].val
  BY DEF HoldsFirst
<1>5. ~HasKey(a, w)
  BY <1>2, <1>3, <1>4
<1>6. \A q \in 1 .. j : P[q].key # w
  BY <1>2, <1>3
<1> HIDE DEF w, v
<1>7. r = Set(a, w, v)
  <2>1. v + 0 = v
    BY <1>2
  <2> QED
    BY <1>1, <1>5, <2>1 DEF Added, w, v
<1>8. GoodMap(r) /\ FindsAlso(r, a, w, v) /\ GrowsWhole(a) /\ r.size = a.size + 1
  BY <1>2, <1>5, <1>7, SetKeeps
<1>9. ASSUME NEW u \in Word
      PROVE  HasKey(r, u) <=> \E q \in 1 .. i : P[q].key = u
  <2>1. CASE u = w
    BY <1>3, <1>8, <2>1 DEF FindsAlso, w
  <2>2. CASE u # w
    <3>1. HasKey(r, u) <=> HasKey(a, u)
      BY <1>8, <2>2 DEF FindsAlso
    <3>2. P[i].key # u
      BY <2>2 DEF w
    <3> QED
      BY <1>3, <1>4, <3>1, <3>2
  <2> QED
    BY <2>1, <2>2
<1>10. ASSUME NEW q \in 1 .. i
       PROVE  Get(r, P[q].key) = P[q].val
  <2>1. CASE q = i
    BY <1>8, <2>1 DEF FindsAlso, w, v
  <2>2. CASE q \in 1 .. j
    <3>1. P[q].key \in Word /\ P[q].key # w
      BY <1>2, <1>3, <1>6, <2>2
    <3>2. HasKey(a, P[q].key) /\ Get(a, P[q].key) = P[q].val
      BY <1>4, <2>2, <3>1
    <3> QED
      BY <1>8, <3>1, <3>2 DEF FindsAlso
  <2> QED
    BY <1>3, <2>1, <2>2
<1>11. r.size = i
  BY <1>3, <1>4, <1>8
<1>12. HoldsFirst(r, P, i)
  BY <1>9, <1>10, <1>11 DEF HoldsFirst
<1> QED
  BY <1>1, <1>8, <1>12

---------------------------------------------------------------------------
(* What makes MapSound, MapCounts and EveryPairOnce inductive: how many     *)
(* rows are in the first map and how many pairs in the second, whatever the *)
(* phase, and where Summer is.                                              *)
Mapped == IF phase \in {"reading", "adding"} THEN n - 1 ELSE Len(rows)
Reduced ==
    IF phase = "reducing" THEN n - 1 ELSE IF phase = "printed" THEN Len(counts) ELSE 0

StageInv ==
    /\ phase \in Phases \ {"aborted"}
    /\ phase # "reading" => pc = "finished"
    /\ n \in 1 .. Len(rows) + 1
    /\ phase = "reading" => n = 1
MappedInv ==
    /\ GoodMap(map) /\ Mapped \in 0 .. Len(rows) /\ map.size <= Mapped
    /\ Tallies(map, rows, Mapped)
SummedInv ==
    /\ phase \in {"reading", "adding"} => bucket = 0 /\ slot = 0 /\ seen = 0
    /\ AtPlace(map, bucket, slot, seen)
    /\ counts = SubSeq(Pairs(map), 1, seen)
    /\ phase \in {"reducing", "printed"} => counts = Pairs(map)
ReducedInv ==
    /\ GoodMap(all) /\ Reduced \in 0 .. Len(counts)
    /\ HoldsFirst(all, counts, Reduced)
RunInv == StageInv /\ MappedInv /\ SummedInv /\ ReducedInv

LEMMA GoodMapIs ==
    ASSUME NEW m, GoodMap(m)
    PROVE  /\ m.capacity \in Nat \ {0} /\ m \in Whole(m.capacity) /\ m \in MapOf(m.capacity)
           /\ Filed(m) /\ m.size = Len(Pairs(m)) /\ m.size \in Nat /\ m.size <= m.capacity
           /\ Pairs(m) \in Seq(Entry) /\ Lists(Pairs(m), m)
<1>1. PICK c \in Nat \ {0} : m \in Whole(c) /\ m.size <= c
  BY DEF GoodMap
<1>2. m.capacity = c /\ m \in MapOf(c) /\ Filed(m) /\ m.size = Len(Pairs(m)) /\ m.size \in Nat
  BY <1>1, MapIs DEF Whole
<1>3. Lists(Pairs(m), m)
  BY <1>2, PairsList
<1> QED
  BY <1>1, <1>2, <1>3 DEF Lists

LEMMA RowsType ==
    ASSUME BufferInv
    PROVE  rows \in Seq(Word) /\ Len(rows) \in Nat
<1>1. rows \in Seq(Seq(Char))
  BY DEF BufferInv, TypeOK
<1>2. Seq(Char) \subseteq Word
  <2> SUFFICES ASSUME NEW w \in Seq(Char) PROVE w \in Seq(Int)
    BY DEF Word
  <2>1. Len(w) \in Nat /\ \A k \in 1 .. Len(w) : w[k] \in Int
    <3>1. Len(w) \in Nat /\ \A k \in 1 .. Len(w) : w[k] \in Char
      OBVIOUS
    <3>2. \A x \in Char : x \in Int
      BY CharAssumption
    <3> QED
      BY <3>1, <3>2
  <2>2. w = [k \in 1 .. Len(w) |-> w[k]]
    OBVIOUS
  <2> QED
    BY <2>1, <2>2
<1>3. Len(rows) \in Nat /\ rows = [k \in 1 .. Len(rows) |-> rows[k]]
  BY <1>1
<1>4. \A k \in 1 .. Len(rows) : rows[k] \in Word
  BY <1>1, <1>2
<1> QED
  BY <1>3, <1>4

LEMMA AtFirstPlace ==
    ASSUME NEW m, GoodMap(m)
    PROVE  AtPlace(m, 0, 0, 0) /\ SubSeq(Pairs(m), 1, 0) = << >>
<1>1. PICK c \in Nat \ {0} : c = m.capacity
  BY GoodMapIs
<1>2. m \in MapOf(c) /\ Pairs(m) \in Seq(Entry)
  BY <1>1, GoodMapIs
<1>3. Len(m.items[0]) \in Nat
  <2>1. 0 \in 0 .. c - 1
    OBVIOUS
  <2> QED
    BY <1>2, <2>1, MapIs
<1>4. UpTo(m)[0] = << >> /\ Len(<< >>) = 0
  BY <1>2, UpToIs DEF IsUpTo
<1>5. 0 \in 0 .. c - 1 /\ 0 \in 0 .. Len(m.items[0]) /\ 0 = 0 + 0
  BY <1>3
<1> QED
  BY <1>1, <1>2, <1>4, <1>5 DEF AtPlace

LEMMA RunInvInit == RunInit => RunInv
<1> SUFFICES ASSUME RunInit PROVE RunInv
  OBVIOUS
<1>1. /\ rows = << >> /\ Len(rows) = 0 /\ phase = "reading" /\ n = 1
      /\ map = NewMap /\ all = NewMap
      /\ bucket = 0 /\ slot = 0 /\ seen = 0 /\ counts = << >> /\ Len(counts) = 0
  BY DEF RunInit, Init
<1>2. GoodMap(NewMap) /\ NewMap.size = 0 /\ \A w \in Word : ~HasKey(NewMap, w)
  BY NewMapGood
<1>3. Mapped = 0 /\ Reduced = 0
  BY <1>1 DEF Mapped, Reduced
<1>4. StageInv
  BY <1>1 DEF StageInv, Phases
<1>5. MappedInv
  <2>1. rows \in Seq(Word)
    BY <1>1
  <2>2. Tallies(map, rows, 0)
    BY <1>1, <1>2, <2>1, NoOccurrences DEF Tallies
  <2> QED
    BY <1>1, <1>2, <1>3, <2>2 DEF MappedInv
<1>6. SummedInv
  BY <1>1, <1>2, AtFirstPlace DEF SummedInv
<1>7. ReducedInv
  <2>1. HoldsFirst(all, counts, 0)
    BY <1>1, <1>2 DEF HoldsFirst
  <2> QED
    BY <1>1, <1>2, <1>3, <2>1 DEF ReducedInv
<1> QED
  BY <1>4, <1>5, <1>6, <1>7 DEF RunInv

LEMMA ReadKeepsRun ==
    ASSUME BufferInv, BufferInv', RunInv, Read
    PROVE  RunInv'
<1>1. UNCHANGED <<phase, n, map, bucket, slot, seen, counts, all>>
  BY DEF Read, countVars
<1>2. pc # "finished"
  BY DEF Read, Next, Open, CannotOpen, SkipAtEnd, SkipRefill, SkipLook, Finish, Visit,
         ScanAtEnd, ScanRefill, ScanLook, TakeWord, Fault
<1>3. phase = "reading" /\ n = 1
  BY <1>2 DEF RunInv, StageInv
<1>4. Mapped = 0 /\ Mapped' = 0 /\ Reduced' = Reduced
  BY <1>1, <1>3 DEF Mapped, Reduced
<1>5. rows \in Seq(Word) /\ rows' \in Seq(Word) /\ Len(rows') \in Nat
  <2>1. (rows \in Seq(Word) /\ Len(rows) \in Nat)'
    BY RowsType, PTL
  <2> QED
    BY <2>1, RowsType
<1>6. \A w \in Word : ~HasKey(map, w)
  BY <1>4, <1>5, NoOccurrences DEF RunInv, MappedInv, Tallies
<1>7. Tallies(map, rows', 0)
  BY <1>5, <1>6, NoOccurrences DEF Tallies
<1>8. StageInv'
  BY <1>1, <1>3, <1>5 DEF RunInv, StageInv
<1>9. MappedInv'
  BY <1>1, <1>4, <1>5, <1>7 DEF RunInv, MappedInv, Tallies
<1>10. SummedInv'
  BY <1>1 DEF RunInv, SummedInv
<1>11. ReducedInv'
  BY <1>1, <1>4 DEF RunInv, ReducedInv
<1> QED
  BY <1>8, <1>9, <1>10, <1>11 DEF RunInv

LEMMA AddWordKeepsRun ==
    ASSUME BufferInv, RunInv, AddWord
    PROVE  RunInv'
<1>1. /\ phase = "adding" /\ n <= Len(rows)
      /\ map' = Added(map, rows[n], 1)
      /\ phase' = IF GrowsWhole(map) THEN "adding" ELSE "aborted"
      /\ n' = n + 1
      /\ UNCHANGED <<vars, bucket, slot, seen, counts, all>>
  BY DEF AddWord, RowAt
<1>2. UNCHANGED <<rows, pc>>
  BY <1>1 DEF vars
<1>3. rows \in Seq(Word) /\ Len(rows) \in Nat
  BY RowsType
<1>4. /\ n \in 1 .. Len(rows) + 1 /\ pc = "finished"
      /\ GoodMap(map) /\ Mapped = n - 1 /\ map.size <= Mapped /\ Tallies(map, rows, Mapped)
      /\ bucket = 0 /\ slot = 0 /\ seen = 0 /\ counts = SubSeq(Pairs(map), 1, seen)
  BY <1>1 DEF RunInv, StageInv, MappedInv, SummedInv, Mapped
<1>5. PICK j \in 0 .. Len(rows) - 1 : j = n - 1 /\ n = j + 1
  <2>1. n - 1 \in 0 .. Len(rows) - 1 /\ n = (n - 1) + 1
    BY <1>1, <1>3, <1>4
  <2> QED
    BY <2>1
<1>6. map.size \in Nat /\ map.size <= j /\ Tallies(map, rows, j)
  BY <1>4, <1>5, GoodMapIs
<1>7. /\ GoodMap(map') /\ Tallies(map', rows, j + 1)
      /\ map'.size <= j + 1 /\ GrowsWhole(map)
  BY <1>1, <1>3, <1>4, <1>5, <1>6, AddedTallies
<1>8. phase' = "adding"
  BY <1>1, <1>7
<1>9. j + 1 \in 0 .. Len(rows) /\ Mapped' = j + 1 /\ n' \in 1 .. Len(rows) + 1
  <2>1. n' - 1 = j + 1 /\ j + 1 \in 0 .. Len(rows) /\ n' \in 1 .. Len(rows) + 1
    BY <1>1, <1>3, <1>5
  <2> QED
    BY <1>8, <2>1 DEF Mapped
<1>10. Reduced' = Reduced
  BY <1>1, <1>8 DEF Reduced
<1>11. StageInv'
  BY <1>2, <1>4, <1>8, <1>9 DEF StageInv, Phases
<1>12. MappedInv'
  BY <1>2, <1>7, <1>9 DEF MappedInv, Tallies
<1>13. SummedInv'
  <2>1. AtPlace(map', 0, 0, 0) /\ SubSeq(Pairs(map'), 1, 0) = << >>
    BY <1>7, AtFirstPlace
  <2>2. counts = << >>
    BY <1>4, AtFirstPlace
  <2> QED
    BY <1>1, <1>4, <1>8, <2>1, <2>2 DEF SummedInv
<1>14. ReducedInv'
  BY <1>1, <1>10 DEF RunInv, ReducedInv
<1> QED
  BY <1>11, <1>12, <1>13, <1>14 DEF RunInv

LEMMA AddCountKeepsRun ==
    ASSUME BufferInv, RunInv, AddCount
    PROVE  RunInv'
<1>1. /\ phase = "reducing" /\ n <= Len(counts)
      /\ all' = Added(all, counts[n].key, counts[n].val)
      /\ phase' = IF GrowsWhole(all) THEN "reducing" ELSE "aborted"
      /\ n' = n + 1
      /\ UNCHANGED <<vars, map, bucket, slot, seen, counts>>
  BY DEF AddCount, RowAt
<1>2. UNCHANGED <<rows, pc>>
  BY <1>1 DEF vars
<1>3. /\ n \in 1 .. Len(rows) + 1 /\ pc = "finished" /\ Len(rows) \in Nat
      /\ GoodMap(map) /\ Mapped = Len(rows) /\ map.size <= Len(rows)
      /\ Tallies(map, rows, Mapped)
      /\ counts = Pairs(map) /\ AtPlace(map, bucket, slot, seen)
      /\ counts = SubSeq(Pairs(map), 1, seen)
      /\ GoodMap(all) /\ Reduced = n - 1 /\ HoldsFirst(all, counts, Reduced)
  BY <1>1, RowsType DEF RunInv, StageInv, MappedInv, SummedInv, ReducedInv, Mapped, Reduced
<1>4. /\ Lists(counts, map) /\ Len(counts) \in Nat /\ Len(counts) = map.size
  BY <1>3, GoodMapIs
<1>14. PICK l, r \in Nat : l = Len(counts) /\ r = Len(rows)
  BY <1>3, <1>4
<1>15. n \in 1 .. l /\ l <= r
  <2>1. n \in 1 .. r + 1 /\ n <= l
    BY <1>1, <1>3, <1>14
  <2>2. l <= r
    BY <1>3, <1>4, <1>14
  <2> QED
    BY <2>1, <2>2
<1>5. PICK j \in 0 .. Len(counts) - 1 : j = n - 1 /\ n = j + 1
  <2>1. n - 1 \in 0 .. l - 1 /\ n = (n - 1) + 1
    BY <1>15
  <2> QED
    BY <1>14, <2>1
<1>6. GoodMap(all') /\ HoldsFirst(all', counts, j + 1) /\ GrowsWhole(all)
  BY <1>1, <1>3, <1>4, <1>5, AddedHolds
<1>7. phase' = "reducing"
  BY <1>1, <1>6
<1>8. j + 1 \in 0 .. Len(counts) /\ Reduced' = j + 1 /\ n' \in 1 .. Len(rows) + 1
  <2>1. n' - 1 = j + 1 /\ j + 1 \in 0 .. Len(counts)
    BY <1>1, <1>4, <1>5
  <2>2. n' \in 1 .. Len(rows) + 1
    <3>1. n + 1 \in 1 .. r + 1
      BY <1>15
    <3> QED
      BY <1>1, <1>14, <3>1
  <2> QED
    BY <1>7, <2>1, <2>2 DEF Reduced
<1>9. Mapped' = Mapped
  BY <1>1, <1>2, <1>7 DEF Mapped
<1>10. StageInv'
  BY <1>2, <1>3, <1>7, <1>8 DEF StageInv, Phases
<1>11. MappedInv'
  BY <1>1, <1>2, <1>9 DEF RunInv, MappedInv, Tallies
<1>12. SummedInv'
  BY <1>1, <1>3, <1>7 DEF SummedInv
<1>13. ReducedInv'
  BY <1>1, <1>6, <1>8 DEF ReducedInv
<1> QED
  BY <1>10, <1>11, <1>12, <1>13 DEF RunInv

(* The cursor has passed no more pairs than there are.                       *)
LEMMA PlaceInPairs ==
    ASSUME NEW c \in Nat \ {0}, NEW m \in MapOf(c), NEW b, NEW j, NEW passed,
           AtPlace(m, b, j, passed)
    PROVE  passed \in 0 .. Len(Pairs(m))
<1>1. b \in 0 .. c - 1 /\ j \in 0 .. Len(m.items[b]) /\ passed = Len(UpTo(m)[b]) + j
  BY MapIs DEF AtPlace
<1>2. /\ Len(UpTo(m)[b]) \in Nat /\ Len(m.items[b]) \in Nat
      /\ Len(UpTo(m)[b + 1]) = Len(UpTo(m)[b]) + Len(m.items[b])
  BY <1>1, UpToNext
<1>3. b + 1 \in 0 .. c
  BY <1>1
<1>4. Len(Pairs(m)) \in Nat /\ Len(UpTo(m)[b + 1]) \in 0 .. Len(Pairs(m))
  BY <1>3, PairsInOrder
<1>5. PICK x, y, z \in Nat : x = Len(UpTo(m)[b]) /\ y = Len(m.items[b]) /\ z = Len(Pairs(m))
  BY <1>2, <1>4
<1>6. j \in 0 .. y /\ x + y <= z /\ passed = x + j
  <2>1. j \in 0 .. y /\ passed = x + j
    BY <1>1, <1>5
  <2>2. PICK u : u = Len(UpTo(m)[b + 1])
    OBVIOUS
  <2>3. u = x + y /\ u \in 0 .. z
    BY <1>2, <1>4, <1>5, <2>2
  <2> QED
    BY <2>1, <2>3
<1>7. passed \in 0 .. z
  BY <1>6
<1> QED
  BY <1>5, <1>7

LEMMA VisitPairKeepsRun ==
    ASSUME BufferInv, RunInv, VisitPair
    PROVE  RunInv'
<1>1. phase = "summing"
  BY DEF VisitPair
<1>2. PICK c \in Nat \ {0} : c = map.capacity /\ map \in Whole(c)
  BY GoodMapIs DEF RunInv, MappedInv
<1>3. /\ AtPlace(map, bucket', slot', seen')
      /\ counts' = SubSeq(Pairs(map), 1, seen')
      /\ UNCHANGED <<vars, phase, n, map, all>>
  BY <1>2, VisitTakesNext DEF RunInv, SummedInv
<1>4. UNCHANGED <<rows, pc>>
  BY <1>3 DEF vars
<1>5. Mapped' = Mapped /\ Reduced = 0 /\ Reduced' = 0
  BY <1>1, <1>3, <1>4 DEF Mapped, Reduced
<1>6. StageInv'
  BY <1>3, <1>4 DEF RunInv, StageInv
<1>7. MappedInv'
  BY <1>3, <1>4, <1>5 DEF RunInv, MappedInv, Tallies
<1>8. SummedInv'
  BY <1>1, <1>3 DEF SummedInv
<1>9. ReducedInv'
  <2>1. Len(counts') \in Nat
    <3>1. AtPlace(map, bucket', slot', seen') /\ map \in MapOf(c)
          /\ Pairs(map) \in Seq(Entry)
      BY <1>2, <1>3, GoodMapIs DEF RunInv, MappedInv
    <3>2. counts' \in Seq(Entry)
      <4>1. seen' \in 0 .. Len(Pairs(map))
        BY <1>2, <3>1, PlaceInPairs
      <4> QED
        BY <1>3, <3>1, <4>1
    <3> QED
      BY <3>2
  <2>2. HoldsFirst(all, counts', 0)
    BY <1>5 DEF RunInv, ReducedInv, HoldsFirst
  <2>3. GoodMap(all) /\ all' = all
    BY <1>3 DEF RunInv, ReducedInv
  <2>4. 0 \in 0 .. Len(counts')
    BY <2>1
  <2> QED
    BY <1>5, <2>2, <2>3, <2>4 DEF ReducedInv
<1> QED
  BY <1>6, <1>7, <1>8, <1>9 DEF RunInv

LEMMA OtherStepsKeepRun ==
    ASSUME BufferInv, RunInv,
           StartAdding \/ StartSumming \/ StartReducing \/ PrintAnswer \/ UNCHANGED runVars
    PROVE  RunInv'
<1>1. /\ UNCHANGED <<rows, pc, map, bucket, slot, seen, counts, all>>
      /\ rows \in Seq(Word) /\ Len(rows) \in Nat
  BY RowsType DEF StartAdding, StartSumming, StartReducing, PrintAnswer, runVars, vars, countVars
<1>2. /\ GoodMap(map) /\ Tallies(map, rows, Mapped) /\ Mapped \in 0 .. Len(rows)
      /\ n \in 1 .. Len(rows) + 1
      /\ GoodMap(all) /\ HoldsFirst(all, counts, Reduced) /\ Reduced \in 0 .. Len(counts)
  BY DEF RunInv, StageInv, MappedInv, ReducedInv
<1>3. ASSUME phase' \in Phases \ {"aborted"}, phase' # "reading" => pc = "finished",
             n' \in 1 .. Len(rows) + 1, phase' = "reading" => n' = 1,
             Mapped' = Mapped, Reduced' = Reduced,
             phase' \in {"reading", "adding"} => phase \in {"reading", "adding"},
             phase' \in {"reducing", "printed"} => counts = Pairs(map)
      PROVE  RunInv'
  <2>1. StageInv'
    BY <1>1, <1>3 DEF StageInv
  <2>2. MappedInv'
    BY <1>1, <1>3 DEF RunInv, MappedInv, Tallies
  <2>3. SummedInv'
    BY <1>1, <1>3 DEF RunInv, SummedInv
  <2>4. ReducedInv'
    BY <1>1, <1>3 DEF RunInv, ReducedInv
  <2> QED
    BY <2>1, <2>2, <2>3, <2>4 DEF RunInv
<1>4. CASE StartAdding
  <2>1. phase = "reading" /\ pc = "finished" /\ phase' = "adding" /\ n' = n
    BY <1>4 DEF StartAdding
  <2>2. Mapped' = Mapped /\ Reduced' = Reduced
    BY <1>1, <2>1 DEF Mapped, Reduced
  <2> QED
    BY <1>2, <1>3, <2>1, <2>2 DEF Phases
<1>5. CASE StartSumming
  <2>1. phase = "adding" /\ n > Len(rows) /\ phase' = "summing" /\ n' = n
    BY <1>5 DEF StartSumming
  <2>2. n - 1 = Len(rows)
    BY <1>1, <1>2, <2>1
  <2>3. Mapped' = Mapped /\ Reduced' = Reduced
    BY <1>1, <2>1, <2>2 DEF Mapped, Reduced
  <2>4. pc = "finished"
    BY <2>1 DEF RunInv, StageInv
  <2> QED
    BY <1>2, <1>3, <2>1, <2>3, <2>4 DEF Phases
<1>6. CASE StartReducing
  <2>1. phase = "summing" /\ seen >= map.size /\ phase' = "reducing" /\ n' = 1
    BY <1>6 DEF StartReducing
  <2>2. 1 - 1 = 0 /\ 1 \in 1 .. Len(rows) + 1
    BY <1>1
  <2>3. Mapped' = Mapped /\ Reduced' = Reduced
    BY <1>1, <2>1, <2>2 DEF Mapped, Reduced
  <2>4. PICK c \in Nat \ {0} : c = map.capacity /\ map \in MapOf(c)
    BY <1>2, GoodMapIs
  <2>5. AtPlace(map, bucket, slot, seen) /\ counts = SubSeq(Pairs(map), 1, seen)
    BY DEF RunInv, SummedInv
  <2>6. Pairs(map) \in Seq(Entry) /\ Len(Pairs(map)) \in Nat /\ map.size = Len(Pairs(map))
    BY <1>2, GoodMapIs
  <2>7. seen \in 0 .. Len(Pairs(map))
    BY <2>4, <2>5, PlaceInPairs
  <2>8. seen = Len(Pairs(map))
    BY <2>1, <2>6, <2>7
  <2>9. counts = Pairs(map)
    <3>1. SubSeq(Pairs(map), 1, Len(Pairs(map))) = Pairs(map)
      BY <2>6
    <3> QED
      BY <2>5, <2>8, <3>1
  <2>10. pc = "finished"
    BY <2>1 DEF RunInv, StageInv
  <2> QED
    BY <1>3, <2>1, <2>2, <2>3, <2>9, <2>10 DEF Phases
<1>7. CASE PrintAnswer
  <2>1. phase = "reducing" /\ n > Len(counts) /\ phase' = "printed" /\ n' = n
    BY <1>7 DEF PrintAnswer
  <2>2. counts = Pairs(map) /\ pc = "finished"
    BY <2>1 DEF RunInv, StageInv, SummedInv
  <2>3. Len(counts) \in Nat
    BY <1>2, <2>2, GoodMapIs
  <2>4. n - 1 \in 0 .. Len(counts) /\ n \in Nat
    BY <1>1, <1>2, <2>1 DEF Reduced
  <2>5. n - 1 = Len(counts)
    BY <2>1, <2>3, <2>4
  <2>6. Mapped' = Mapped /\ Reduced' = Reduced
    BY <1>1, <2>1, <2>5 DEF Mapped, Reduced
  <2> QED
    BY <1>2, <1>3, <2>1, <2>2, <2>6 DEF Phases
<1>8. CASE UNCHANGED runVars
  <2>1. phase' = phase /\ n' = n
    BY <1>8 DEF runVars, countVars
  <2>2. Mapped' = Mapped /\ Reduced' = Reduced
    BY <1>1, <2>1 DEF Mapped, Reduced
  <2>3. /\ phase \in Phases \ {"aborted"} /\ (phase # "reading" => pc = "finished")
        /\ phase = "reading" => n = 1
        /\ phase \in {"reducing", "printed"} => counts = Pairs(map)
    BY DEF RunInv, StageInv, SummedInv
  <2> QED
    BY <1>2, <1>3, <2>1, <2>2, <2>3
<1> QED
  BY <1>4, <1>5, <1>6, <1>7, <1>8

LEMMA RunInvAlways == RunSpec => [](BufferInv /\ RunInv)
<1>1. BufferInv /\ BufferInv' /\ RunInv /\ [RunNext]_runVars => RunInv'
  <2> SUFFICES ASSUME BufferInv, BufferInv', RunInv, [RunNext]_runVars PROVE RunInv'
    OBVIOUS
  <2>1. CASE Read
    BY <2>1, ReadKeepsRun
  <2>2. CASE AddWord
    BY <2>2, AddWordKeepsRun
  <2>3. CASE VisitPair
    BY <2>3, VisitPairKeepsRun
  <2>4. CASE AddCount
    BY <2>4, AddCountKeepsRun
  <2>5. CASE StartAdding \/ StartSumming \/ StartReducing \/ PrintAnswer \/ UNCHANGED runVars
    BY <2>5, OtherStepsKeepRun
  <2> QED
    BY <2>1, <2>2, <2>3, <2>4, <2>5 DEF RunNext, Work, End
<1> QED
  BY RunReads, BufferInvAlways, RunInvInit, <1>1, PTL DEF RunSpec

(* Summer takes the pairs of the map in order, each once, until it has as   *)
(* many as the map says it has, and then it has all of them; it never looks *)
(* where there is none, and no grow() loses a pair, so neither v() nor grow *)
(* aborts (Summer::next and visit, Map::grow).                              *)
THEOREM EveryPairOnceAlways == RunSpec => []EveryPairOnce
<1>1. RunInv => EveryPairOnce
  BY DEF RunInv, StageInv, SummedInv, EveryPairOnce, Phases
<1> QED
  BY <1>1, RunInvAlways, PTL

(* While Adder goes through the rows the map holds, of every word so far,   *)
(* how often it has occurred, through every grow and with any two words     *)
(* whose hashes collide (Adder::visit, Map::set and get).                   *)
THEOREM MapCountsAlways == RunSpec => []MapCounts
<1>1. BufferInv /\ RunInv => MapCounts
  <2> SUFFICES ASSUME BufferInv, RunInv, phase = "adding", NEW w \in WordsRead
               PROVE  LET so_far == Occurrences(SubSeq(rows, 1, n - 1), w)
                      IN  IF so_far = 0 THEN ~HasKey(map, w)
                          ELSE HasKey(map, w) /\ Get(map, w) = so_far
    BY DEF MapCounts
  <2>1. w \in Word
    BY RowsType DEF WordsRead
  <2>2. Tallies(map, rows, n - 1)
    BY DEF RunInv, MappedInv, Mapped
  <2> QED
    BY <2>1, <2>2 DEF Tallies
<1> QED
  BY <1>1, RunInvAlways, PTL

(* A map finds every key where its hash says, holds it once, counts its     *)
(* pairs right and has not outgrown its buckets (Map::set and grow).        *)
THEOREM MapSoundAlways == RunSpec => []MapSound
<1>1. ASSUME NEW m, GoodMap(m) PROVE Sound(m)
  <2>1. PICK c \in Nat \ {0} : c = m.capacity
    BY <1>1, GoodMapIs
  <2>2. /\ m \in MapOf(c) /\ Filed(m) /\ m.size = Len(Pairs(m)) /\ m.size <= m.capacity
    BY <1>1, <2>1, GoodMapIs
  <2>3. DOMAIN m.items = 0 .. m.capacity - 1
    BY <2>1, <2>2 DEF MapOf
  <2>4. \A i \in DOMAIN m.items : DOMAIN m.items[i] = 1 .. Len(m.items[i])
    BY <2>1, <2>2, <2>3, MapIs
  <2> QED
    BY <2>2, <2>3, <2>4 DEF Sound, Filed
<1>2. RunInv => MapSound
  BY <1>1 DEF RunInv, MappedInv, ReducedInv, MapSound
<1> QED
  BY <1>2, RunInvAlways, PTL

---------------------------------------------------------------------------
(* What is in the maps and in the frame of counts are words that were read. *)
LEMMA InMapWasRead ==
    ASSUME BufferInv, MappedInv, NEW w \in Word, HasKey(map, w)
    PROVE  w \in WordsRead /\ Get(map, w) \in 1 .. Len(rows)
<1> DEFINE o == Occurrences(SubSeq(rows, 1, Mapped), w)
<1>1. rows \in Seq(Word) /\ Len(rows) \in Nat /\ Mapped \in 0 .. Len(rows)
  BY RowsType DEF MappedInv
<1>2. o \in 0 .. Mapped /\ (o # 0 => \E k \in 1 .. Mapped : rows[k] = w)
  BY <1>1, OccurrencesAre
<1>3. o # 0 /\ Get(map, w) = o
  BY DEF MappedInv, Tallies
<1> HIDE DEF o
<1>4. PICK k \in 1 .. Mapped : rows[k] = w
  BY <1>2, <1>3
<1>5. k \in DOMAIN rows
  BY <1>1
<1>6. o \in 1 .. Len(rows)
  BY <1>1, <1>2, <1>3
<1> QED
  BY <1>3, <1>4, <1>5, <1>6 DEF WordsRead

LEMMA InCountsWasRead ==
    ASSUME BufferInv, RunInv
    PROVE  /\ seen = Len(counts) /\ seen \in Nat /\ DOMAIN counts = 1 .. seen
           /\ \A k \in 1 .. seen : /\ counts[k].key \in Word /\ HasKey(map, counts[k].key)
                                   /\ Get(map, counts[k].key) = counts[k].val
<1> DEFINE P == Pairs(map)
<1>1. GoodMap(map) /\ AtPlace(map, bucket, slot, seen) /\ counts = SubSeq(P, 1, seen)
  BY DEF RunInv, MappedInv, SummedInv
<1>2. P \in Seq(Entry) /\ Lists(P, map)
  BY <1>1, GoodMapIs
<1>3. seen \in 0 .. Len(P)
  <2>1. PICK c \in Nat \ {0} : c = map.capacity /\ map \in MapOf(c)
    BY <1>1, GoodMapIs
  <2> QED
    BY <1>1, <2>1, PlaceInPairs
<1> HIDE DEF P
<1>4. counts = [k \in 1 .. seen |-> P[k]] /\ seen \in Nat
  BY <1>1, <1>2, <1>3
<1>5. \A k \in 1 .. seen : k \in 1 .. Len(P)
  BY <1>2, <1>3
<1>6. Len(counts) = seen
  BY <1>4
<1> QED
  BY <1>2, <1>4, <1>5, <1>6 DEF Lists

(* The state of a run has the expected shape; in particular Summer's cursor *)
(* stays in the map, every count is one of a word that was read, and none   *)
(* is zero or more than there are rows.                                     *)
THEOREM RunTypeCorrect == RunSpec => []RunTypeOK
<1>1. BufferInv /\ RunInv => RunTypeOK
  <2> SUFFICES ASSUME BufferInv, RunInv PROVE RunTypeOK
    OBVIOUS
  <2>1. TypeOK
    BY DEF BufferInv
  <2>2. phase \in Phases /\ (phase # "reading" => pc = "finished") /\ n \in 1 .. Len(rows) + 1
    BY DEF RunInv, StageInv
  <2>3. GoodMap(map) /\ GoodMap(all) /\ MappedInv
    BY DEF RunInv, MappedInv, ReducedInv
  <2>4. ASSUME NEW m, GoodMap(m),
               \A w \in Word : HasKey(m, w)
                  => w \in WordsRead /\ Get(m, w) \in 1 .. Len(rows)
        PROVE  IsMap(m)
    <3>1. PICK c \in Nat \ {0} : c = m.capacity
      BY <2>4, GoodMapIs
    <3>2. m \in MapOf(c) /\ Filed(m)
      BY <2>4, <3>1, GoodMapIs
    <3>3. DOMAIN m.items = 0 .. c - 1
      BY <3>2 DEF MapOf
    <3>4. \A i \in 0 .. c - 1 : DOMAIN m.items[i] = 1 .. Len(m.items[i])
      BY <3>2, MapIs
    <3>5. ASSUME NEW i \in 0 .. c - 1, NEW p \in 1 .. Len(m.items[i])
          PROVE  m.items[i][p].key \in WordsRead /\ m.items[i][p].val \in 1 .. Len(rows)
      <4>1. /\ m.items[i][p].key \in Word /\ HasKey(m, m.items[i][p].key)
            /\ Get(m, m.items[i][p].key) = m.items[i][p].val
        BY <3>2, FindsPair
      <4> QED
        BY <2>4, <4>1
    <3> QED
      BY <3>1, <3>3, <3>4, <3>5 DEF IsMap
  <2>5. IsMap(map)
    BY <2>3, <2>4, InMapWasRead
  <2>6. IsMap(all)
    <3>1. ASSUME NEW w \in Word, HasKey(all, w)
          PROVE  w \in WordsRead /\ Get(all, w) \in 1 .. Len(rows)
      <4>1. HoldsFirst(all, counts, Reduced) /\ Reduced \in 0 .. Len(counts)
        BY DEF RunInv, ReducedInv
      <4>2. PICK q \in 1 .. Reduced : counts[q].key = w /\ Get(all, w) = counts[q].val
        BY <3>1, <4>1 DEF HoldsFirst
      <4>3. q \in 1 .. seen
        BY <4>1, InCountsWasRead
      <4> QED
        BY <2>3, <4>2, <4>3, InCountsWasRead, InMapWasRead
    <3> QED
      BY <2>3, <2>4, <3>1
  <2>7. bucket \in 0 .. map.capacity /\ slot \in 0 .. Used(bucket)
    <3>1. PICK c \in Nat \ {0} : c = map.capacity
      BY <2>3, GoodMapIs
    <3>2. bucket \in 0 .. c - 1 /\ slot \in 0 .. Used(bucket)
      BY <3>1 DEF RunInv, SummedInv, AtPlace, Used
    <3>3. bucket \in 0 .. c
      BY <3>2
    <3> QED
      BY <3>1, <3>2, <3>3
  <2>8. seen = Len(counts) /\ \A k \in DOMAIN counts : counts[k].key \in WordsRead
    BY <2>3, InCountsWasRead, InMapWasRead
  <2> QED
    BY <2>1, <2>2, <2>5, <2>6, <2>7, <2>8 DEF RunTypeOK
<1> QED
  BY <1>1, RunInvAlways, PTL

(* The answer that is printed, the size of the second map, is the number of *)
(* distinct words of the file.                                              *)
AnswerIsRight ==
    phase = "printed" /\ Regular(file) =>
        all.size = Cardinality({WordsOf(file)[k] : k \in DOMAIN WordsOf(file)})

THEOREM AnswerIsRightAlways == RunSpec => []AnswerIsRight
<1>1. BufferInv /\ RunInv /\ RowsAreWords => AnswerIsRight
  <2> SUFFICES ASSUME BufferInv, RunInv, RowsAreWords, phase = "printed", Regular(file)
               PROVE  all.size = Cardinality({WordsOf(file)[k] : k \in DOMAIN WordsOf(file)})
    BY DEF AnswerIsRight
  <2>1. rows = WordsOf(file)
    BY DEF RowsAreWords, RunInv, StageInv
  <2>2. {WordsOf(file)[k] : k \in DOMAIN WordsOf(file)} = WordsRead
    BY <2>1 DEF WordsRead
  <2>3. counts = Pairs(map) /\ HoldsFirst(all, counts, Len(counts)) /\ GoodMap(map) /\ MappedInv
    BY DEF RunInv, SummedInv, ReducedInv, Reduced, MappedInv
  <2>4. Lists(counts, map) /\ Len(counts) \in Nat /\ all.size = Len(counts)
    BY <2>3, GoodMapIs DEF HoldsFirst
  <2>5. PICK l \in Nat : l = Len(counts)
    BY <2>4
  <2> DEFINE f == [q \in 1 .. l |-> counts[q].key]
  <2>6. f \in [1 .. l -> WordsRead]
    <3>1. \A q \in 1 .. l : counts[q].key \in Word /\ HasKey(map, counts[q].key)
      BY <2>4, <2>5 DEF Lists
    <3> QED
      BY <2>3, <3>1, InMapWasRead
  <2>7. \A q, p \in 1 .. l : f[q] = f[p] => q = p
    BY <2>4, <2>5 DEF Lists
  <2>8. \A w \in WordsRead : \E q \in 1 .. l : f[q] = w
    <3> SUFFICES ASSUME NEW k \in DOMAIN rows PROVE \E q \in 1 .. l : f[q] = rows[k]
      BY DEF WordsRead
    <3>1. /\ rows \in Seq(Word) /\ Len(rows) \in Nat /\ k \in 1 .. Len(rows)
          /\ rows[k] \in Word
      BY RowsType
    <3> DEFINE in == {j \in 1 .. Len(rows) : rows[j] = rows[k]}
               o == Occurrences(SubSeq(rows, 1, Len(rows)), rows[k])
    <3>2. o = Cardinality(in) /\ IsFiniteSet(in) /\ k \in in
      <4>1. Len(rows) \in 0 .. Len(rows)
        BY <3>1
      <4> QED
        BY <3>1, <4>1, OccurrencesAre
    <3>3. o # 0
      <4> HIDE DEF in
      <4> QED
        BY <3>2, FS_EmptySet
    <3>4. HasKey(map, rows[k])
      BY <2>3, <3>1, <3>3 DEF MappedInv, Tallies, Mapped
    <3> QED
      BY <2>4, <2>5, <3>1, <3>4 DEF Lists
  <2> HIDE DEF f
  <2>9. Cardinality(WordsRead) = l
    <3>1. f \in Bijection(1 .. l, WordsRead)
      BY <2>6, <2>7, <2>8, Fun_IsBij
    <3>2. ExistsBijection(1 .. l, WordsRead)
      BY <3>1, Fun_ExistsBij
    <3> QED
      BY <3>2, FS_CountingElements
  <2> QED
    BY <2>2, <2>4, <2>5, <2>9
<1> QED
  BY <1>1, RunInvAlways, RowsAreWordsAlways, PTL

---------------------------------------------------------------------------
(* The run implements DistinctWords.                                        *)
LEMMA TermsAreWords == Terms \subseteq Word
<1> SUFFICES ASSUME NEW k \in 0 .. BUFSIZE - 1, NEW w \in [1 .. k -> Alnum] PROVE w \in Word
  BY DEF Terms
<1>1. k \in Nat
  BY FileReaderAssumption
<1>2. \A j \in 1 .. k : w[j] \in Int
  <2>1. \A x \in Alnum : x \in Int
    BY CharAssumption DEF Char
  <2> QED
    BY <2>1
<1>3. w \in [1 .. k -> Int]
  BY <1>2
<1> QED
  BY <1>1, <1>3 DEF Word

LEMMA TallyIsRight ==
    ASSUME BufferInv, RunInv, RowsAreWords, Regular(file), PrintAnswer, NEW w \in Terms
    PROVE  Tally[w] = Occurrences(WordsOf(file), w)
<1>1. /\ phase = "reducing" /\ n > Len(counts) /\ pc = "finished" /\ counts = Pairs(map)
      /\ GoodMap(map) /\ Tallies(map, rows, Len(rows))
      /\ HoldsFirst(all, counts, n - 1) /\ n - 1 \in 0 .. Len(counts)
      /\ n \in 1 .. Len(rows) + 1
  BY DEF PrintAnswer, RunInv, StageInv, MappedInv, SummedInv, ReducedInv, Mapped, Reduced
<1>2. Lists(counts, map)
  BY <1>1, GoodMapIs
<1>3. HoldsFirst(all, counts, Len(counts))
  <2>1. PICK l \in Nat : l = Len(counts)
    BY <1>2 DEF Lists
  <2>2. n \in Int
    BY <1>1, RowsType
  <2>3. n - 1 = l
    BY <1>1, <2>1, <2>2
  <2> QED
    BY <1>1, <2>1, <2>3
<1>4. w \in Word
  BY TermsAreWords
<1>5. rows = WordsOf(file) /\ rows \in Seq(Word) /\ Len(rows) \in Nat
  BY <1>1, RowsType DEF RowsAreWords
<1>6. SubSeq(rows, 1, Len(rows)) = rows
  BY <1>5
<1>7. /\ HasKey(map, w) <=> Occurrences(rows, w) # 0
      /\ HasKey(map, w) => Get(map, w) = Occurrences(rows, w)
  BY <1>1, <1>4, <1>6 DEF Tallies
<1>8. HasKey(all, w) <=> HasKey(map, w)
  BY <1>2, <1>3, <1>4 DEF Lists, HoldsFirst
<1>9. HasKey(all, w) => Get(all, w) = Get(map, w)
  BY <1>2, <1>3, <1>4 DEF Lists, HoldsFirst
<1>10. Tally[w] = IF HasKey(all, w) THEN Get(all, w) ELSE 0
  BY DEF Tally
<1> QED
  BY <1>5, <1>7, <1>8, <1>9, <1>10

(* From the bytes of the file to the map whose size is printed, a node on   *)
(* its own implements DistinctWords: it gives the number of occurrences of  *)
(* every word, all at once and once, or no answer (fromVisitor, local_count *)
(* and reduce with one node).                                               *)
THEOREM AnswerCorrectAlways == RunSpec => AnswerCorrect
<1>1. RunInit => Promise!Init
  BY DEF RunInit, Answered, Promise!Init
<1>2. BufferInv /\ RunInv /\ RowsAreWords /\ [RunNext]_runVars
         => [Promise!Publish]_(Promise!vars)
  <2> SUFFICES ASSUME BufferInv, RunInv, RowsAreWords, [RunNext]_runVars
               PROVE  [Promise!Publish]_(Promise!vars)
    OBVIOUS
  <2>1. file' = file
    <3>1. [Next]_vars
      BY DEF RunNext, Work, Read, StartAdding, AddWord, StartSumming, VisitPair, StartReducing,
             AddCount, PrintAnswer, End, runVars
    <3> QED
      BY <3>1 DEF Next, Open, CannotOpen, SkipAtEnd, SkipRefill, SkipLook, Finish, Visit,
                  ScanAtEnd, ScanRefill, ScanLook, TakeWord, Fault, FillFrom, vars, streamVars
  <2>2. CASE ~Regular(file)
    BY <2>1, <2>2 DEF Answered, Promise!vars
  <2>3. CASE Regular(file) /\ PrintAnswer
    <3>1. /\ phase = "reducing" /\ phase' = "printed" /\ all' = all
      BY <2>3 DEF PrintAnswer
    <3>2. ~Answered /\ Answered'
      BY <2>1, <2>3, <3>1 DEF Answered
    <3>3. Tally' = Tally
      BY <3>1 DEF Tally
    <3>4. \A w \in Terms : Tally[w] = Promise!Occurrences(w)
      <4>1. \A w : Promise!Occurrences(w) = Occurrences(WordsOf(file), w)
        BY DEF Promise!Occurrences, Occurrences, Promise!Cardinality, Cardinality
      <4> QED
        BY <2>3, <4>1, TallyIsRight
    <3>5. Tally = [w \in Terms |-> Tally[w]]
      BY DEF Tally
    <3>6. Tally = Promise!TallyWith(Promise!Occurrences(<< >>))
      BY <3>4, <3>5 DEF Promise!TallyWith
    <3>7. Promise!Occurrences(<< >>) \in 0 .. Promise!Occurrences(<< >>)
      <4>1. rows = WordsOf(file) /\ rows \in Seq(Word) /\ Len(rows) \in Nat
        BY <2>3, <3>1, RowsType DEF RowsAreWords, RunInv, StageInv
      <4>2. SubSeq(rows, 1, Len(rows)) = rows /\ Len(rows) \in 0 .. Len(rows)
        BY <4>1
      <4>3. Occurrences(rows, << >>) \in 0 .. Len(rows)
        BY <4>1, <4>2, OccurrencesAre
      <4>4. Promise!Occurrences(<< >>) = Occurrences(rows, << >>)
        BY <4>1 DEF Promise!Occurrences, Occurrences, Promise!Cardinality, Cardinality
      <4> QED
        BY <4>1, <4>3, <4>4
    <3>8. Promise!Publish
      BY <2>1, <3>2, <3>3, <3>6, <3>7 DEF Promise!Publish
    <3> QED
      BY <3>8
  <2>4. CASE Regular(file) /\ ~PrintAnswer
    <3>1. Answered => UNCHANGED all /\ Answered'
      <4> SUFFICES ASSUME phase = "printed" PROVE UNCHANGED <<all, phase>>
        BY <2>1 DEF Answered
      <4>1. pc = "finished"
        BY DEF RunInv, StageInv
      <4>2. ~Next
        BY <4>1 DEF Next, Open, CannotOpen, SkipAtEnd, SkipRefill, SkipLook, Finish, Visit,
               ScanAtEnd, ScanRefill, ScanLook, TakeWord, Fault
      <4> QED
        BY <4>2 DEF RunNext, Work, Read, StartAdding, AddWord, StartSumming, VisitPair,
               StartReducing, AddCount, PrintAnswer, End, runVars, countVars
    <3>2. ~Answered => ~Answered'
      <4> SUFFICES ASSUME phase # "printed" PROVE phase' # "printed"
        BY <2>1, <2>4 DEF Answered
      <4> QED
        BY <2>4 DEF RunNext, Work, Read, StartAdding, AddWord, StartSumming, VisitPair,
               StartReducing, AddCount, End, runVars, countVars
    <3> QED
      BY <2>1, <3>1, <3>2 DEF Promise!vars, Tally
  <2> QED
    BY <2>2, <2>3, <2>4
<1> QED
  BY <1>1, <1>2, RunInvAlways, RowsAreWordsAlways, PTL
     DEF RunSpec, AnswerCorrect, Promise!Spec

============================================================================
