-------------------------- MODULE SorParserProofs --------------------------
(* Proofs about SorParser, for any set of files, any length of the buffer,  *)
(* and reads that may fail at any time.                                     *)
EXTENDS SorParser, NumberLemmas, SequenceTheorems

---------------------------------------------------------------------------
(* How far readLine is.  It has taken Taken bytes of the file; the line it  *)
(* is in begins behind the ones it has returned, at Begin.                  *)
StartsBefore(f, p) == {q \in LineStarts(f) : q < p}
Taken == readSize - Len(buf) + pos
Held == IF partial = NoLine THEN 0 ELSE Len(partial)
Begin == Taken - Held + 1
Returned == IF HaveLine THEN k + 1 ELSE k
Reading == pc \in {"open", "read", "line"}

ReaderTypes ==
    /\ file \in Files
    /\ buf \in Seq(Byte) /\ Len(buf) <= BufLen
    /\ pos \in 0 .. Len(buf)
    /\ readSize \in 0 .. Len(file) /\ Len(buf) <= readSize
    /\ eof \in BOOLEAN /\ err \in BOOLEAN
    /\ partial \in Seq(Byte) \union {NoLine}
    /\ line \in Seq(Byte) \union {NoLine}
    /\ pc \in {"open", "read", "line", "passed", "done", "failed"}
    /\ mode \in {"count", "guess", "parse"}
    /\ k \in Nat

(* The buffer is what was read last of the file; what is kept of the line   *)
(* is its beginning; and the lines before it have been returned.            *)
BufferFromFile ==
    /\ eof => readSize = Len(file)
    /\ \A i \in 1 .. Len(buf) : buf[i] = file[readSize - Len(buf) + i]
LineBegun ==
    /\ partial # NoLine => partial # << >> /\ partial = SubSeq(file, Begin, Taken)
    /\ Begin \in LineStarts(file) \union {Len(file) + 1}
    /\ \A q \in Begin .. Taken : file[q] # NL
    /\ Cardinality(StartsBefore(file, Begin)) = Returned

(* After an error nothing is read, and what is kept of a line is not more   *)
(* than its beginning.                                                      *)
ErrorEnds == err => buf = << >>
LinesCounted ==
    /\ Reading => Returned + (IF partial = NoLine THEN 0 ELSE 1) <= NumLines(file)
    /\ pc = "line" /\ line = NoLine /\ ~err => k = NumLines(file)

PassInv ==
    /\ ~Reading => k <= NumLines(file)
    /\ mode # "parse" /\ pc \in {"read", "line"} => k < GUESS_SCHEMA_LINES
    /\ mode # "parse" => k <= GUESS_SCHEMA_LINES
    /\ pc = "open" => mode = "count" /\ k = 0 /\ columns = 0
    /\ mode # "parse" /\ pc = "passed" /\ ~err =>
          k = SmallerOf(NumLines(file), GUESS_SCHEMA_LINES)

ReaderInv ==
    /\ ReaderTypes
    /\ Reading /\ ~err => BufferFromFile /\ LineBegun
    /\ ErrorEnds /\ LinesCounted /\ PassInv
    /\ LinesInOrder

---------------------------------------------------------------------------
(* What a guess says of the fields it was made from: exactly the types from *)
(* it upward can hold them.                                                 *)
HoldAll(t, rows, c) ==
    \A r \in rows : c <= Len(RowOf(r)) => Holds(t, RowOf(r)[c])
Exact(guess, rows, c) ==
    guess \in Types /\ \A t \in Types : t >= guess <=> HoldAll(t, rows, c)
PlainIn(rows, c) ==
    \A r \in rows : c <= Len(RowOf(r)) => AsWritten(RowOf(r)[c])

(* The columns are counted, and there is a guess for each.                  *)
Counted == mode = "parse" \/ (mode = "guess" /\ pc # "failed")

GuessInv ==
    /\ Counted => DOMAIN guesses = 1 .. columns
    /\ mode = "guess" /\ pc # "failed" /\ ~err =>
          \A c \in 1 .. columns : PlainIn(1 .. k, c) => Exact(guesses[c], 1 .. k, c)
    /\ mode = "parse" /\ ~err =>
          \A c \in 1 .. columns : Plain(c) => Exact(guesses[c], GuessedRows, c)

(* A table has a column for every field of its first row.                   *)
TableInv ==
    ~err /\ IsTable =>
        /\ mode = "count" => columns = IF k = 0 THEN 0 ELSE Len(RowOf(1))
        /\ Counted => columns = Len(RowOf(1))
        /\ mode = "parse" => TableKept

---------------------------------------------------------------------------
(* The lines of a file.                                                     *)
LEMMA StartsFinite ==
    ASSUME NEW f \in Seq(Byte)
    PROVE  /\ LineStarts(f) \subseteq 1 .. Len(f)
           /\ LineStarts(f) \in SUBSET Nat
           /\ IsFiniteSet(LineStarts(f)) /\ NumLines(f) \in Nat
           /\ \A p : /\ IsFiniteSet(StartsBefore(f, p))
                     /\ Cardinality(StartsBefore(f, p)) \in Nat
                     /\ Cardinality(StartsBefore(f, p)) <= NumLines(f)
<1>1. LineStarts(f) \subseteq 1 .. Len(f) /\ Len(f) \in Nat
  BY DEF LineStarts
<1>2. LineStarts(f) \in SUBSET Nat
  BY <1>1
<1>3. IsFiniteSet(LineStarts(f))
  <2>1. IsFiniteSet(1 .. Len(f))
    BY <1>1, FS_Interval
  <2> QED
    BY <1>1, <2>1, FS_Subset
<1>4. \A p : StartsBefore(f, p) \in SUBSET LineStarts(f)
  BY DEF StartsBefore
<1> QED
  BY <1>1, <1>2, <1>3, <1>4, FS_Subset, FS_CardinalityType DEF NumLines

LEMMA LineStartIs ==
    ASSUME NEW f \in Seq(Byte), NEW p \in LineStarts(f), NEW n \in Nat,
           Cardinality(StartsBefore(f, p)) = n
    PROVE  LineStart(f, n + 1) = p
<1>1. LineStarts(f) \in SUBSET Nat /\ IsFiniteSet(LineStarts(f))
  BY StartsFinite
<1>2. \A q \in LineStarts(f) : Cardinality({r \in LineStarts(f) : r < q}) \in Nat
  BY StartsFinite DEF StartsBefore
<1>3. \A q \in LineStarts(f) :
         Cardinality({r \in LineStarts(f) : r < q}) = (n + 1) - 1 <=> q = p
  <2>1. (n + 1) - 1 = n
    OBVIOUS
  <2> QED
    BY <1>1, <2>1, RankIsUnique DEF StartsBefore
<1> QED
  BY <1>3 DEF LineStart

LEMMA LineEndIs ==
    ASSUME NEW f \in Seq(Byte), NEW p \in LineStarts(f), NEW e \in p - 1 .. Len(f),
           \A q \in p .. e : f[q] # NL, e < Len(f) => f[e + 1] = NL
    PROVE  LineEnd(f, p) = e
<1>1. p \in Nat /\ Len(f) \in Nat
  BY StartsFinite
<1>2. ASSUME NEW d \in p - 1 .. Len(f),
             \A q \in p .. d : f[q] # NL, d < Len(f) => f[d + 1] = NL
      PROVE  d = e
  <2>1. CASE d < e
    <3>1. d + 1 \in p .. e /\ d < Len(f)
      BY <1>1, <2>1
    <3> QED
      BY <1>2, <3>1
  <2>2. CASE e < d
    <3>1. e + 1 \in p .. d /\ e < Len(f)
      BY <1>1, <2>2
    <3> QED
      BY <1>2, <3>1
  <2> QED
    BY <1>1, <2>1, <2>2
<1> QED
  BY <1>2 DEF LineEnd

LEMMA LineIs ==
    ASSUME NEW f \in Seq(Byte), NEW p \in LineStarts(f), NEW n \in Nat,
           Cardinality(StartsBefore(f, p)) = n,
           NEW e \in p - 1 .. Len(f),
           \A q \in p .. e : f[q] # NL, e < Len(f) => f[e + 1] = NL
    PROVE  LineOf(f, n + 1) = SubSeq(f, p, e) /\ n < NumLines(f)
<1>1. LineStart(f, n + 1) = p
  BY LineStartIs
<1>2. LineEnd(f, p) = e
  BY LineEndIs
<1>3. n < NumLines(f)
  <2>1. p \notin StartsBefore(f, p) /\ StartsBefore(f, p) \in SUBSET LineStarts(f)
    BY StartsFinite DEF StartsBefore
  <2> QED
    BY <2>1, StartsFinite, FS_Subset DEF NumLines
<1> QED
  BY <1>1, <1>2, <1>3 DEF LineOf

(* Behind the end of a line and its newline, one more line has begun.       *)
LEMMA NextLine ==
    ASSUME NEW f \in Seq(Byte), NEW p \in LineStarts(f), NEW e \in p - 1 .. Len(f),
           \A q \in p .. e : f[q] # NL, e < Len(f) => f[e + 1] = NL,
           NEW next, next = IF e = Len(f) THEN e + 1 ELSE e + 2
    PROVE  /\ next \in LineStarts(f) \union {Len(f) + 1}
           /\ Cardinality(StartsBefore(f, next)) = Cardinality(StartsBefore(f, p)) + 1
<1>1. p \in Nat /\ Len(f) \in Nat /\ LineStarts(f) \subseteq 1 .. Len(f)
  BY StartsFinite
<1>2. next \in LineStarts(f) \union {Len(f) + 1}
  <2>1. CASE e = Len(f)
    BY <2>1
  <2>2. CASE e # Len(f)
    <3>1. next = e + 2 /\ e < Len(f) /\ next - 1 = e + 1 /\ f[next - 1] = NL
      BY <1>1, <2>2
    <3>2. next = Len(f) + 1 \/ next \in 1 .. Len(f)
      BY <1>1, <3>1
    <3> QED
      BY <3>1, <3>2 DEF LineStarts
  <2> QED
    BY <2>1, <2>2
<1>3. ASSUME NEW q \in LineStarts(f), q < next, p <= q
      PROVE  q = p
  <2>1. q \in 1 .. Len(f) /\ (q = 1 \/ f[q - 1] = NL)
    BY DEF LineStarts
  <2>2. CASE p < q
    <3>1. q - 1 \in p .. e
      BY <1>1, <1>3, <2>1, <2>2
    <3> QED
      BY <1>1, <2>1, <2>2, <3>1
  <2> QED
    BY <1>1, <1>3, <2>1, <2>2
<1>4. p < next
  BY <1>1
<1>5. StartsBefore(f, next) = StartsBefore(f, p) \union {p}
  <2>1. \A q \in LineStarts(f) : q < next <=> (q < p \/ q = p)
    <3> TAKE q \in LineStarts(f)
    <3>1. q \in Nat /\ next \in Nat
      BY <1>1
    <3> QED
      BY <1>1, <1>3, <1>4, <3>1
  <2> QED
    BY <2>1 DEF StartsBefore
<1>6. p \notin StartsBefore(f, p)
  BY <1>1 DEF StartsBefore
<1> QED
  BY <1>2, <1>5, <1>6, StartsFinite, FS_AddElement

LEMMA FirstAndLast ==
    ASSUME NEW f \in Seq(Byte)
    PROVE  /\ 1 \in LineStarts(f) \union {Len(f) + 1}
           /\ Cardinality(StartsBefore(f, 1)) = 0
           /\ Cardinality(StartsBefore(f, Len(f) + 1)) = NumLines(f)
<1>1. LineStarts(f) \subseteq 1 .. Len(f) /\ Len(f) \in Nat
  BY StartsFinite
<1>2. StartsBefore(f, 1) = {}
  BY <1>1 DEF StartsBefore
<1>3. StartsBefore(f, Len(f) + 1) = LineStarts(f)
  BY <1>1 DEF StartsBefore
<1>4. 1 \in LineStarts(f) \union {Len(f) + 1}
  BY <1>1 DEF LineStarts
<1> QED
  BY <1>2, <1>3, <1>4, FS_EmptySet DEF NumLines

---------------------------------------------------------------------------
(* Where readLine is in the file.                                           *)
LEMMA Positions ==
    ASSUME ReaderTypes
    PROVE  /\ file \in Seq(Byte) /\ Len(file) \in Nat
           /\ Len(buf) \in Nat /\ pos \in Nat /\ readSize \in Nat
           /\ Taken \in 0 .. readSize
           /\ Held \in Nat /\ (partial = NoLine => Held = 0)
           /\ (partial # NoLine /\ partial # << >> => Held > 0)
           /\ Begin \in Int /\ Begin = Taken - Held + 1
<1>1. file \in Seq(Byte) /\ Len(file) \in Nat
  BY SorParserAssumption DEF ReaderTypes
<1>2. Len(buf) \in Nat /\ pos \in Nat /\ readSize \in Nat
  BY <1>1 DEF ReaderTypes
<1>3. Taken \in 0 .. readSize
  BY <1>1, <1>2 DEF ReaderTypes, Taken
<1>4. Held \in Nat
  <2>1. CASE partial = NoLine
    BY <2>1 DEF Held
  <2>2. CASE partial # NoLine
    BY <2>2 DEF Held, ReaderTypes
  <2> QED
    BY <2>1, <2>2
<1>5. partial # NoLine /\ partial # << >> => Held > 0
  BY DEF Held, ReaderTypes
<1>6. partial = NoLine => Held = 0
  BY DEF Held
<1> QED
  BY <1>1, <1>2, <1>3, <1>4, <1>5, <1>6 DEF Begin

(* What the line is made of when the buffer has been searched up to some    *)
(* byte: the bytes of the file from where it begins.                        *)
LEMMA LongerIs ==
    ASSUME ReaderTypes, BufferFromFile, LineBegun, NEW to \in pos .. Len(buf)
    PROVE  /\ Begin \in 1 .. Taken + 1
           /\ Longer(pos, to) = SubSeq(file, Begin, Taken + (to - pos))
           /\ Longer(pos, to) \in Seq(Byte)
           /\ Len(Longer(pos, to)) = Held + (to - pos)
<1> DEFINE kept == IF partial = NoLine THEN << >> ELSE partial
           more == SubSeq(buf, pos + 1, to)
           whole == SubSeq(file, Begin, Taken + (to - pos))
<1>1. /\ file \in Seq(Byte) /\ Len(file) \in Nat
      /\ Len(buf) \in Nat /\ pos \in Nat /\ readSize \in Nat
      /\ Taken \in 0 .. readSize /\ Held \in Nat /\ Begin \in Int
      /\ Begin = Taken - Held + 1
  BY Positions
<1>2. Begin >= 1 /\ Begin <= Taken + 1
  <2>1. LineStarts(file) \subseteq 1 .. Len(file)
    BY <1>1, StartsFinite
  <2> QED
    BY <1>1, <2>1 DEF LineBegun
<1>3. /\ readSize <= Len(file) /\ buf \in Seq(Byte) /\ to \in Nat
      /\ pos <= to /\ to <= Len(buf) /\ Len(buf) <= readSize
      /\ Taken = readSize - Len(buf) + pos
  BY <1>1 DEF ReaderTypes, Taken
<1>4. kept \in Seq(Byte) /\ Len(kept) = Held
      /\ \A i \in 1 .. Held : kept[i] = file[Begin + i - 1]
  <2>1. CASE partial = NoLine
    BY <2>1 DEF Held
  <2>2. CASE partial # NoLine
    <3>1. partial \in Seq(Byte) /\ partial = SubSeq(file, Begin, Taken)
      BY <2>2 DEF ReaderTypes, LineBegun
    <3>2. \A i \in 1 .. Taken - Begin + 1 :
             SubSeq(file, Begin, Taken)[i] = file[Begin + i - 1]
      BY <1>1, <1>2, <1>3
    <3>3. Taken - Begin + 1 = Held
      BY <1>1
    <3> QED
      BY <2>2, <3>1, <3>2, <3>3 DEF Held
  <2> QED
    BY <2>1, <2>2
<1>5. more \in Seq(Byte) /\ Len(more) = to - pos
      /\ \A i \in 1 .. to - pos : more[i] = buf[pos + i]
  BY <1>1, <1>3
<1>6. \A i \in 1 .. to - pos : more[i] = file[Taken + i]
  <2> TAKE i \in 1 .. to - pos
  <2>1. pos + i \in 1 .. Len(buf) /\ readSize - Len(buf) + (pos + i) = Taken + i
    BY <1>1, <1>3
  <2>2. buf[pos + i] = file[readSize - Len(buf) + (pos + i)]
    BY <2>1 DEF BufferFromFile
  <2> QED
    BY <1>5, <2>1, <2>2
<1>7. /\ whole \in Seq(Byte) /\ Len(whole) = Held + (to - pos)
      /\ \A i \in 1 .. Held + (to - pos) : whole[i] = file[Begin + i - 1]
  <2>1. Taken + (to - pos) <= Len(file) /\ Taken + (to - pos) \in Nat
        /\ Begin \in Nat /\ Taken + (to - pos) - Begin + 1 = Held + (to - pos)
    BY <1>1, <1>2, <1>3
  <2>2. Begin <= Taken + (to - pos) + 1
    BY <1>1, <1>2, <1>3
  <2> QED
    BY <1>1, <1>2, <2>1, <2>2
<1> HIDE DEF kept, more, whole
<1>8. kept \o more \in Seq(Byte) /\ Len(kept \o more) = Held + (to - pos)
  <2>1. kept \o more \in Seq(Byte) /\ Len(kept \o more) = Len(kept) + Len(more)
    BY <1>4, <1>5, ConcatProperties
  <2> QED
    BY <1>4, <1>5, <2>1
<1>9. \A i \in 1 .. Held + (to - pos) : (kept \o more)[i] = whole[i]
  <2> TAKE i \in 1 .. Held + (to - pos)
  <2>1. CASE i <= Held
    <3>1. i \in 1 .. Held
      BY <1>1, <2>1
    <3> QED
      BY <1>4, <1>5, <1>7, <3>1
  <2>2. CASE i > Held
    <3>1. i - Held \in 1 .. to - pos
      BY <1>1, <1>3, <2>2
    <3>2. (kept \o more)[i] = more[i - Held]
      BY <1>1, <1>4, <1>5, <2>2, <3>1
    <3>3. Taken + (i - Held) = Begin + i - 1
      BY <1>1, <3>1
    <3>4. more[i - Held] = file[Begin + i - 1]
      BY <1>6, <3>1, <3>3
    <3> QED
      BY <1>7, <3>2, <3>4
  <2>3. i <= Held \/ i > Held
    <3>1. Held \in Nat /\ to - pos \in Nat
      BY <1>1, <1>3
    <3> QED
      BY <3>1
  <2> QED
    BY <2>1, <2>2, <2>3
<1>10. kept \o more = whole
  BY <1>7, <1>8, <1>9, SeqEqual
<1>11. Longer(pos, to) = kept \o more
  BY DEF Longer, kept, more
<1> QED
  BY <1>1, <1>2, <1>8, <1>10, <1>11 DEF whole

---------------------------------------------------------------------------
(* Every step of the program keeps the place in the file.                   *)
LEMMA InitStarts == Init => ReaderInv
<1> SUFFICES ASSUME Init PROVE ReaderInv
  OBVIOUS
<1>1. file \in Seq(Byte) /\ Len(file) \in Nat /\ Len(<< >>) = 0 /\ << >> \in Seq(Byte)
  BY SorParserAssumption DEF Init
<1>2. /\ file \in Files /\ buf = << >> /\ pos = 0 /\ readSize = 0
      /\ eof = FALSE /\ err = FALSE /\ partial = NoLine /\ line = NoLine
      /\ pc = "open" /\ mode = "count" /\ k = 0 /\ columns = 0
  BY DEF Init, InitReader
<1>3. ReaderTypes
  <2>1. eof \in BOOLEAN /\ err \in BOOLEAN
    BY <1>2
  <2> QED
    BY <1>1, <1>2, <2>1, LineReaderAssumption DEF ReaderTypes
<1>4. Taken = 0 /\ Held = 0 /\ Begin = 1 /\ Returned = 0
  <2>1. Taken = 0
    <3>1. Len(buf) = 0
      BY <1>2
    <3>2. pos = 0 /\ readSize = 0
      BY <1>2
    <3> QED
      BY <3>1, <3>2 DEF Taken
  <2>2. Held = 0 /\ Returned = 0
    BY <1>2 DEF Held, Returned, HaveLine
  <2> QED
    BY <2>1, <2>2 DEF Begin
<1>5. BufferFromFile
  BY <1>1, <1>2 DEF BufferFromFile
<1>6. LineBegun
  BY <1>1, <1>2, <1>4, FirstAndLast DEF LineBegun
<1>7. NumLines(file) \in Nat
  BY <1>1, StartsFinite
<1>8. ErrorEnds /\ LinesCounted /\ PassInv
  BY <1>2, <1>4, <1>7, SorParserAssumption DEF ErrorEnds, LinesCounted, PassInv, Reading
<1>9. LinesInOrder
  BY <1>2 DEF LinesInOrder
<1> QED
  BY <1>3, <1>5, <1>6, <1>8, <1>9 DEF ReaderInv

LEMMA StutterKeeps == ReaderInv /\ UNCHANGED vars => ReaderInv'
<1> SUFFICES ASSUME ReaderInv, UNCHANGED vars PROVE ReaderInv'
  OBVIOUS
<1>1. UNCHANGED <<file, buf, pos, readSize, eof, err, partial, line, pc, mode, k, columns>>
  BY DEF vars, readerVars, parserVars
<1>2. /\ Taken' = Taken /\ Held' = Held /\ Begin' = Begin
      /\ Returned' = Returned /\ Reading' = Reading
  BY <1>1 DEF Taken, Held, Begin, Returned, HaveLine, Reading
<1>3. ReaderTypes'
  BY <1>1 DEF ReaderInv, ReaderTypes
<1>4. (Reading /\ ~err => BufferFromFile /\ LineBegun)'
  BY <1>1, <1>2 DEF ReaderInv, BufferFromFile, LineBegun
<1>5. ErrorEnds' /\ LinesCounted'
  BY <1>1, <1>2 DEF ReaderInv, ErrorEnds, LinesCounted
<1>6. PassInv' /\ LinesInOrder'
  BY <1>1, <1>2 DEF ReaderInv, PassInv, LinesInOrder
<1> QED
  BY <1>3, <1>4, <1>5, <1>6 DEF ReaderInv

LEMMA EndOfFileKeeps ==
    ASSUME ReaderInv, EndOfFile, UNCHANGED parserVars
    PROVE  ReaderInv'
<1>1. /\ pc = "read" /\ Empty /\ Over
      /\ line' = partial /\ partial' = NoLine /\ pc' = "line"
      /\ UNCHANGED <<file, buf, pos, readSize, eof, err, mode, k, columns, guesses, df>>
  BY DEF EndOfFile, parserVars
<1>2. ReaderTypes /\ LinesCounted /\ PassInv /\ ErrorEnds
  BY DEF ReaderInv
<1>3. ReaderTypes'
  BY <1>1, <1>2 DEF ReaderTypes
<1>4. /\ file \in Seq(Byte) /\ Len(file) \in Nat
      /\ Len(buf) \in Nat /\ pos \in Nat /\ readSize \in Nat
      /\ Held \in Nat /\ Begin \in Int /\ Begin = Taken - Held + 1
      /\ (partial = NoLine => Held = 0)
      /\ (partial # NoLine /\ partial # << >> => Held > 0)
  BY <1>2, Positions
<1>5. NumLines(file) \in Nat /\ k \in Nat
  BY <1>2, <1>4, StartsFinite DEF ReaderTypes
<1>6. Returned = k /\ Returned' = (IF partial = NoLine THEN k ELSE k + 1)
      /\ Reading /\ Reading'
  BY <1>1 DEF Returned, HaveLine, Reading
<1>7. Taken' = Taken /\ Held' = 0 /\ Begin' = Taken + 1
  <2>1. Taken' = Taken /\ Held' = 0
    BY <1>1 DEF Taken, Held
  <2>2. Taken \in Nat
    BY <1>2, Positions
  <2> QED
    BY <2>1, <2>2 DEF Begin
<1>8. ASSUME ~err
      PROVE  /\ BufferFromFile' /\ LineBegun'
             /\ IF k < NumLines(file) THEN line' = LineOf(file, k + 1) ELSE line' = NoLine
             /\ line' = NoLine => k = NumLines(file)
  <2>1. BufferFromFile /\ LineBegun
    BY <1>6, <1>8 DEF ReaderInv
  <2>2. Taken = Len(file)
    <3>1. readSize = Len(file)
      BY <1>1, <1>2, <1>4, <1>8, <2>1 DEF Over, ReaderTypes, BufferFromFile
    <3>2. pos = Len(buf)
      BY <1>1, <1>2, <1>4 DEF Empty, ReaderTypes
    <3> QED
      BY <1>4, <3>1, <3>2 DEF Taken
  <2>3. BufferFromFile'
    BY <1>1, <2>1 DEF BufferFromFile
  <2>4. /\ Begin \in LineStarts(file) \union {Len(file) + 1}
        /\ \A q \in Begin .. Len(file) : file[q] # NL
        /\ Cardinality(StartsBefore(file, Begin)) = k
    BY <1>6, <2>1, <2>2 DEF LineBegun
  <2>5. CASE partial = NoLine
    <3>1. Begin = Len(file) + 1
      BY <1>4, <2>2, <2>5
    <3>2. k = NumLines(file)
      BY <1>4, <2>4, <3>1, FirstAndLast
    <3>3. LineBegun'
      BY <1>1, <1>6, <1>7, <2>2, <2>4, <2>5, <3>1 DEF LineBegun
    <3> QED
      BY <1>1, <1>5, <2>3, <2>5, <3>2, <3>3
  <2>6. CASE partial # NoLine
    <3>1. partial # << >> /\ partial = SubSeq(file, Begin, Len(file))
      BY <2>1, <2>2, <2>6 DEF LineBegun
    <3>2. Begin <= Len(file)
      BY <1>4, <2>2, <2>6, <3>1
    <3>3. Begin \in LineStarts(file) /\ Len(file) \in Begin - 1 .. Len(file)
      BY <1>4, <2>4, <3>2
    <3>4. LineOf(file, k + 1) = partial /\ k < NumLines(file)
      <4>1. ~(Len(file) < Len(file))
        BY <1>4
      <4>2. LineOf(file, k + 1) = SubSeq(file, Begin, Len(file)) /\ k < NumLines(file)
        BY <1>4, <1>5, <2>4, <3>3, <4>1, LineIs
      <4> QED
        BY <3>1, <4>2
    <3>5. Cardinality(StartsBefore(file, Len(file) + 1)) = k + 1
      BY <1>4, <2>4, <3>3, NextLine
    <3>6. LineBegun'
      BY <1>1, <1>4, <1>6, <1>7, <2>2, <2>6, <3>5 DEF LineBegun
    <3> QED
      BY <1>1, <2>3, <2>6, <3>4, <3>6
  <2> QED
    BY <2>5, <2>6
<1>9. LinesCounted'
  <2>1. Returned + (IF partial = NoLine THEN 0 ELSE 1) <= NumLines(file)
    BY <1>2, <1>6 DEF LinesCounted
  <2>2. Returned' + 0 <= NumLines(file)
    BY <1>5, <1>6, <2>1
  <2> QED
    BY <1>1, <1>6, <1>8, <2>2 DEF LinesCounted
<1>10. ErrorEnds' /\ PassInv'
  BY <1>1, <1>2, <1>6 DEF ErrorEnds, PassInv
<1>11. LinesInOrder'
  BY <1>1, <1>8 DEF LinesInOrder
<1> QED
  BY <1>1, <1>3, <1>8, <1>9, <1>10, <1>11 DEF ReaderInv

LEMMA RefillKeeps ==
    ASSUME ReaderInv, Refill, UNCHANGED parserVars
    PROVE  ReaderInv'
<1> DEFINE toRead == SmallerOf(BufLen, Len(file))
           got == SmallerOf(toRead, Len(file) - readSize)
<1>1. /\ pc = "read" /\ Empty /\ ~Over
      /\ buf' = SubSeq(file, readSize + 1, readSize + got)
      /\ readSize' = readSize + got /\ pos' = 0
      /\ eof' = (got < toRead)
      /\ UNCHANGED <<file, err, partial, line, pc, mode, k, columns, guesses, df>>
  BY DEF Refill, parserVars
<1>2. ReaderTypes /\ LinesCounted /\ PassInv /\ ErrorEnds
  BY DEF ReaderInv
<1>3. /\ file \in Seq(Byte) /\ Len(file) \in Nat
      /\ Len(buf) \in Nat /\ pos \in Nat /\ readSize \in Nat /\ BufLen \in Nat
      /\ ~err /\ readSize < Len(file)
  BY <1>1, <1>2, Positions, LineReaderAssumption DEF Over
<1>4. /\ got \in Nat /\ got <= BufLen /\ readSize + got <= Len(file)
      /\ (got < toRead => readSize + got = Len(file)) /\ toRead \in Nat
  BY <1>3 DEF SmallerOf
<1> HIDE DEF toRead, got
<1>5. /\ buf' \in Seq(Byte) /\ Len(buf') = got
      /\ \A i \in 1 .. got : buf'[i] = file[readSize + i]
  <2>1. /\ readSize + 1 \in 1 .. Len(file) + 1
        /\ readSize + got \in readSize .. Len(file)
        /\ (readSize + got) - (readSize + 1) + 1 = got
        /\ \A i \in 1 .. got : (readSize + 1) + i - 1 = readSize + i
    BY <1>3, <1>4
  <2> DEFINE first == readSize + 1
             last == readSize + got
  <2>2. /\ first \in 1 .. Len(file) + 1 /\ last \in first - 1 .. Len(file)
        /\ last - first + 1 = got
        /\ \A i \in 1 .. got : first + i - 1 = readSize + i
    BY <1>3, <2>1
  <2> HIDE DEF first, last
  <2>3. /\ SubSeq(file, first, last) \in Seq(Byte)
        /\ Len(SubSeq(file, first, last)) = last - first + 1
        /\ \A i \in 1 .. last - first + 1 :
              SubSeq(file, first, last)[i] = file[first + i - 1]
    BY <1>3, <2>2
  <2>4. buf' = SubSeq(file, first, last)
    BY <1>1 DEF first, last
  <2> QED
    BY <2>2, <2>3, <2>4
<1>6. ReaderTypes'
  BY <1>1, <1>2, <1>3, <1>4, <1>5 DEF ReaderTypes
<1>7. Returned' = Returned /\ Reading /\ Reading'
  BY <1>1 DEF Returned, HaveLine, Reading
<1>8. Taken' = Taken /\ Held' = Held /\ Begin' = Begin
  <2>1. pos = Len(buf)
    BY <1>1, <1>2, <1>3 DEF Empty, ReaderTypes
  <2>2. Taken = readSize
    BY <1>3, <2>1 DEF Taken
  <2>3. Taken' = readSize
    BY <1>1, <1>3, <1>4, <1>5 DEF Taken
  <2>4. Held' = Held
    BY <1>1 DEF Held
  <2> QED
    BY <2>2, <2>3, <2>4 DEF Begin
<1>9. BufferFromFile /\ LineBegun
  BY <1>3, <1>7 DEF ReaderInv
<1>10. BufferFromFile'
  <2>1. eof' => readSize' = Len(file)
    BY <1>1, <1>4
  <2>2. readSize' - Len(buf') = readSize
    BY <1>1, <1>3, <1>4, <1>5
  <2> QED
    BY <1>1, <1>5, <2>1, <2>2 DEF BufferFromFile
<1>11. LineBegun'
  BY <1>1, <1>7, <1>8, <1>9 DEF LineBegun
<1>12. LinesCounted' /\ ErrorEnds' /\ PassInv'
  BY <1>1, <1>2, <1>3, <1>7 DEF LinesCounted, ErrorEnds, PassInv
<1>13. LinesInOrder'
  BY <1>1 DEF LinesInOrder
<1> QED
  BY <1>6, <1>10, <1>11, <1>12, <1>13 DEF ReaderInv

LEMMA RefillFailsKeeps ==
    ASSUME ReaderInv, RefillFails, UNCHANGED parserVars
    PROVE  ReaderInv'
<1>1. /\ pc = "read" /\ buf' = << >> /\ pos' = 0 /\ err' = TRUE
      /\ UNCHANGED <<file, readSize, eof, partial, line, pc, mode, k, columns, guesses, df>>
  BY DEF RefillFails, parserVars
<1>2. ReaderTypes /\ LinesCounted /\ PassInv
  BY DEF ReaderInv
<1>3. Len(<< >>) = 0 /\ << >> \in Seq(Byte)
  OBVIOUS
<1>4. ReaderTypes'
  BY <1>1, <1>2, <1>3, Positions, LineReaderAssumption DEF ReaderTypes
<1>5. LinesCounted'
  BY <1>1, <1>2 DEF LinesCounted, Reading, Returned, HaveLine
<1>6. ErrorEnds' /\ PassInv' /\ LinesInOrder'
  BY <1>1, <1>2 DEF ErrorEnds, PassInv, LinesInOrder, Reading
<1> QED
  BY <1>1, <1>4, <1>5, <1>6 DEF ReaderInv

LEMMA FindNewlineKeeps ==
    ASSUME ReaderInv, FindNewline, UNCHANGED parserVars
    PROVE  ReaderInv'
<1> DEFINE i == CHOOSE j \in Newlines : \A m \in Newlines : j <= m
<1>1. /\ pc = "read" /\ Newlines # {}
      /\ line' = Longer(pos, i - 1)
      /\ partial' = NoLine /\ pos' = i /\ pc' = "line"
      /\ UNCHANGED <<file, buf, readSize, eof, err, mode, k, columns, guesses, df>>
  BY DEF FindNewline, parserVars
<1>2. ReaderTypes /\ LinesCounted /\ PassInv /\ ErrorEnds
  BY DEF ReaderInv
<1>3. /\ file \in Seq(Byte) /\ Len(file) \in Nat
      /\ Len(buf) \in Nat /\ pos \in Nat /\ readSize \in Nat
      /\ Taken \in 0 .. readSize /\ Held \in Nat /\ Begin \in Int
      /\ Begin = Taken - Held + 1
  BY <1>2, Positions
<1>4. pos <= Len(buf) /\ Len(buf) <= readSize /\ readSize <= Len(file)
  BY <1>2, <1>3 DEF ReaderTypes
<1>5. i \in Newlines /\ \A m \in Newlines : i <= m
  <2>1. Newlines \subseteq pos + 1 .. Len(buf)
    BY DEF Newlines
  <2>2. \E j \in Newlines : \A m \in Newlines : j <= m
    <3>1. Newlines \in SUBSET Nat
      BY <1>3, <2>1
    <3> QED
      BY <1>1, <3>1, LeastMember
  <2> QED
    BY <2>2
<1> HIDE DEF i
<1>6. /\ i \in pos + 1 .. Len(buf) /\ i \in Nat /\ buf[i] = NL
      /\ \A m \in pos + 1 .. i - 1 : buf[m] # NL
  <2>1. i \in pos + 1 .. Len(buf) /\ i \in Nat /\ buf[i] = NL
    BY <1>3, <1>5 DEF Newlines
  <2>2. ASSUME NEW m \in pos + 1 .. i - 1 PROVE buf[m] # NL
    <3>1. m \in pos + 1 .. Len(buf) /\ m < i
      BY <1>3, <2>1
    <3> QED
      BY <1>3, <1>5, <2>1, <3>1 DEF Newlines
  <2> QED
    BY <2>1, <2>2
<1>7. ~err
  <2>1. Len(buf) > 0
    BY <1>3, <1>6
  <2>2. Len(<< >>) = 0
    OBVIOUS
  <2> QED
    BY <1>2, <2>1, <2>2 DEF ErrorEnds, ReaderTypes
<1>8. BufferFromFile /\ LineBegun
  BY <1>1, <1>7 DEF ReaderInv, Reading
<1> DEFINE last == Taken + (i - 1 - pos)
<1>9. /\ Begin \in 1 .. Taken + 1
      /\ line' = SubSeq(file, Begin, last)
      /\ line' \in Seq(Byte)
  <2>1. i - 1 \in pos .. Len(buf)
    BY <1>3, <1>6
  <2> QED
    BY <1>1, <1>2, <1>8, <2>1, LongerIs
<1>10. /\ last \in Taken .. Len(file) - 1 /\ last \in Nat
       /\ last + 1 = readSize - Len(buf) + i
       /\ \A q \in Taken + 1 .. last : /\ q - (readSize - Len(buf)) \in pos + 1 .. i - 1
                                       /\ readSize - Len(buf) + (q - (readSize - Len(buf))) = q
  <2>1. Taken = readSize - Len(buf) + pos
    BY DEF Taken
  <2> QED
    BY <1>3, <1>4, <1>6, <2>1
<1>11. file[last + 1] = NL
  <2>1. i \in 1 .. Len(buf) /\ buf[i] = NL
    BY <1>3, <1>6
  <2>2. buf[i] = file[readSize - Len(buf) + i]
    BY <1>8, <2>1 DEF BufferFromFile
  <2> QED
    BY <1>10, <2>1, <2>2
<1> HIDE DEF last
<1>12. ASSUME NEW q \in Begin .. last PROVE file[q] # NL
  <2>1. CASE q <= Taken
    <3>1. q \in Begin .. Taken
      BY <1>3, <2>1
    <3> QED
      BY <1>8, <3>1 DEF LineBegun
  <2>2. CASE q > Taken
    <3> DEFINE m == q - (readSize - Len(buf))
    <3>1. q \in Taken + 1 .. last
      BY <1>3, <1>10, <2>2
    <3>2. m \in pos + 1 .. i - 1 /\ readSize - Len(buf) + m = q
      BY <1>10, <3>1
    <3>3. m \in 1 .. Len(buf)
      BY <1>3, <1>6, <3>2
    <3> HIDE DEF m
    <3>4. buf[m] = file[readSize - Len(buf) + m]
      BY <1>8, <3>3 DEF BufferFromFile
    <3> QED
      BY <1>6, <3>2, <3>4
  <2>3. q \in Int /\ Taken \in Int
    BY <1>3
  <2> QED
    BY <2>1, <2>2, <2>3
<1>13. Begin \in LineStarts(file) /\ last \in Begin - 1 .. Len(file)
  BY <1>3, <1>8, <1>9, <1>10 DEF LineBegun
<1>14. /\ Returned = k /\ Returned' = k + 1 /\ k \in Nat /\ Reading /\ Reading'
       /\ line' # NoLine
  <2>1. line' # NoLine
    BY <1>9, LineReaderAssumption
  <2> QED
    BY <1>1, <1>2, <2>1 DEF Returned, HaveLine, ReaderTypes, Reading
<1>15. Cardinality(StartsBefore(file, Begin)) = k
  BY <1>8, <1>14 DEF LineBegun
<1>16. LineOf(file, k + 1) = line' /\ k < NumLines(file)
  BY <1>3, <1>9, <1>11, <1>12, <1>13, <1>14, <1>15, LineIs
<1>17. /\ last + 2 \in LineStarts(file) \union {Len(file) + 1}
       /\ Cardinality(StartsBefore(file, last + 2)) = k + 1
  <2>1. last # Len(file)
    BY <1>3, <1>10
  <2> QED
    BY <1>3, <1>11, <1>12, <1>13, <1>15, <2>1, NextLine
<1>18. Taken' = last + 1 /\ Held' = 0 /\ Begin' = last + 2
  <2>1. Taken' = last + 1 /\ Held' = 0
    BY <1>1, <1>3, <1>6, <1>10 DEF Taken, Held
  <2> QED
    BY <1>10, <2>1 DEF Begin
<1>19. ReaderTypes'
  BY <1>1, <1>2, <1>3, <1>6, <1>9 DEF ReaderTypes
<1>20. BufferFromFile'
  BY <1>1, <1>8 DEF BufferFromFile
<1>21. LineBegun'
  <2>1. \A q \in last + 2 .. last + 1 : FALSE
    BY <1>10
  <2> QED
    BY <1>1, <1>14, <1>17, <1>18, <2>1 DEF LineBegun
<1>22. LinesCounted'
  <2>1. NumLines(file) \in Nat
    BY <1>3, StartsFinite
  <2>2. k + 1 + 0 <= NumLines(file)
    BY <1>14, <1>16, <2>1
  <2> QED
    BY <1>1, <1>14, <2>2 DEF LinesCounted
<1>23. ErrorEnds' /\ PassInv'
  BY <1>1, <1>2, <1>14 DEF ErrorEnds, PassInv
<1>24. LinesInOrder'
  BY <1>1, <1>16 DEF LinesInOrder
<1> QED
  BY <1>19, <1>20, <1>21, <1>22, <1>23, <1>24 DEF ReaderInv

LEMMA NoNewlineKeeps ==
    ASSUME ReaderInv, NoNewline, UNCHANGED parserVars
    PROVE  ReaderInv'
<1>1. /\ pc = "read" /\ ~Empty /\ Newlines = {}
      /\ partial' = Longer(pos, Len(buf)) /\ pos' = Len(buf)
      /\ UNCHANGED <<file, buf, readSize, eof, err, line, pc, mode, k, columns, guesses, df>>
  BY DEF NoNewline, parserVars
<1>2. ReaderTypes /\ LinesCounted /\ PassInv /\ ErrorEnds
  BY DEF ReaderInv
<1>3. /\ file \in Seq(Byte) /\ Len(file) \in Nat
      /\ Len(buf) \in Nat /\ pos \in Nat /\ readSize \in Nat
      /\ Taken \in 0 .. readSize /\ Held \in Nat /\ Begin \in Int
      /\ Begin = Taken - Held + 1
  BY <1>2, Positions
<1>4. pos < Len(buf) /\ Len(buf) <= readSize /\ readSize <= Len(file)
  BY <1>1, <1>2, <1>3 DEF ReaderTypes, Empty
<1>5. ~err
  <2>1. Len(<< >>) = 0
    OBVIOUS
  <2> QED
    BY <1>2, <1>3, <1>4, <2>1 DEF ErrorEnds, ReaderTypes
<1>6. BufferFromFile /\ LineBegun
  BY <1>1, <1>5 DEF ReaderInv, Reading
<1>7. Taken + (Len(buf) - pos) = readSize
  BY <1>3 DEF Taken
<1>8. /\ Begin \in 1 .. Taken + 1
      /\ partial' = SubSeq(file, Begin, readSize)
      /\ partial' \in Seq(Byte) /\ Len(partial') = Held + (Len(buf) - pos)
  <2>1. Len(buf) \in pos .. Len(buf)
    BY <1>3, <1>4
  <2> QED
    BY <1>1, <1>2, <1>6, <1>7, <2>1, LongerIs
<1>9. partial' # NoLine /\ partial' # << >>
  <2>1. Len(partial') > 0 /\ Len(<< >>) = 0
    BY <1>3, <1>4, <1>8
  <2>2. partial' # << >>
    BY <2>1
  <2>3. partial' # NoLine
    BY <1>8, LineReaderAssumption
  <2> QED
    BY <2>2, <2>3
<1>10. /\ Returned = k /\ Returned' = k /\ k \in Nat /\ Reading /\ Reading'
  BY <1>1, <1>2 DEF Returned, HaveLine, ReaderTypes, Reading
<1>11. Taken' = readSize /\ Begin' = Begin
  <2>1. Taken' = readSize
    BY <1>1, <1>3 DEF Taken
  <2>2. Held' = Held + (Len(buf) - pos)
    BY <1>8, <1>9 DEF Held
  <2> QED
    BY <1>3, <1>7, <2>1, <2>2 DEF Begin
<1>12. ASSUME NEW q \in Begin .. readSize PROVE file[q] # NL
  <2>1. CASE q <= Taken
    <3>1. q \in Begin .. Taken
      BY <1>3, <2>1
    <3> QED
      BY <1>6, <3>1 DEF LineBegun
  <2>2. CASE q > Taken
    <3> DEFINE m == q - (readSize - Len(buf))
    <3>1. m \in pos + 1 .. Len(buf) /\ m \in 1 .. Len(buf) /\ readSize - Len(buf) + m = q
      BY <1>3, <1>4, <1>7, <2>2
    <3> HIDE DEF m
    <3>2. buf[m] = file[readSize - Len(buf) + m]
      BY <1>6, <3>1 DEF BufferFromFile
    <3> QED
      BY <1>1, <3>1, <3>2 DEF Newlines
  <2>3. q \in Int /\ Taken \in Int
    BY <1>3
  <2> QED
    BY <2>1, <2>2, <2>3
<1>13. ReaderTypes'
  BY <1>1, <1>2, <1>3, <1>8 DEF ReaderTypes
<1>14. BufferFromFile'
  BY <1>1, <1>6 DEF BufferFromFile
<1>15. LineBegun'
  BY <1>1, <1>6, <1>8, <1>9, <1>10, <1>11, <1>12 DEF LineBegun
<1>16. LinesCounted'
  <2>1. NumLines(file) \in Nat
    BY <1>3, StartsFinite
  <2>2. Begin <= Len(file)
    BY <1>3, <1>4, <1>7, <1>8
  <2>3. Begin \in LineStarts(file)
    BY <1>3, <1>6, <2>2 DEF LineBegun
  <2>4. Cardinality(StartsBefore(file, Begin)) = k
    BY <1>6, <1>10 DEF LineBegun
  <2>5. k + 1 <= NumLines(file)
    <3>1. Begin \notin StartsBefore(file, Begin)
          /\ StartsBefore(file, Begin) \in SUBSET LineStarts(file)
      BY <1>3 DEF StartsBefore
    <3>2. k < NumLines(file)
      BY <1>3, <2>1, <2>3, <2>4, <3>1, StartsFinite, FS_Subset DEF NumLines
    <3> QED
      BY <1>10, <2>1, <3>2
  <2> QED
    BY <1>1, <1>9, <1>10, <2>5 DEF LinesCounted
<1>17. ErrorEnds' /\ PassInv'
  BY <1>1, <1>2, <1>10 DEF ErrorEnds, PassInv
<1>18. LinesInOrder'
  BY <1>1 DEF LinesInOrder
<1> QED
  BY <1>13, <1>14, <1>15, <1>16, <1>17, <1>18 DEF ReaderInv

---------------------------------------------------------------------------
(* The passes.  A step that takes what readLine has returned leaves the     *)
(* reader where it is; a new pass starts again at the first line.           *)
LEMMA TakesLine ==
    ASSUME ReaderInv, HaveLine, Kept, k' = k + 1, mode' = mode,
           pc' \in {"read", "passed"},
           mode = "parse" => pc' = "read",
           mode # "parse" => NextGuessLine
    PROVE  ReaderInv'
<1>1. /\ pc = "line" /\ line # NoLine
      /\ UNCHANGED <<file, buf, pos, readSize, eof, err, partial, line>>
  BY DEF HaveLine, Kept
<1>2. ReaderTypes /\ LinesCounted /\ PassInv /\ ErrorEnds
  BY DEF ReaderInv
<1>3. file \in Seq(Byte) /\ k \in Nat /\ NumLines(file) \in Nat
  BY <1>2, Positions, StartsFinite DEF ReaderTypes
<1>4. /\ Taken' = Taken /\ Held' = Held /\ Begin' = Begin
      /\ Returned = k + 1 /\ Returned' = k + 1 /\ Reading
  BY <1>1 DEF Taken, Held, Begin, Returned, HaveLine, Reading
<1>5. ReaderTypes'
  <2>1. k' \in Nat
    BY <1>3
  <2> QED
    BY <1>1, <1>2, <2>1 DEF ReaderTypes
<1>6. ~err => BufferFromFile /\ LineBegun
  BY <1>4 DEF ReaderInv
<1>7. (~err => BufferFromFile /\ LineBegun)'
  BY <1>1, <1>4, <1>6 DEF BufferFromFile, LineBegun
<1>8. k + 1 <= NumLines(file)
      /\ k + 1 + (IF partial = NoLine THEN 0 ELSE 1) <= NumLines(file)
  <2>1. k + 1 + (IF partial = NoLine THEN 0 ELSE 1) <= NumLines(file)
    BY <1>2, <1>4 DEF LinesCounted
  <2>2. (IF partial = NoLine THEN 0 ELSE 1) \in {0, 1}
    OBVIOUS
  <2> QED
    BY <1>3, <2>1, <2>2
<1>9. LinesCounted' /\ ErrorEnds'
  BY <1>1, <1>2, <1>4, <1>8 DEF LinesCounted, ErrorEnds
<1>10. PassInv'
  <2>1. (~Reading => k <= NumLines(file))' /\ pc' # "open"
    BY <1>1, <1>8
  <2>2. CASE mode = "parse"
    BY <2>1, <2>2 DEF PassInv
  <2>3. CASE mode # "parse"
    <3>1. k < GUESS_SCHEMA_LINES /\ GUESS_SCHEMA_LINES \in Nat
      BY <1>1, <1>2, <2>3, SorParserAssumption DEF PassInv
    <3>2. k + 1 <= GUESS_SCHEMA_LINES
      BY <1>3, <3>1
    <3>3. pc' = IF k + 1 = GUESS_SCHEMA_LINES THEN "passed" ELSE "read"
      BY <2>3 DEF NextGuessLine
    <3>4. pc' = "read" => k + 1 < GUESS_SCHEMA_LINES
      BY <1>3, <3>1, <3>2, <3>3
    <3>5. pc' = "passed" => k + 1 = SmallerOf(NumLines(file), GUESS_SCHEMA_LINES)
      BY <1>3, <1>8, <3>1, <3>3 DEF SmallerOf
    <3> QED
      BY <1>1, <2>1, <3>2, <3>4, <3>5 DEF PassInv
  <2> QED
    BY <2>2, <2>3
<1>11. LinesInOrder'
  BY DEF LinesInOrder
<1> QED
  BY <1>5, <1>7, <1>9, <1>10, <1>11 DEF ReaderInv

LEMMA ResetKeeps ==
    ASSUME ReaderInv, Reset, UNCHANGED line, k' = 0, pc' \in {"read", "failed"},
           mode' \in {"guess", "parse"}
    PROVE  ReaderInv'
<1>1. /\ buf' = << >> /\ pos' = 0 /\ readSize' = 0 /\ eof' = FALSE
      /\ partial' = NoLine /\ UNCHANGED <<file, err>>
  BY DEF Reset
<1>2. ReaderTypes
  BY DEF ReaderInv
<1>3. /\ file \in Seq(Byte) /\ NumLines(file) \in Nat /\ Len(file) \in Nat
      /\ Len(<< >>) = 0 /\ << >> \in Seq(Byte)
  BY <1>2, Positions, StartsFinite
<1>4. ReaderTypes'
  <2>1. eof' \in BOOLEAN /\ err' \in BOOLEAN
    BY <1>1, <1>2 DEF ReaderTypes
  <2>2. file' \in Files /\ line' \in Seq(Byte) \union {NoLine}
    BY <1>1, <1>2 DEF ReaderTypes
  <2>3. /\ buf' \in Seq(Byte) /\ Len(buf') = 0 /\ pos' = 0 /\ readSize' = 0
        /\ k' = 0 /\ partial' = NoLine /\ file' = file
    BY <1>1, <1>3
  <2> QED
    BY <1>3, <2>1, <2>2, <2>3, LineReaderAssumption DEF ReaderTypes
<1>5. Taken' = 0 /\ Held' = 0 /\ Begin' = 1 /\ Returned' = 0
  <2>1. Len(buf') = 0 /\ pos' = 0 /\ readSize' = 0 /\ k' = 0 /\ partial' = NoLine
    BY <1>1, <1>3
  <2>2. Taken' = 0
    BY <2>1 DEF Taken
  <2>3. Held' = 0 /\ Returned' = 0
    BY <2>1 DEF Held, Returned, HaveLine
  <2> QED
    BY <2>2, <2>3 DEF Begin
<1>6. BufferFromFile'
  BY <1>1, <1>3 DEF BufferFromFile
<1>7. LineBegun'
  BY <1>1, <1>3, <1>5, FirstAndLast DEF LineBegun
<1>8. LinesCounted' /\ ErrorEnds'
  BY <1>1, <1>3, <1>5 DEF LinesCounted, ErrorEnds
<1>9. PassInv'
  BY <1>1, <1>3, SorParserAssumption DEF PassInv
<1>10. LinesInOrder'
  BY DEF LinesInOrder
<1> QED
  BY <1>4, <1>6, <1>7, <1>8, <1>9, <1>10 DEF ReaderInv

(* A step that does not touch the reader and ends the reading of a pass.    *)
LEMMA StopsReading ==
    ASSUME ReaderInv, Kept, k' = k, mode' \in {"count", "guess", "parse"},
           pc' \in {"passed", "done", "failed"},
           k <= NumLines(file),
           mode' # "parse" => k <= GUESS_SCHEMA_LINES,
           mode' # "parse" /\ pc' = "passed" /\ ~err =>
               k = SmallerOf(NumLines(file), GUESS_SCHEMA_LINES)
    PROVE  ReaderInv'
<1>1. UNCHANGED <<file, buf, pos, readSize, eof, err, partial, line>>
  BY DEF Kept
<1>2. ReaderTypes'
  BY <1>1 DEF ReaderInv, ReaderTypes
<1>3. ErrorEnds'
  BY <1>1 DEF ReaderInv, ErrorEnds
<1>4. ~Reading' /\ LinesCounted' /\ LinesInOrder'
  BY DEF Reading, LinesCounted, LinesInOrder
<1>5. PassInv'
  BY <1>1 DEF PassInv
<1> QED
  BY <1>2, <1>3, <1>4, <1>5 DEF ReaderInv

LEMMA KAtMostLines == ReaderInv => k <= NumLines(file) /\ k \in Nat
<1> SUFFICES ASSUME ReaderInv PROVE k <= NumLines(file) /\ k \in Nat
  OBVIOUS
<1>1. ReaderTypes /\ LinesCounted /\ PassInv
  BY DEF ReaderInv
<1>2. k \in Nat /\ NumLines(file) \in Nat
  BY <1>1, Positions, StartsFinite DEF ReaderTypes
<1>3. CASE Reading
  <2>1. Returned \in {k, k + 1}
    BY DEF Returned
  <2>2. Returned + (IF partial = NoLine THEN 0 ELSE 1) <= NumLines(file)
    BY <1>1, <1>3 DEF LinesCounted
  <2>3. (IF partial = NoLine THEN 0 ELSE 1) \in {0, 1}
    OBVIOUS
  <2> QED
    BY <1>2, <2>1, <2>2, <2>3
<1>4. CASE ~Reading
  BY <1>1, <1>2, <1>4 DEF PassInv
<1> QED
  BY <1>3, <1>4

LEMMA ReaderSteps ==
    ASSUME ReaderInv, Work
    PROVE  ReaderInv'
<1>1. k <= NumLines(file) /\ k \in Nat /\ PassInv /\ ReaderTypes
  BY KAtMostLines DEF ReaderInv
<1>2. CASE Open \/ CannotOpen
  <2>1. /\ pc = "open" /\ pc' \in {"read", "failed"}
        /\ UNCHANGED <<file, buf, pos, readSize, eof, err, partial, line, mode, k, columns>>
    BY <1>2 DEF Open, CannotOpen, parserVars
  <2>2. /\ Taken' = Taken /\ Held' = Held /\ Begin' = Begin
        /\ Returned' = Returned /\ Reading
    BY <2>1 DEF Taken, Held, Begin, Returned, HaveLine, Reading
  <2>3. ReaderTypes'
    BY <1>1, <2>1 DEF ReaderTypes
  <2>4. (Reading /\ ~err => BufferFromFile /\ LineBegun)'
    BY <2>1, <2>2 DEF ReaderInv, BufferFromFile, LineBegun
  <2>5. (ErrorEnds /\ LinesCounted)'
    BY <2>1, <2>2 DEF ReaderInv, ErrorEnds, LinesCounted
  <2>6. (PassInv /\ LinesInOrder)'
    BY <1>1, <2>1, SorParserAssumption DEF PassInv, LinesInOrder
  <2> QED
    BY <2>3, <2>4, <2>5, <2>6 DEF ReaderInv
<1>3. CASE Read
  BY <1>3, EndOfFileKeeps, RefillKeeps, RefillFailsKeeps, FindNewlineKeeps,
     NoNewlineKeeps DEF Read, ReadLine
<1>4. CASE EndOfPass
  <2>1. /\ pc = "line" /\ line = NoLine /\ pc' = "passed" /\ Kept
        /\ mode' = mode /\ k' = k
    BY <1>4 DEF EndOfPass, parserVars
  <2>2. mode # "parse" => k < GUESS_SCHEMA_LINES
    BY <1>1, <2>1 DEF PassInv
  <2>3. ~err => k = NumLines(file)
    BY <2>1 DEF ReaderInv, LinesCounted
  <2>4. mode # "parse" /\ ~err => k = SmallerOf(NumLines(file), GUESS_SCHEMA_LINES)
    BY <2>2, <2>3 DEF SmallerOf
  <2>5. mode # "parse" => k <= GUESS_SCHEMA_LINES
    BY <1>1, <2>2, SorParserAssumption
  <2>6. mode \in {"count", "guess", "parse"}
    BY <1>1 DEF ReaderTypes
  <2> QED
    BY <1>1, <2>1, <2>4, <2>5, <2>6, StopsReading
<1>5. CASE CountFields \/ GuessTypes
  <2>1. HaveLine /\ Kept /\ mode' = mode /\ mode # "parse" /\ NextGuessLine
    BY <1>5 DEF CountFields, GuessTypes
  <2>2. k' = k + 1 /\ pc' \in {"read", "passed"}
    BY <2>1 DEF NextGuessLine
  <2> QED
    BY <2>1, <2>2, TakesLine
<1>6. CASE StartGuessing
  <2>1. CASE columns = 0
    <3>1. /\ pc' = "failed" /\ k' = k /\ Kept /\ mode' = "guess" /\ mode = "count"
      BY <1>6, <2>1 DEF StartGuessing
    <3>2. k <= GUESS_SCHEMA_LINES
      BY <1>1, <3>1 DEF PassInv
    <3> QED
      BY <1>1, <3>1, <3>2, StopsReading
  <2>2. CASE columns # 0
    <3>1. Reset /\ UNCHANGED line /\ k' = 0 /\ pc' = "read" /\ mode' = "guess"
      BY <1>6, <2>2 DEF StartGuessing
    <3> QED
      BY <3>1, ResetKeeps
  <2> QED
    BY <2>1, <2>2
<1>7. CASE StartParsing
  <2>1. Reset /\ UNCHANGED line /\ k' = 0 /\ pc' \in {"read", "failed"} /\ mode' = "parse"
    BY <1>7 DEF StartParsing
  <2> QED
    BY <2>1, ResetKeeps
<1>8. CASE ParseFields
  <2>1. /\ mode = "parse" /\ HaveLine /\ mode' = mode /\ Kept
        /\ (k' = k + 1 /\ pc' = "read") \/ (k' = k /\ pc' = "failed")
    BY <1>8 DEF ParseFields
  <2>2. CASE k' = k + 1 /\ pc' = "read"
    BY <2>1, <2>2, TakesLine
  <2>3. CASE k' = k /\ pc' = "failed"
    BY <1>1, <2>1, <2>3, StopsReading
  <2> QED
    BY <2>1, <2>2, <2>3
<1>9. CASE Finish
  <2>1. mode = "parse" /\ pc' = "done" /\ Kept /\ mode' = mode /\ k' = k
    BY <1>9 DEF Finish, parserVars
  <2> QED
    BY <1>1, <2>1, StopsReading
<1> QED
  BY <1>2, <1>3, <1>4, <1>5, <1>6, <1>7, <1>8, <1>9 DEF Work

LEMMA ReaderInvariant == Spec => []ReaderInv
<1>1. ASSUME ReaderInv, [Next]_vars PROVE ReaderInv'
  BY <1>1, ReaderSteps, StutterKeeps DEF Next, End
<1> QED
  BY <1>1, InitStarts, PTL DEF Spec

(* For any file and any length of the buffer, in every pass and as long as  *)
(* no read fails, readLine returns the lines of the file one after the      *)
(* other, each whole, and then nothing.                                     *)
THEOREM LinesComeInOrder == Spec => []LinesInOrder
<1>1. ReaderInv => LinesInOrder
  BY DEF ReaderInv
<1> QED
  BY <1>1, ReaderInvariant, PTL

---------------------------------------------------------------------------
(* The guess of the types.                                                  *)
LEMMA TypesAre == Types = 0 .. 4 /\ Unknown = 0 /\ Bool = 1 /\ Integer = 2 /\ Float = 3 /\ String = 4
BY DEF Types, Unknown, Bool, Integer, Float, String

LEMMA GuessWidens ==
    ASSUME NEW guess \in Types, NEW field, AsWritten(field)
    PROVE  /\ Guess(guess, field) \in Types
           /\ \A t \in Types : t >= Guess(guess, field) <=> (t >= guess /\ Holds(t, field))
<1> USE DEF AsWritten
<1>1. guess \in 0 .. 4 /\ Types = 0 .. 4
  BY TypesAre
<1>2. CASE field.kind = "blank"
  <2>1. Guess(guess, field) = guess /\ \A t : Holds(t, field)
    BY <1>2 DEF Guess, Holds, Blank
  <2> QED
    BY <1>1, <2>1
<1>3. CASE field.kind = "int" /\ field.n \in {0, 1}
  <2>1. \A t \in 0 .. 4 : Holds(t, field) <=> t >= 1
    BY <1>3, TypesAre DEF Holds, Blank
  <2>2. Guess(guess, field) = IF guess \in {2, 3, 4} THEN guess ELSE 1
    <3>1. CASE guess = String
      BY <3>1, TypesAre DEF Guess
    <3>2. CASE guess # String
      <4>1. Guess(guess, field) =
                IF guess = Float THEN Float
                ELSE IF ToInt(field) \in {0, 1} /\ guess # Integer THEN Bool ELSE Integer
        BY <1>3, <3>2 DEF Guess, Blank
      <4> QED
        BY <1>1, <1>3, <3>2, <4>1, TypesAre
    <3> QED
      BY <3>1, <3>2
  <2> QED
    BY <1>1, <2>1, <2>2
<1>4. CASE field.kind = "int" /\ field.n \notin {0, 1}
  <2>1. \A t \in 0 .. 4 : Holds(t, field) <=> t >= 2
    BY <1>4, TypesAre DEF Holds, Blank
  <2>2. Guess(guess, field) = IF guess \in {3, 4} THEN guess ELSE 2
    <3>1. CASE guess = String
      BY <3>1, TypesAre DEF Guess
    <3>2. CASE guess # String
      <4>1. Guess(guess, field) =
                IF guess = Float THEN Float
                ELSE IF ToInt(field) \in {0, 1} /\ guess # Integer THEN Bool ELSE Integer
        BY <1>4, <3>2 DEF Guess, Blank
      <4> QED
        BY <1>1, <1>4, <3>2, <4>1, TypesAre
    <3> QED
      BY <3>1, <3>2
  <2> QED
    BY <1>1, <2>1, <2>2
<1>5. CASE field.kind = "float"
  <2>1. \A t : Holds(t, field) <=> t >= 3
    BY <1>5, TypesAre DEF Holds, Blank
  <2>2. Guess(guess, field) = IF guess = 4 THEN guess ELSE 3
    <3>1. CASE guess = String
      BY <3>1, TypesAre DEF Guess
    <3>2. CASE guess # String
      <4>1. Guess(guess, field) = Float
        BY <1>5, <3>2 DEF Guess, Blank
      <4> QED
        BY <1>1, <3>2, <4>1, TypesAre
    <3> QED
      BY <3>1, <3>2
  <2> QED
    BY <1>1, <2>1, <2>2
<1>6. CASE field.kind \notin {"blank", "int", "float"}
  <2>1. \A t : Holds(t, field) <=> t = 4
    BY <1>6, TypesAre DEF Holds, Blank
  <2>2. Guess(guess, field) = 4
    BY <1>1, <1>6, TypesAre DEF Guess, Blank
  <2> QED
    BY <1>1, <2>1, <2>2
<1> QED
  BY <1>2, <1>3, <1>4, <1>5, <1>6

LEMMA GuessIsType ==
    ASSUME NEW guess \in Types, NEW field
    PROVE  Guess(guess, field) \in Types
<1>1. Guess(guess, field) \in {guess, 1, 2, 3, 4}
  BY TypesAre DEF Guess
<1> QED
  BY <1>1, TypesAre

LEMMA LineIsRow ==
    ASSUME ReaderInv, HaveLine, ~err
    PROVE  /\ FieldsOf(line) = RowOf(k + 1)
           /\ k \in Nat /\ k + 1 <= NumLines(file) /\ NumLines(file) \in Nat
<1>1. ReaderTypes /\ LinesInOrder
  BY DEF ReaderInv
<1>2. k \in Nat /\ NumLines(file) \in Nat
  BY <1>1, Positions, StartsFinite DEF ReaderTypes
<1>3. k < NumLines(file) /\ line = LineOf(file, k + 1)
  BY <1>1 DEF LinesInOrder, HaveLine
<1> QED
  BY <1>2, <1>3 DEF RowOf

(* An exact guess is the narrowest type.                                    *)
LEMMA ExactIsNarrowest ==
    ASSUME NEW guess, NEW rows, NEW c, Exact(guess, rows, c)
    PROVE  guess = Narrowest(rows, c)
<1> DEFINE fields == {RowOf(r)[c] : r \in {q \in rows : c <= Len(RowOf(q))}}
           Fit(t) == \A f \in fields : Holds(t, f)
<1>1. guess \in Types /\ \A t \in Types : t >= guess <=> HoldAll(t, rows, c)
  BY DEF Exact
<1>2. \A t \in Types : Fit(t) <=> HoldAll(t, rows, c)
  BY DEF HoldAll
<1> HIDE DEF Fit
<1>3. Fit(guess) /\ \A u \in Types : Fit(u) => guess <= u
  BY <1>1, <1>2, TypesAre
<1>4. ASSUME NEW t \in Types, Fit(t), \A u \in Types : Fit(u) => t <= u
      PROVE  t = guess
  <2>1. t <= guess /\ guess <= t
    BY <1>1, <1>3, <1>4
  <2> QED
    BY <1>1, <2>1, TypesAre
<1>5. guess = CHOOSE t \in Types : Fit(t) /\ \A u \in Types : Fit(u) => t <= u
  BY <1>1, <1>3, <1>4
<1> QED
  BY <1>5 DEF Narrowest, Fit

LEMMA GuessInit == Init => GuessInv
BY DEF Init, GuessInv, Counted

LEMMA RowsKept ==
    ASSUME file' = file
    PROVE  /\ \A r : RowOf(r)' = RowOf(r)
           /\ \A t, rows, c : HoldAll(t, rows, c)' <=> HoldAll(t, rows, c)
           /\ \A guess, rows, c : Exact(guess, rows, c)' <=> Exact(guess, rows, c)
           /\ \A rows, c : PlainIn(rows, c)' <=> PlainIn(rows, c)
           /\ \A c : Plain(c)' <=> Plain(c)
           /\ GuessedRows' = GuessedRows
           /\ \A rows, c : Narrowest(rows, c)' = Narrowest(rows, c)
           /\ \A c : Narrowest(Rows, c)' = Narrowest(Rows, c)
           /\ IsTable' <=> IsTable
BY DEF RowOf, HoldAll, Exact, PlainIn, Plain, GuessedRows, Narrowest, IsTable, Rows

---------------------------------------------------------------------------
(* Work never touches the file, and an error stays.                         *)
LEMMA FileKept == ASSUME Work PROVE file' = file /\ (err => err')
BY DEF Work, Open, CannotOpen, Read, ReadLine, EndOfFile, Refill, RefillFails,
       FindNewline, NoNewline, EndOfPass, CountFields, StartGuessing, GuessTypes,
       StartParsing, ParseFields, Finish, Kept, Reset

(* The steps that leave the parser's own state alone.                       *)
Elsewhere == Open \/ CannotOpen \/ Read \/ EndOfPass \/ Finish

LEMMA ElsewhereKeeps ==
    ASSUME ReaderInv, Elsewhere
    PROVE  /\ UNCHANGED <<mode, k, columns, guesses, df>>
           /\ Counted' => Counted
           /\ mode = "guess" => pc # "failed"
<1>1. UNCHANGED <<mode, k, columns, guesses, df>>
  BY DEF Elsewhere, Open, CannotOpen, Read, EndOfPass, Finish, parserVars
<1>2. pc # "failed"
  BY DEF Elsewhere, Open, CannotOpen, Read, ReadLine, EndOfFile, Refill,
         RefillFails, FindNewline, NoNewline, EndOfPass, Finish
<1> QED
  BY <1>1, <1>2 DEF Counted

LEMMA GuessSteps ==
    ASSUME ReaderInv, GuessInv, Work
    PROVE  GuessInv'
<1> USE FileKept
<1>1. file' = file /\ (~err' => ~err)
  OBVIOUS
<1>2. CASE Elsewhere
  BY <1>1, <1>2, ElsewhereKeeps, RowsKept DEF GuessInv
<1>3. CASE CountFields
  BY <1>3 DEF CountFields, GuessInv, Counted
<1>4. CASE StartGuessing
  <2>1. CASE columns = 0
    BY <1>4, <2>1 DEF StartGuessing, GuessInv, Counted
  <2>2. CASE columns # 0
    <3>1. /\ mode' = "guess" /\ columns' = columns /\ k' = 0
          /\ guesses' = [c \in 1 .. columns |-> Unknown]
      BY <1>4, <2>2 DEF StartGuessing
    <3>2. ASSUME NEW c \in 1 .. columns
          PROVE  Exact(Unknown, 1 .. 0, c)
      BY TypesAre DEF Exact, HoldAll
    <3>3. \A c \in 1 .. columns : guesses'[c] = Unknown
      BY <3>1
    <3> QED
      BY <1>1, <3>1, <3>2, <3>3, RowsKept DEF GuessInv, Counted
  <2> QED
    BY <2>1, <2>2
<1>5. CASE GuessTypes
  <2> DEFINE fields == FieldsOf(line)
  <2>1. /\ mode = "guess" /\ HaveLine /\ mode' = mode /\ columns' = columns
        /\ k' = k + 1 /\ pc' # "failed" /\ pc # "failed" /\ Kept
        /\ guesses' = [c \in 1 .. columns |->
                          IF c <= Len(fields) THEN Guess(guesses[c], fields[c]) ELSE guesses[c]]
    BY <1>5 DEF GuessTypes, NextGuessLine, HaveLine
  <2>2. err' = err
    BY <2>1 DEF Kept
  <2>3. ASSUME ~err, NEW c \in 1 .. columns, PlainIn(1 .. k + 1, c)
        PROVE  Exact(guesses'[c], 1 .. k + 1, c)
    <3>1. /\ fields = RowOf(k + 1) /\ k \in Nat
      BY <2>1, <2>3, LineIsRow
    <3>2. \A r : r \in 1 .. k + 1 <=> r \in 1 .. k \/ r = k + 1
      BY <3>1
    <3>3. PlainIn(1 .. k, c)
      BY <2>3, <3>2 DEF PlainIn
    <3>4. Exact(guesses[c], 1 .. k, c)
      BY <2>1, <2>3, <3>3 DEF GuessInv
    <3>5. \A t : HoldAll(t, 1 .. k + 1, c) <=>
                    HoldAll(t, 1 .. k, c) /\ (c <= Len(fields) => Holds(t, fields[c]))
      BY <3>1, <3>2 DEF HoldAll
    <3>6. CASE c <= Len(fields)
      <4>1. AsWritten(fields[c])
        BY <2>3, <3>1, <3>2, <3>6 DEF PlainIn
      <4>2. guesses[c] \in Types
        BY <3>4 DEF Exact
      <4>3. guesses'[c] = Guess(guesses[c], fields[c])
        BY <2>1, <3>6
      <4> HIDE DEF fields
      <4> QED
        BY <3>4, <3>5, <3>6, <4>1, <4>2, <4>3, GuessWidens DEF Exact
    <3>7. CASE ~(c <= Len(fields))
      <4>1. guesses'[c] = guesses[c]
        BY <2>1, <3>7
      <4> QED
        BY <3>4, <3>5, <3>7, <4>1 DEF Exact
    <3> QED
      BY <3>6, <3>7
  <2>4. DOMAIN guesses' = 1 .. columns
    BY <2>1
  <2> QED
    BY <1>1, <2>1, <2>2, <2>3, <2>4, RowsKept DEF GuessInv, Counted
<1>6. CASE StartParsing
  <2>1. /\ mode = "guess" /\ pc = "passed" /\ mode' = "parse"
        /\ columns' = columns /\ guesses' = guesses
    BY <1>6 DEF StartParsing
  <2>2. ~err => 1 .. k = GuessedRows
    BY <2>1 DEF ReaderInv, PassInv, GuessedRows
  <2>3. ~err => \A c \in 1 .. columns : Plain(c) => Exact(guesses[c], GuessedRows, c)
    BY <2>1, <2>2 DEF GuessInv, Plain, PlainIn
  <2>4. DOMAIN guesses = 1 .. columns
    BY <2>1 DEF GuessInv, Counted
  <2> QED
    BY <1>1, <2>1, <2>3, <2>4, RowsKept DEF GuessInv, Counted
<1>7. CASE ParseFields
  <2>1. mode = "parse" /\ mode' = mode /\ columns' = columns /\ guesses' = guesses
    BY <1>7 DEF ParseFields
  <2> QED
    BY <1>1, <2>1, RowsKept DEF GuessInv, Counted
<1> QED
  BY <1>2, <1>3, <1>4, <1>5, <1>6, <1>7 DEF Work, Elsewhere

LEMMA GuessInvariant == Spec => []GuessInv
<1>1. ASSUME GuessInv, UNCHANGED vars PROVE GuessInv'
  <2>1. UNCHANGED <<file, err, pc, mode, k, columns, guesses>>
    BY <1>1 DEF vars, readerVars, parserVars
  <2> QED
    BY <1>1, <2>1, RowsKept DEF GuessInv, Counted
<1>2. ASSUME ReaderInv, GuessInv, [Next]_vars PROVE GuessInv'
  BY <1>1, <1>2, GuessSteps DEF Next, End
<1> QED
  BY <1>2, GuessInit, ReaderInvariant, PTL DEF Spec

(* In whatever order the fields come, blank or not, a column gets the       *)
(* narrowest of the types that hold all of the fields it was guessed from,  *)
(* unless a quoted string among them looks like a number.                   *)
THEOREM GuessesAreNarrowest == Spec => []GuessIsNarrowest
<1>1. GuessInv => GuessIsNarrowest
  BY ExactIsNarrowest DEF GuessInv, GuessIsNarrowest
<1> QED
  BY <1>1, GuessInvariant, PTL

---------------------------------------------------------------------------
(* The rows of a table.  String holds everything, so there is a narrowest   *)
(* type that does.                                                          *)
LEMMA StringHolds == \A field : Holds(String, field)
<1> TAKE field
<1>1. String >= Bool /\ String >= Integer /\ String >= Float
  BY TypesAre
<1> QED
  BY <1>1 DEF Holds

LEMMA NarrowestHolds ==
    ASSUME NEW rows, NEW c
    PROVE  HoldAll(Narrowest(rows, c), rows, c)
<1> DEFINE fields == {RowOf(r)[c] : r \in {q \in rows : c <= Len(RowOf(q))}}
           Fit(t) == \A f \in fields : Holds(t, f)
           Fitting == {t \in Types : Fit(t)}
<1>1. Fitting \in SUBSET Nat /\ Fitting # {}
  <2>1. Types \subseteq Nat /\ String \in Types
    BY TypesAre
  <2>2. Fit(String)
    BY StringHolds
  <2> HIDE DEF Fit
  <2> QED
    BY <2>1, <2>2
<1>2. \E t \in Fitting : \A u \in Fitting : t <= u
  BY <1>1, LeastMember
<1>3. \E t \in Types : Fit(t) /\ \A u \in Types : Fit(u) => t <= u
  BY <1>2
<1> HIDE DEF Fit
<1>4. Fit(CHOOSE t \in Types : Fit(t) /\ \A u \in Types : Fit(u) => t <= u)
  BY <1>3
<1>5. Fit(Narrowest(rows, c))
  BY <1>4 DEF Narrowest, Fit
<1> QED
  BY <1>5 DEF Fit, HoldAll

(* A column changes no field that its type holds.                           *)
LEMMA HeldIsKept ==
    ASSUME NEW type \in Types, NEW field, Holds(type, field)
    PROVE  Cell(type, field) = Value(type, field)
<1>1. CASE Blank(field) \/ type = String \/ type = Float
  BY <1>1, TypesAre DEF Cell, Value
<1>2. CASE ~Blank(field) /\ type # String /\ type # Float
  <2>1. ToInt(field) = field.n
    <3>1. CASE field.kind = "int"
      BY <1>2, <3>1, TypesAre DEF Holds
    <3>2. CASE field.kind # "int"
      BY <1>2, <3>2, TypesAre DEF Holds
    <3> QED
      BY <3>1, <3>2
  <2> QED
    BY <1>2, <2>1 DEF Cell, Value
<1> QED
  BY <1>1, <1>2

LEMMA OneMoreCell ==
    ASSUME NEW n \in Nat, NEW S, NEW g \in [1 .. n + 1 -> S]
    PROVE  [r \in 1 .. n |-> g[r]] \o <<g[n + 1]>> = g
<1> DEFINE s == [r \in 1 .. n |-> g[r]]
           one == <<g[n + 1]>>
<1>1. s \in Seq(S) /\ Len(s) = n
  BY IsASeq
<1>2. g \in Seq(S) /\ Len(g) = n + 1
  OBVIOUS
<1>3. g[n + 1] \in S
  OBVIOUS
<1>4. one \in Seq(S) /\ Len(one) = 1 /\ one[1] = g[n + 1]
  BY <1>3
<1>5. \A i \in 1 .. n : s[i] = g[i]
  OBVIOUS
<1> HIDE DEF s, one
<1>6. /\ s \o one \in Seq(S) /\ Len(s \o one) = n + 1
      /\ \A i \in 1 .. n + 1 : (s \o one)[i] = IF i <= n THEN s[i] ELSE one[i - n]
  <2>1. /\ s \o one \in Seq(S) /\ Len(s \o one) = Len(s) + Len(one)
        /\ \A i \in 1 .. Len(s) + Len(one) :
              (s \o one)[i] = IF i <= Len(s) THEN s[i] ELSE one[i - Len(s)]
    BY <1>1, <1>4, ConcatProperties
  <2> QED
    BY <1>1, <1>4, <2>1
<1>7. \A i \in 1 .. n + 1 : (s \o one)[i] = g[i]
  <2> TAKE i \in 1 .. n + 1
  <2>1. CASE i <= n
    <3>1. i \in 1 .. n
      BY <2>1
    <3> QED
      BY <1>5, <1>6, <2>1, <3>1
  <2>2. CASE i = n + 1
    <3>1. ~(i <= n) /\ i - n = 1
      BY <2>2
    <3> QED
      BY <1>4, <1>6, <2>2, <3>1
  <2>3. i <= n \/ i = n + 1
    OBVIOUS
  <2> QED
    BY <2>1, <2>2, <2>3
<1>8. s \o one = g
  BY <1>2, <1>6, <1>7, SeqEqual
<1> QED
  BY <1>8 DEF s, one

LEMMA TableInit == Init => TableInv
BY DEF Init, TableInv, Counted

LEMMA TableFacts ==
    ASSUME IsTable
    PROVE  /\ Len(RowOf(1)) \in Nat \ {0}
           /\ \A r \in Rows : Len(RowOf(r)) = Len(RowOf(1))
           /\ \A c \in 1 .. Len(RowOf(1)) : Plain(c) /\ Narrowest(Rows, c) = Narrowest(GuessedRows, c)
<1>1. Len(RowOf(1)) \in 1 .. MaxColumns
  BY DEF IsTable
<1> QED
  BY <1>1, SorParserAssumption DEF IsTable

LEMMA TableSteps ==
    ASSUME ReaderInv, GuessInv, TableInv, Work
    PROVE  TableInv'
<1> SUFFICES ASSUME ~err', IsTable'
             PROVE  /\ mode' = "count" => columns' = IF k' = 0 THEN 0 ELSE Len(RowOf(1))'
                    /\ Counted' => columns' = Len(RowOf(1))'
                    /\ mode' = "parse" => TableKept'
  BY DEF TableInv
<1>1. file' = file /\ ~err
  BY FileKept
<1>2. IsTable /\ Len(RowOf(1))' = Len(RowOf(1))
  BY <1>1, RowsKept
<1>3. /\ mode = "count" => columns = IF k = 0 THEN 0 ELSE Len(RowOf(1))
      /\ Counted => columns = Len(RowOf(1))
      /\ mode = "parse" => \A c \in 1 .. columns :
            df[c] = [r \in 1 .. k |-> Value(Narrowest(Rows, c), RowOf(r)[c])]
  BY <1>1, <1>2 DEF TableInv, TableKept
<1>4. /\ Len(RowOf(1)) \in Nat \ {0} /\ k \in Nat
      /\ \A r \in Rows : Len(RowOf(r)) = Len(RowOf(1))
  BY <1>2, TableFacts, KAtMostLines
<1>5. ASSUME \A c \in 1 .. columns' : df'[c] = [r \in 1 .. k' |-> Value(Narrowest(Rows, c), RowOf(r)[c])]
      PROVE  TableKept'
  BY <1>1, <1>5, RowsKept DEF TableKept
<1>6. CASE Elsewhere
  <2>1. UNCHANGED <<mode, k, columns, guesses, df>> /\ (Counted' => Counted)
    BY <1>6, ElsewhereKeeps
  <2>2. mode' = "parse" => TableKept'
    BY <1>3, <1>5, <2>1
  <2> QED
    BY <1>2, <1>3, <2>1, <2>2
<1>7. CASE CountFields
  <2>1. /\ mode = "count" /\ mode' = "count" /\ HaveLine /\ k' = k + 1
        /\ columns' = IF Len(FieldsOf(line)) > columns THEN Len(FieldsOf(line)) ELSE columns
    BY <1>7 DEF CountFields, NextGuessLine
  <2>2. k + 1 \in Rows /\ FieldsOf(line) = RowOf(k + 1)
    BY <1>1, <2>1, LineIsRow DEF Rows
  <2>3. Len(FieldsOf(line)) = Len(RowOf(1))
    BY <1>4, <2>2
  <2>4. columns' = Len(RowOf(1)) /\ k' # 0
    BY <1>3, <1>4, <2>1, <2>3
  <2> QED
    BY <1>2, <2>1, <2>4 DEF Counted
<1>8. CASE StartGuessing
  <2>1. /\ mode = "count" /\ mode' = "guess" /\ columns' = columns
        /\ columns = 0 => pc' = "failed"
    BY <1>8 DEF StartGuessing
  <2>2. columns # 0 => columns = Len(RowOf(1))
    BY <1>3, <2>1
  <2> QED
    BY <1>2, <2>1, <2>2 DEF Counted
<1>9. CASE GuessTypes
  <2>1. mode = "guess" /\ mode' = "guess" /\ columns' = columns /\ HaveLine
    BY <1>9 DEF GuessTypes
  <2>2. Counted
    BY <2>1 DEF Counted, HaveLine
  <2> QED
    BY <1>2, <1>3, <2>1, <2>2
<1>10. CASE StartParsing
  <2>1. /\ mode = "guess" /\ pc = "passed" /\ mode' = "parse" /\ columns' = columns
        /\ k' = 0 /\ df' = NewFrame(guesses)
    BY <1>10 DEF StartParsing
  <2>2. Counted
    BY <2>1 DEF Counted
  <2>3. DOMAIN guesses = 1 .. columns
    BY <2>2 DEF GuessInv
  <2>4. \A c \in 1 .. columns : df'[c] = << >>
    BY <2>1, <2>3 DEF NewFrame
  <2>5. \A c \in 1 .. columns : df'[c] = [r \in 1 .. k' |-> Value(Narrowest(Rows, c), RowOf(r)[c])]
    BY <2>1, <2>4
  <2> QED
    BY <1>2, <1>3, <1>5, <2>1, <2>2, <2>5
<1>11. CASE ParseFields
  <2> DEFINE fields == FieldsOf(line)
  <2>1. /\ mode = "parse" /\ mode' = mode /\ columns' = columns /\ HaveLine /\ Counted
    BY <1>11 DEF ParseFields, Counted
  <2>2. CASE df' = df /\ k' = k
    BY <1>2, <1>3, <1>5, <2>1, <2>2
  <2>3. CASE df' = Filled(fields) /\ k' = k + 1
    <3>1. columns = Len(RowOf(1))
      BY <1>3, <2>1
    <3>2. k + 1 \in Rows /\ fields = RowOf(k + 1)
      BY <1>1, <2>1, LineIsRow DEF Rows
    <3>3. ASSUME NEW c \in 1 .. columns
          PROVE  df'[c] = [r \in 1 .. k + 1 |-> Value(Narrowest(Rows, c), RowOf(r)[c])]
      <4> DEFINE g == [r \in 1 .. k + 1 |-> Value(Narrowest(Rows, c), RowOf(r)[c])]
      <4>1. c <= Len(fields) /\ c \in 1 .. Len(RowOf(1))
        BY <1>4, <3>1, <3>2
      <4>2. Plain(c) /\ Narrowest(Rows, c) = Narrowest(GuessedRows, c)
        BY <1>2, <4>1, TableFacts
      <4>3. guesses[c] = Narrowest(Rows, c)
        BY <1>1, <2>1, <4>2, ExactIsNarrowest DEF GuessInv
      <4>4. Holds(guesses[c], fields[c]) /\ guesses[c] \in Types
        BY <1>1, <2>1, <3>2, <4>1, <4>2, <4>3, NarrowestHolds DEF HoldAll, GuessInv, Exact
      <4>5. Cell(guesses[c], fields[c]) = Value(Narrowest(Rows, c), RowOf(k + 1)[c])
        BY <3>2, <4>3, <4>4, HeldIsKept
      <4>6. df[c] = [r \in 1 .. k |-> Value(Narrowest(Rows, c), RowOf(r)[c])]
        BY <1>3, <2>1
      <4>7. df'[c] = df[c] \o <<Value(Narrowest(Rows, c), RowOf(k + 1)[c])>>
        BY <2>3, <4>1, <4>5 DEF Filled
      <4>8. g \in [1 .. k + 1 -> {g[r] : r \in 1 .. k + 1}]
        OBVIOUS
      <4>9. g[k + 1] = Value(Narrowest(Rows, c), RowOf(k + 1)[c])
        BY <1>4
      <4>10. [r \in 1 .. k |-> g[r]] = df[c]
        BY <1>4, <4>6
      <4> HIDE DEF g
      <4>11. [r \in 1 .. k |-> g[r]] \o <<g[k + 1]>> = g
        BY <1>4, <4>8, OneMoreCell
      <4>12. df'[c] = g
        BY <4>7, <4>9, <4>10, <4>11
      <4> QED
        BY <4>12 DEF g
    <3> QED
      BY <1>2, <1>5, <2>1, <2>3, <3>1, <3>3
  <2>4. (df' = df /\ k' = k) \/ (df' = Filled(fields) /\ k' = k + 1)
    BY <1>11 DEF ParseFields
  <2> QED
    BY <2>2, <2>3, <2>4
<1> QED
  BY <1>6, <1>7, <1>8, <1>9, <1>10, <1>11 DEF Work, Elsewhere

LEMMA TableInvariant == Spec => []TableInv
<1>1. ASSUME TableInv, UNCHANGED vars PROVE TableInv'
  <2>1. UNCHANGED <<file, err, pc, mode, k, columns, df>>
    BY <1>1 DEF vars, readerVars, parserVars
  <2> QED
    BY <1>1, <2>1, RowsKept DEF TableInv, Counted, TableKept, RowOf
<1>2. ASSUME ReaderInv, GuessInv, TableInv, [Next]_vars PROVE TableInv'
  BY <1>1, <1>2, TableSteps DEF Next, End
<1> QED
  BY <1>2, TableInit, ReaderInvariant, GuessInvariant, PTL DEF Spec

(* Of a file that is a table, every field that has been read is in the      *)
(* column and the row it belongs to, with the value it has in the narrowest *)
(* type that all fields of the column have a value in.                      *)
THEOREM TablesAreKept == Spec => []TableKept
<1>1. TableInv => TableKept
  BY DEF TableInv, TableKept
<1> QED
  BY <1>1, TableInvariant, PTL

---------------------------------------------------------------------------
(* What the passes have counted and made.                                   *)
ShapeInv ==
    /\ partial # NoLine => Len(partial) <= Len(file)
    /\ line # NoLine => Len(line) <= Len(file)
    /\ columns \in 0 .. Len(file)
    /\ mode = "count" => guesses = << >> /\ df = << >>
    /\ guesses \in [1 .. Len(guesses) -> Types]
    /\ Len(guesses) \in {0, columns} /\ Len(df) \in {0, columns}

LEMMA LengthIs ==
    ASSUME NEW n \in Nat, NEW S, NEW f \in [1 .. n -> S]
    PROVE  Len(f) = n
<1>1. f \in Seq(S)
  OBVIOUS
<1>2. DOMAIN f = 1 .. n /\ DOMAIN f = 1 .. Len(f) /\ Len(f) \in Nat
  BY <1>1
<1> QED
  BY <1>2

LEMMA FieldsAtMost ==
    ASSUME NEW l \in Seq(Byte)
    PROVE  Len(FieldsOf(l)) \in 0 .. Len(l)
<1>1. FieldsAt(l) \subseteq 1 .. Len(l) /\ Len(l) \in Nat
  BY DEF FieldsAt
<1>2. IsFiniteSet(1 .. Len(l)) /\ Cardinality(1 .. Len(l)) = Len(l)
  <2> DEFINE n == Len(l)
  <2>1. n \in Int /\ 1 \in Int /\ (1 > n => n = 0) /\ n - 1 + 1 = n
    BY <1>1
  <2> HIDE DEF n
  <2>2. IsFiniteSet(1 .. n) /\ Cardinality(1 .. n) = IF 1 > n THEN 0 ELSE n - 1 + 1
    BY <2>1, FS_Interval
  <2>3. IsFiniteSet(1 .. n) /\ Cardinality(1 .. n) = n
    BY <2>1, <2>2
  <2> QED
    BY <2>3 DEF n
<1>3. Cardinality(FieldsAt(l)) \in 0 .. Len(l)
  BY <1>1, <1>2, FS_Subset, FS_CardinalityType
<1>4. Len(FieldsOf(l)) = Cardinality(FieldsAt(l))
  BY <1>3 DEF FieldsOf
<1> QED
  BY <1>3, <1>4

LEMMA LongerFits ==
    ASSUME ReaderTypes, BufferFromFile, LineBegun, NEW to \in pos .. Len(buf)
    PROVE  Len(Longer(pos, to)) <= Len(file)
<1>1. /\ Len(file) \in Nat /\ Len(buf) \in Nat /\ pos \in Nat /\ readSize \in Nat
      /\ Held \in Nat /\ Begin = Taken - Held + 1 /\ Taken \in Nat
  BY Positions
<1>2. Begin >= 1 /\ Len(Longer(pos, to)) = Held + (to - pos)
  BY <1>1, LongerIs
<1>3. readSize <= Len(file) /\ Taken = readSize - Len(buf) + pos
  BY <1>1 DEF ReaderTypes, Taken
<1> QED
  BY <1>1, <1>2, <1>3

LEMMA ShapeInit == Init => ShapeInv
<1> SUFFICES ASSUME Init PROVE ShapeInv
  OBVIOUS
<1>1. file \in Seq(Byte) /\ Len(file) \in Nat
  BY SorParserAssumption DEF Init
<1>2. columns = 0 /\ guesses = << >> /\ df = << >> /\ partial = NoLine /\ line = NoLine
  BY DEF Init, InitReader
<1>3. Len(<< >>) = 0 /\ << >> \in [1 .. 0 -> Types]
  OBVIOUS
<1> QED
  BY <1>1, <1>2, <1>3 DEF ShapeInv

LEMMA ReadKeepsShape ==
    ASSUME ReaderInv, ShapeInv, ReadLine
    PROVE  /\ partial' # NoLine => Len(partial') <= Len(file)
           /\ line' # NoLine => Len(line') <= Len(file)
<1>1. ReaderTypes /\ ErrorEnds /\ (Reading /\ ~err => BufferFromFile /\ LineBegun)
  BY DEF ReaderInv
<1>2. Len(buf) \in Nat /\ pos \in Nat /\ pos <= Len(buf) /\ Len(<< >>) = 0
  BY <1>1, Positions DEF ReaderTypes
<1>3. CASE EndOfFile \/ Refill \/ RefillFails
  BY <1>3 DEF EndOfFile, Refill, RefillFails, ShapeInv
<1>4. CASE FindNewline
  <2> DEFINE i == CHOOSE j \in Newlines : \A m \in Newlines : j <= m
  <2>1. pc = "read" /\ Newlines # {} /\ line' = Longer(pos, i - 1) /\ partial' = NoLine
    BY <1>4 DEF FindNewline
  <2>2. Newlines \subseteq pos + 1 .. Len(buf)
    BY DEF Newlines
  <2>3. i \in Newlines
    <3>1. Newlines \in SUBSET Nat
      BY <1>2, <2>2
    <3>2. \E j \in Newlines : \A m \in Newlines : j <= m
      BY <2>1, <3>1, LeastMember
    <3> QED
      BY <3>2
  <2> HIDE DEF i
  <2>4. i - 1 \in pos .. Len(buf) /\ Len(buf) > 0
    BY <1>2, <2>2, <2>3
  <2>5. ~err
    BY <1>1, <1>2, <2>4 DEF ErrorEnds, ReaderTypes
  <2> QED
    BY <1>1, <2>1, <2>4, <2>5, LongerFits DEF Reading
<1>5. CASE NoNewline
  <2>1. pc = "read" /\ ~Empty /\ partial' = Longer(pos, Len(buf)) /\ line' = line
    BY <1>5 DEF NoNewline
  <2>2. Len(buf) \in pos .. Len(buf) /\ Len(buf) > 0
    BY <1>2, <2>1 DEF Empty
  <2>3. ~err
    BY <1>1, <1>2, <2>2 DEF ErrorEnds, ReaderTypes
  <2> QED
    BY <1>1, <2>1, <2>2, <2>3, LongerFits DEF Reading, ShapeInv
<1> QED
  BY <1>3, <1>4, <1>5 DEF ReadLine

LEMMA ShapeSteps ==
    ASSUME ReaderInv, GuessInv, ShapeInv, Work
    PROVE  ShapeInv'
<1>1. file' = file
  BY FileKept
<1>2. ReaderTypes /\ Len(file) \in Nat
  BY Positions DEF ReaderInv
<1>3. /\ columns \in 0 .. Len(file) /\ columns \in Nat
      /\ guesses \in [1 .. Len(guesses) -> Types]
      /\ Len(guesses) \in {0, columns} /\ Len(df) \in {0, columns}
      /\ mode = "count" => guesses = << >> /\ df = << >>
  <2>1. columns \in 0 .. Len(file)
    BY DEF ShapeInv
  <2>2. columns \in Nat
    BY <1>2, <2>1
  <2> QED
    BY <2>1, <2>2 DEF ShapeInv
<1>4. /\ partial' # NoLine => Len(partial') <= Len(file)
      /\ line' # NoLine => Len(line') <= Len(file)
  <2>1. CASE Read
    BY <2>1, ReadKeepsShape DEF Read
  <2>2. CASE ~Read
    <3>1. partial' \in {partial, NoLine} /\ line' = line
      BY <2>2 DEF Work, Open, CannotOpen, EndOfPass, CountFields, StartGuessing,
                  GuessTypes, StartParsing, ParseFields, Finish, Kept, Reset
    <3> QED
      BY <3>1 DEF ShapeInv
  <2> QED
    BY <2>1, <2>2
<1>5. CASE Elsewhere
  <2>1. UNCHANGED <<mode, columns, guesses, df>>
    BY <1>5, ElsewhereKeeps
  <2> QED
    BY <1>1, <1>3, <1>4, <2>1 DEF ShapeInv
<1>6. CASE CountFields
  <2>1. /\ mode = "count" /\ UNCHANGED <<mode, guesses, df>> /\ line # NoLine
        /\ columns' = IF Len(FieldsOf(line)) > columns THEN Len(FieldsOf(line)) ELSE columns
    BY <1>6 DEF CountFields, HaveLine
  <2>2. line \in Seq(Byte) /\ Len(line) <= Len(file)
    BY <1>2, <2>1 DEF ReaderTypes, ShapeInv
  <2>3. columns' \in 0 .. Len(file)
    <3>1. Len(FieldsOf(line)) \in 0 .. Len(line) /\ Len(line) \in Nat
      BY <2>2, FieldsAtMost
    <3> QED
      BY <1>2, <1>3, <2>1, <2>2, <3>1
  <2>4. Len(guesses) = 0 /\ Len(df) = 0
    BY <1>3, <2>1
  <2> QED
    BY <1>1, <1>3, <1>4, <2>1, <2>3, <2>4 DEF ShapeInv
<1>7. CASE StartGuessing
  <2>1. mode' = "guess" /\ UNCHANGED <<columns, df>>
    BY <1>7 DEF StartGuessing
  <2>2. guesses' = guesses \/ guesses' = [c \in 1 .. columns |-> Unknown]
    BY <1>7 DEF StartGuessing
  <2>3. CASE guesses' = guesses
    BY <1>1, <1>3, <1>4, <2>1, <2>3 DEF ShapeInv
  <2>4. CASE guesses' = [c \in 1 .. columns |-> Unknown]
    <3>1. guesses' \in [1 .. columns -> Types]
      BY <2>4, TypesAre
    <3>2. columns \in Nat
      BY <1>3
    <3>3. Len(guesses') = columns
      BY <3>1, <3>2, LengthIs
    <3> QED
      BY <1>1, <1>3, <1>4, <2>1, <3>1, <3>3 DEF ShapeInv
  <2> QED
    BY <2>2, <2>3, <2>4
<1>8. CASE GuessTypes
  <2> DEFINE fields == FieldsOf(line)
  <2>1. /\ mode = "guess" /\ UNCHANGED <<mode, columns, df>> /\ pc # "failed"
        /\ guesses' = [c \in 1 .. columns |->
                          IF c <= Len(fields) THEN Guess(guesses[c], fields[c]) ELSE guesses[c]]
    BY <1>8 DEF GuessTypes, HaveLine
  <2>2. DOMAIN guesses = 1 .. columns
    BY <2>1 DEF GuessInv, Counted
  <2>3. \A c \in 1 .. columns : guesses[c] \in Types
    BY <1>3, <2>2
  <2>4. guesses' \in [1 .. columns -> Types]
    BY <2>1, <2>3, GuessIsType
  <2>5. Len(guesses') = columns
    <3>1. columns \in Nat
      BY <1>3
    <3> QED
      BY <2>4, <3>1, LengthIs
  <2> QED
    BY <1>1, <1>3, <1>4, <2>1, <2>4, <2>5 DEF ShapeInv
<1>9. CASE StartParsing
  <2>1. /\ mode = "guess" /\ pc = "passed" /\ mode' = "parse"
        /\ UNCHANGED <<columns, guesses>> /\ df' = NewFrame(guesses)
    BY <1>9 DEF StartParsing
  <2>2. DOMAIN guesses = 1 .. columns
    BY <2>1 DEF GuessInv, Counted
  <2>3. Len(df') = columns
    <3>1. df' \in [1 .. columns -> {<< >>}]
      BY <2>1, <2>2 DEF NewFrame
    <3>2. columns \in Nat
      BY <1>3
    <3> QED
      BY <3>1, <3>2, LengthIs
  <2> QED
    BY <1>1, <1>3, <1>4, <2>1, <2>3 DEF ShapeInv
<1>10. CASE ParseFields
  <2>1. mode = "parse" /\ UNCHANGED <<mode, columns, guesses>>
        /\ (df' = df \/ df' = Filled(FieldsOf(line)))
    BY <1>10 DEF ParseFields
  <2>2. Len(df') \in {0, columns}
    <3>1. Len(Filled(FieldsOf(line))) = columns
      <4> DEFINE g == Filled(FieldsOf(line))
      <4>1. g \in [1 .. columns -> {g[c] : c \in 1 .. columns}]
        BY DEF Filled
      <4>2. columns \in Nat
        BY <1>3
      <4> HIDE DEF g
      <4>3. Len(g) = columns
        BY <4>1, <4>2, LengthIs
      <4> QED
        BY <4>3 DEF g
    <3> QED
      BY <1>3, <2>1, <3>1
  <2> QED
    BY <1>1, <1>3, <1>4, <2>1, <2>2 DEF ShapeInv
<1> QED
  BY <1>5, <1>6, <1>7, <1>8, <1>9, <1>10 DEF Work, Elsewhere

LEMMA ShapeInvariant == Spec => []ShapeInv
<1>1. ASSUME ShapeInv, UNCHANGED vars PROVE ShapeInv'
  BY <1>1 DEF vars, readerVars, parserVars, ShapeInv
<1>2. ASSUME ReaderInv, GuessInv, ShapeInv, [Next]_vars PROVE ShapeInv'
  BY <1>1, <1>2, ShapeSteps DEF Next, End
<1> QED
  BY <1>2, ShapeInit, ReaderInvariant, GuessInvariant, PTL DEF Spec

(* The reader stays inside its buffer and the file, and the parser never    *)
(* counts more lines or columns than the file has, also when reads fail.    *)
THEOREM TypesKept == Spec => []TypeOK
<1>1. ASSUME ReaderInv, ShapeInv PROVE TypeOK
  <2>1. k <= NumLines(file) /\ k \in Nat
    BY <1>1, KAtMostLines
  <2>2. ReaderTypes /\ PassInv
    BY <1>1 DEF ReaderInv
  <2>3. NumLines(file) \in Nat
    BY <2>2, Positions, StartsFinite
  <2>4. k \in 0 .. NumLines(file)
    BY <2>1, <2>3
  <2> QED
    BY <1>1, <2>2, <2>4 DEF ReaderTypes, PassInv, ShapeInv, TypeOK
<1> QED
  BY <1>1, ReaderInvariant, ShapeInvariant, PTL

============================================================================
