-------------------------- MODULE FileReaderProofs --------------------------
(* FileReader for buffers of any size, any file and anything in the memory  *)
(* behind the buffer.                                                       *)
EXTENDS FileReader, TLAPS

Scanning == pc \in {"scan", "scanByte", "word"}
Skipping == pc \in {"skip", "skipByte", "ready"}

(* Byte k of the buffer and the ones behind it are those of the file.       *)
CopyFrom(k) == \A j \in k .. end_ - 1 : buf_[j] = file[Source(j)]

(* What makes BufferIsFile inductive: where the word begins, and that the   *)
(* buffer never holds more than has been read.                              *)
BufferInv ==
    /\ TypeOK
    /\ pc = "open" => i_ = 0 /\ pos = 0
    /\ Scanning => wStart <= i_ /\ wStart <= end_
    /\ end_ <= pos
    /\ eof => pos = Len(file)
    /\ CopyFrom(Unpassed)

(* Nothing that belongs to the same word stands before byte k.              *)
WordMayStart(k) == Source(k) > 1 => file[Source(k) - 1] \notin Alnum

(* What makes RowIsWholeWord inductive.                                     *)
WordInv ==
    Regular(file) =>
        /\ Scanning =>
              /\ wStart < end_ /\ i_ <= end_
              /\ \A k \in wStart .. i_ - 1 : buf_[k] \in Alnum
              /\ WordMayStart(wStart)
        /\ pc \in {"scanByte", "word"} => i_ < end_
        /\ pc = "word" => buf_[i_] \notin Alnum
        /\ Skipping /\ i_ <= end_ => WordMayStart(i_)

(* The file is a sequence of characters.                                    *)
LEMMA FileType ==
    ASSUME TypeOK
    PROVE  /\ file \in Seq(Char)
           /\ Len(file) \in Nat
           /\ \A p \in 1 .. Len(file) : file[p] \in Char
BY FileReaderAssumption DEF TypeOK

(* A refill of fillBuffer_ moves the bytes from "from" on to the front, and *)
(* what follows them in the file behind them.                               *)
LEMMA FillCopies ==
    ASSUME TypeOK, end_ <= pos, eof => pos = Len(file),
           NEW from \in 0 .. end_, CopyFrom(from), FillFrom(from)
    PROVE  /\ file' = file
           /\ buf_' \in [Memory -> Char]
           /\ i_' = end_ - from
           /\ i_' <= end_' /\ end_' \in 0 .. BUFSIZE
           /\ pos' \in 0 .. Len(file) /\ end_' <= pos'
           /\ pos' - end_' = pos - end_ + from
           /\ eof' \in BOOLEAN /\ (eof' => pos' = Len(file))
           /\ \A j \in 0 .. end_' - 1 : buf_'[j] = file[pos' - end_' + j + 1]
           /\ \A j \in 0 .. i_' - 1 : buf_'[j] = buf_[from + j]
           /\ end_' = i_' => pos = Len(file) \/ i_' = BUFSIZE
<1> DEFINE start == end_ - from
           got == Got(start)
<1>1. /\ file \in Seq(Char) /\ Len(file) \in Nat
      /\ \A p \in 1 .. Len(file) : file[p] \in Char
  BY FileType
<1>2. /\ end_ \in 0 .. BUFSIZE /\ pos \in 0 .. Len(file) /\ eof \in BOOLEAN
      /\ buf_ \in [Memory -> Char]
      /\ BUFSIZE \in Nat /\ MemoryEnd \in Nat /\ MemoryEnd >= BUFSIZE
  BY FileReaderAssumption DEF TypeOK
<1>3. /\ start \in 0 .. BUFSIZE /\ got \in 0 .. Len(file) - pos
      /\ start + got \in 0 .. BUFSIZE
      /\ got = 0 => Left = 0 \/ start = BUFSIZE
      /\ Left < BUFSIZE - start => got = Left
      /\ Left = 0 => got = 0
  BY <1>1, <1>2 DEF Got, Left
<1>4. /\ buf_' = [k \in Memory |->
                    IF k < start THEN buf_[from + k]
                    ELSE IF k < start + got THEN file[pos + (k - start) + 1]
                    ELSE buf_[k]]
      /\ end_' = start + got /\ i_' = start /\ pos' = pos + got
      /\ eof' = (eof \/ Left < BUFSIZE - start)
      /\ file' = file
  BY DEF FillFrom
<1>5. buf_' \in [Memory -> Char]
  <2>1. ASSUME NEW k \in Memory
        PROVE  (IF k < start THEN buf_[from + k]
                ELSE IF k < start + got THEN file[pos + (k - start) + 1]
                ELSE buf_[k]) \in Char
    <3>1. CASE k < start
      <4>1. from + k \in Memory
        BY <1>2, <3>1 DEF Memory
      <4> QED BY <1>2, <3>1, <4>1
    <3>2. CASE ~(k < start) /\ k < start + got
      <4>1. pos + (k - start) + 1 \in 1 .. Len(file)
        BY <1>1, <1>2, <1>3, <3>2 DEF Memory
      <4> QED BY <1>1, <3>2, <4>1
    <3>3. CASE ~(k < start) /\ ~(k < start + got)
      BY <1>2, <3>3
    <3> QED BY <3>1, <3>2, <3>3
  <2> QED BY <1>4, <2>1
<1>6. ASSUME NEW j \in 0 .. end_' - 1
      PROVE  buf_'[j] = file[pos' - end_' + j + 1]
  <2> HIDE DEF got
  <2>1. /\ j \in Memory /\ j \in Int
        /\ from \in Int /\ end_ \in Int /\ pos \in Int /\ got \in Int
    BY <1>2, <1>3, <1>4 DEF Memory
  <2>2. pos' - end_' = pos - (end_ - from)
    BY <2>1, <1>4
  <2>3. CASE j < start
    <3>1. from + j \in from .. end_ - 1
      BY <1>2, <2>3
    <3>2. buf_[from + j] = file[pos - end_ + (from + j) + 1]
      BY <3>1 DEF CopyFrom, Source
    <3>3. pos' - end_' + j + 1 = pos - end_ + (from + j) + 1
      BY <2>1, <2>2
    <3> QED BY <1>4, <2>1, <2>3, <3>2, <3>3
  <2>4. CASE ~(j < start)
    <3>1. pos' - end_' + j + 1 = pos + (j - start) + 1
      BY <2>1, <2>2
    <3>2. j < start + got
      BY <1>2, <1>3, <1>4
    <3> QED BY <1>4, <2>1, <2>4, <3>1, <3>2
  <2> QED BY <2>3, <2>4
<1>7. ASSUME NEW j \in 0 .. i_' - 1
      PROVE  buf_'[j] = buf_[from + j]
  BY <1>2, <1>3, <1>4, <1>7 DEF Memory
<1>8. end_' = i_' => pos = Len(file) \/ i_' = BUFSIZE
  BY <1>1, <1>2, <1>3, <1>4 DEF Left
<1>9. /\ i_' = end_ - from /\ i_' <= end_' /\ end_' \in 0 .. BUFSIZE
      /\ pos' \in 0 .. Len(file) /\ end_' <= pos'
      /\ pos' - end_' = pos - end_ + from
  BY <1>1, <1>2, <1>3, <1>4
<1>10. eof' \in BOOLEAN /\ (eof' => pos' = Len(file))
  BY <1>1, <1>2, <1>3, <1>4 DEF Left
<1> QED BY <1>4, <1>5, <1>6, <1>7, <1>8, <1>9, <1>10

(* The steps that refill the buffer.                                        *)
LEMMA RefillKeepsBuffer ==
    ASSUME BufferInv, Open \/ SkipRefill \/ ScanRefill
    PROVE  BufferInv'
<1>1. /\ TypeOK /\ end_ <= pos /\ (eof => pos = Len(file))
      /\ CopyFrom(Unpassed)
  BY DEF BufferInv
<1>2. /\ end_ \in 0 .. BUFSIZE /\ BUFSIZE \in Nat /\ wStart \in 0 .. BUFSIZE
      /\ rows \in Seq(Seq(Char)) /\ file \in Files
  BY <1>1, FileReaderAssumption DEF TypeOK
<1>3. ASSUME NEW from \in 0 .. end_, CopyFrom(from), FillFrom(from)
      PROVE  /\ file' = file /\ buf_' \in [Memory -> Char]
             /\ i_' \in Nat /\ end_' \in 0 .. BUFSIZE
             /\ pos' \in 0 .. Len(file) /\ end_' <= pos'
             /\ eof' \in BOOLEAN /\ (eof' => pos' = Len(file))
             /\ \A j \in 0 .. end_' - 1 : buf_'[j] = file[pos' - end_' + j + 1]
  BY <1>1, <1>2, <1>3, FillCopies
<1>4. CASE Open \/ SkipRefill
  <2>1. i_ \in 0 .. end_ /\ Unpassed = i_ /\ FillFrom(i_)
    BY <1>2, <1>4 DEF BufferInv, Open, SkipRefill, AtEnd, Unpassed
  <2>2. pc' \in {"skip", "skipByte"} /\ wStart' = wStart /\ rows' = rows
    BY <1>4 DEF Open, SkipRefill
  <2>3. TypeOK'
    BY <1>1, <1>2, <1>3, <2>1, <2>2 DEF TypeOK, Labels
  <2>4. CopyFrom(Unpassed)'
    BY <1>1, <1>2, <1>3, <2>1, <2>2 DEF CopyFrom, Source, Unpassed
  <2> QED BY <1>1, <1>3, <2>1, <2>2, <2>3, <2>4 DEF BufferInv, Scanning
<1>5. CASE ScanRefill
  <2>1. /\ wStart \in 0 .. end_ /\ Unpassed = wStart /\ FillFrom(wStart)
    BY <1>2, <1>5 DEF BufferInv, Scanning, ScanRefill, Unpassed
  <2>2. pc' = "scanByte" /\ wStart' = 0 /\ rows' = rows
    BY <1>5 DEF ScanRefill
  <2>3. TypeOK'
    BY <1>1, <1>2, <1>3, <2>1, <2>2 DEF TypeOK, Labels
  <2>4. CopyFrom(Unpassed)'
    BY <1>1, <1>2, <1>3, <2>1, <2>2 DEF CopyFrom, Source, Unpassed
  <2> QED BY <1>1, <1>2, <1>3, <2>1, <2>2, <2>3, <2>4 DEF BufferInv, Scanning
<1> QED BY <1>4, <1>5

(* The word that visit hands over is a sequence of characters.              *)
LEMMA WordType ==
    ASSUME BufferInv, pc = "word", i_ <= MemoryEnd
    PROVE  WordInBuffer \in Seq(Char)
<1>1. /\ i_ \in Nat /\ wStart \in Nat /\ wStart <= i_
      /\ MemoryEnd \in Nat /\ buf_ \in [Memory -> Char]
  BY FileReaderAssumption DEF BufferInv, TypeOK, Scanning
<1>2. \A k \in 1 .. i_ - wStart : buf_[wStart + k - 1] \in Char
  BY <1>1 DEF Memory
<1> QED BY <1>1, <1>2 DEF WordInBuffer

(* The steps that only look, or take a word.                                *)
LEMMA LookKeepsBuffer ==
    ASSUME BufferInv, [Next]_vars, ~Open, ~SkipRefill, ~ScanRefill
    PROVE  BufferInv'
<1> USE DEF BufferInv, Scanning
<1>1. /\ i_ \in Nat /\ wStart \in 0 .. BUFSIZE /\ end_ \in 0 .. BUFSIZE
      /\ BUFSIZE \in Nat /\ MemoryEnd \in Nat /\ BUFSIZE <= MemoryEnd
      /\ buf_ \in [Memory -> Char] /\ rows \in Seq(Seq(Char))
  BY FileReaderAssumption DEF TypeOK
<1>2. CASE TakeWord
  <2>1. /\ pc = "word" /\ pc' = "skip" /\ i_ <= MemoryEnd /\ i_' = i_ + 1
        /\ rows' = Append(rows, WordInBuffer)
        /\ buf_' = [buf_ EXCEPT ![i_] = NUL]
        /\ UNCHANGED <<file, pos, eof, end_, wStart>>
    BY <1>2 DEF TakeWord, AddRow, streamVars
  <2>2. rows' \in Seq(Seq(Char)) /\ buf_' \in [Memory -> Char]
    BY <1>1, <2>1, WordType DEF Char, Memory
  <2>3. TypeOK'
    BY <1>1, <2>1, <2>2 DEF TypeOK, Labels
  <2>4. CopyFrom(wStart) /\ wStart <= i_
    BY <2>1 DEF Unpassed
  <2>5. CopyFrom(Unpassed)'
    BY <1>1, <2>1, <2>4 DEF CopyFrom, Source, Unpassed, Memory
  <2> QED BY <2>1, <2>3, <2>5
<1>3. CASE SkipLook \/ Visit \/ ScanAtEnd \/ ScanLook \/ Fault
  <2>1. UNCHANGED <<file, pos, eof, buf_, end_, rows>>
    BY <1>3 DEF SkipLook, Visit, ScanAtEnd, ScanLook, Fault, streamVars
  <2>2. /\ i_' \in Nat /\ pc' \in Labels \ {"open"}
        /\ wStart' \in 0 .. BUFSIZE
        /\ Unpassed <= Unpassed' /\ Unpassed \in Nat /\ Unpassed' \in Nat
        /\ Scanning' => wStart' <= i_' /\ wStart' <= end_
    BY <1>1, <1>3
       DEF SkipLook, Visit, ScanAtEnd, ScanLook, Fault, Labels, Unpassed
  <2>3. TypeOK'
    BY <2>1, <2>2 DEF TypeOK
  <2>4. CopyFrom(Unpassed)'
    BY <1>1, <2>1, <2>2 DEF CopyFrom, Source
  <2> QED BY <2>1, <2>2, <2>3, <2>4
<1>4. CASE CannotOpen \/ SkipAtEnd \/ Finish \/ UNCHANGED vars
  <2>1. /\ UNCHANGED <<file, pos, eof, buf_, i_, end_, wStart, rows>>
        /\ pc' \in Labels
        /\ Scanning' <=> Scanning
        /\ Unpassed' = Unpassed
        /\ pc' = "open" => pc = "open"
    BY <1>4 DEF CannotOpen, SkipAtEnd, Finish, vars, streamVars, Unpassed,
                TypeOK, Labels
  <2>2. TypeOK'
    BY <2>1 DEF TypeOK
  <2>3. CopyFrom(Unpassed)'
    BY <2>1 DEF CopyFrom, Source
  <2> QED BY <2>1, <2>2, <2>3
<1> QED BY <1>2, <1>3, <1>4 DEF Next

LEMMA BufferInvInit == Init => BufferInv
<1> SUFFICES ASSUME Init PROVE BufferInv
  OBVIOUS
<1>1. /\ file \in Files /\ Len(file) \in Nat
      /\ BUFSIZE \in Nat /\ buf_ \in [Memory -> Char]
  BY FileReaderAssumption DEF Init, Memory
<1>2. rows \in Seq(Seq(Char))
  BY DEF Init
<1>3. eof \in BOOLEAN /\ pc \in Labels
  BY DEF Init, Labels
<1>4. /\ pos \in 0 .. Len(file) /\ i_ \in Nat
      /\ end_ \in 0 .. BUFSIZE /\ wStart \in 0 .. BUFSIZE
  <2>1. pos = 0 /\ i_ = 0 /\ end_ = 0 /\ wStart = 0
    BY DEF Init
  <2> QED BY <1>1, <2>1
<1>5. TypeOK
  BY <1>1, <1>2, <1>3, <1>4 DEF TypeOK
<1> QED BY <1>1, <1>5 DEF Init, BufferInv, Scanning, CopyFrom, Unpassed

LEMMA BufferInvAlways == Spec => []BufferInv
<1>1. BufferInv /\ [Next]_vars => BufferInv'
  BY RefillKeepsBuffer, LookKeepsBuffer
<1> QED BY BufferInvInit, <1>1, PTL DEF Spec

(* No refill loses, repeats or overwrites a byte that is still needed       *)
(* (FileReader::fillBuffer_), and neither does the terminator that visit    *)
(* writes, for every buffer size and every file.                            *)
THEOREM BufferIsFileAlways == Spec => []BufferIsFile
<1>1. BufferInv => BufferIsFile
  <2> SUFFICES ASSUME BufferInv PROVE BufferIsFile
    OBVIOUS
  <2>1. /\ i_ \in Nat /\ wStart \in Nat /\ end_ \in Nat /\ pos \in Nat
        /\ end_ <= pos /\ CopyFrom(Unpassed)
    BY FileReaderAssumption DEF BufferInv, TypeOK
  <2>2. Unpassed \in Nat
    BY <2>1 DEF Unpassed
  <2> QED BY <2>1, <2>2 DEF BufferIsFile, CopyFrom, Source
<1> QED BY BufferInvAlways, <1>1, PTL

---------------------------------------------------------------------------
(* On a regular file a word that fills what is left of the buffer is        *)
(* neither at the end of the file nor as long as the buffer.                *)
LEMMA WordHasRoom ==
    ASSUME BufferInv, WordInv, Regular(file), Scanning, i_ = end_
    PROVE  pos < Len(file) /\ end_ - wStart < BUFSIZE
<1>1. /\ wStart \in Nat /\ end_ \in Nat /\ pos \in Nat /\ Len(file) \in Nat
      /\ BUFSIZE \in Nat \ {0} /\ end_ <= BUFSIZE
      /\ pos <= Len(file) /\ end_ <= pos /\ wStart < end_
  BY FileReaderAssumption DEF BufferInv, WordInv, TypeOK
<1>2. \A j \in wStart .. end_ - 1 : file[pos - end_ + j + 1] \in Alnum
  BY DEF BufferInv, WordInv, CopyFrom, Unpassed, Source, Scanning
<1>3. \A q \in pos - end_ + wStart + 1 .. pos : file[q] \in Alnum
  <2> SUFFICES ASSUME NEW q \in pos - end_ + wStart + 1 .. pos
               PROVE  file[q] \in Alnum
    OBVIOUS
  <2>1. q - pos + end_ - 1 \in wStart .. end_ - 1
    BY <1>1
  <2>2. pos - end_ + (q - pos + end_ - 1) + 1 = q
    BY <1>1
  <2> QED BY <1>2, <2>1, <2>2
<1>4. pos < Len(file)
  <2> SUFFICES ASSUME pos = Len(file) PROVE FALSE
    BY <1>1
  <2>1. file[Len(file)] \in Alnum
    BY <1>1, <1>3
  <2>2. file # << >>
    BY <1>1
  <2> QED BY <2>1, <2>2 DEF Regular, LastWordDelimited
<1>5. end_ - wStart < BUFSIZE
  <2> SUFFICES ASSUME end_ - wStart = BUFSIZE PROVE FALSE
    BY <1>1
  <2> DEFINE p == pos - BUFSIZE + 1
  <2>1. wStart = 0 /\ end_ = BUFSIZE
    BY <1>1
  <2>2. p \in 1 .. Len(file) - BUFSIZE + 1 /\ p + BUFSIZE - 1 = pos
    BY <1>1, <2>1
  <2>3. PICK q \in p .. pos : file[q] \notin Alnum
    BY <2>2 DEF Regular, WordsFit
  <2>4. q \in pos - end_ + wStart + 1 .. pos
    BY <1>1, <2>1
  <2> QED BY <1>3, <2>3, <2>4
<1> QED BY <1>4, <1>5

LEMMA RefillKeepsWord ==
    ASSUME BufferInv, WordInv, Open \/ SkipRefill \/ ScanRefill
    PROVE  WordInv'
<1> SUFFICES ASSUME Regular(file)' PROVE WordInv'
  BY DEF WordInv
<1>1. /\ TypeOK /\ end_ <= pos /\ (eof => pos = Len(file))
      /\ CopyFrom(Unpassed)
      /\ end_ \in 0 .. BUFSIZE /\ pos \in 0 .. Len(file) /\ Len(file) \in Nat
      /\ BUFSIZE \in Nat /\ wStart \in Nat
  BY FileReaderAssumption DEF BufferInv, TypeOK
<1>2. Regular(file)
  BY DEF Open, SkipRefill, ScanRefill, FillFrom
<1>3. ASSUME NEW from \in 0 .. end_, CopyFrom(from), FillFrom(from)
      PROVE  /\ file' = file /\ i_' = end_ - from
             /\ i_' <= end_' /\ end_' \in 0 .. BUFSIZE
             /\ pos' \in 0 .. Len(file)
             /\ pos' - end_' = pos - end_ + from
             /\ \A j \in 0 .. i_' - 1 : buf_'[j] = buf_[from + j]
             /\ end_' = i_' => pos = Len(file) \/ i_' = BUFSIZE
  BY <1>1, <1>3, FillCopies
<1>4. CASE Open \/ SkipRefill
  <2>1. i_ \in 0 .. end_ /\ Unpassed = i_ /\ FillFrom(i_)
    BY <1>1, <1>4 DEF BufferInv, Open, SkipRefill, AtEnd, Unpassed
  <2>2. pc' \in {"skip", "skipByte"}
    BY <1>4 DEF Open, SkipRefill
  <2>3. pos' - end_' + i_' + 1 = pos + 1
    BY <1>1, <1>3, <2>1
  <2>4. pos > 0 => file[pos] \notin Alnum
    <3>1. CASE Open
      BY <3>1 DEF Open, BufferInv
    <3>2. CASE SkipRefill
      <4>1. i_ = end_ /\ Skipping
        BY <3>2 DEF SkipRefill, AtEnd, Skipping
      <4>2. WordMayStart(end_)
        BY <1>1, <1>2, <4>1 DEF WordInv
      <4>3. pos - end_ + end_ + 1 = pos + 1 /\ pos + 1 - 1 = pos
        BY <1>1
      <4> QED BY <1>1, <4>2, <4>3 DEF WordMayStart, Source
    <3> QED BY <1>4, <3>1, <3>2
  <2>5. file' = file
    BY <1>1, <1>3, <2>1
  <2>6. WordMayStart(i_)'
    BY <1>1, <2>3, <2>4, <2>5 DEF WordMayStart, Source
  <2> QED BY <2>2, <2>6 DEF WordInv, Scanning
<1>5. CASE ScanRefill
  <2>1. /\ wStart \in 0 .. end_ /\ Unpassed = wStart /\ FillFrom(wStart)
        /\ Scanning /\ i_ = end_ /\ pc' = "scanByte" /\ wStart' = 0
    BY <1>1, <1>5 DEF BufferInv, Scanning, ScanRefill, AtEnd, Unpassed
  <2>2. /\ wStart < end_ /\ WordMayStart(wStart)
        /\ \A k \in wStart .. end_ - 1 : buf_[k] \in Alnum
    BY <1>2, <2>1 DEF WordInv
  <2>3. /\ file' = file /\ i_' = end_ - wStart
        /\ i_' <= end_' /\ end_' \in 0 .. BUFSIZE
        /\ pos' \in 0 .. Len(file)
        /\ pos' - end_' = pos - end_ + wStart
        /\ \A j \in 0 .. i_' - 1 : buf_'[j] = buf_[wStart + j]
        /\ end_' = i_' => pos = Len(file) \/ i_' = BUFSIZE
    BY <1>1, <1>3, <2>1
  <2>4. i_' < end_' /\ i_' \in Nat
    BY <1>1, <1>2, <2>1, <2>2, <2>3, WordHasRoom
  <2>5. \A k \in 0 .. i_' - 1 : buf_'[k] \in Alnum
    BY <1>1, <2>2, <2>3
  <2>6. WordMayStart(wStart)'
    <3>1. pos' - end_' = pos - end_ + wStart
      BY <2>3
    <3>2. end_' \in Int
      BY <1>1, <2>3
    <3>3. pos' \in Int
      BY <1>1, <2>3
    <3>4. pos \in Int /\ end_ \in Int /\ wStart \in Int
      BY <1>1
    <3>5. \A x, y \in Int : x - y + 0 + 1 = x - y + 1
      OBVIOUS
    <3>6. pos' - end_' + 1 = pos - end_ + wStart + 1
      BY <3>1, <3>2, <3>3, <3>4
    <3>7. Source(wStart)' = Source(wStart)
      BY <2>1, <3>2, <3>3, <3>5, <3>6 DEF Source
    <3> QED BY <2>2, <2>3, <3>7 DEF WordMayStart
  <2> QED BY <1>1, <2>1, <2>3, <2>4, <2>5, <2>6 DEF WordInv, Skipping
<1> QED BY <1>4, <1>5

LEMMA LookKeepsWord ==
    ASSUME BufferInv, WordInv, [Next]_vars, ~Open, ~SkipRefill, ~ScanRefill
    PROVE  WordInv'
<1>1. UNCHANGED <<file, pos, eof, end_>>
  BY DEF Next, CannotOpen, SkipAtEnd, SkipLook, Finish, Visit, ScanAtEnd,
         ScanLook, TakeWord, Fault, vars, streamVars
<1> SUFFICES ASSUME Regular(file) PROVE WordInv'
  BY <1>1 DEF WordInv
<1>2. /\ i_ \in Nat /\ wStart \in Nat /\ end_ \in Nat /\ pos \in Nat
      /\ end_ <= pos /\ Space \notin Alnum
      /\ pc \in {"scan", "scanByte", "word"} =>
            /\ wStart < end_ /\ i_ <= end_ /\ wStart <= i_
            /\ \A k \in wStart .. i_ - 1 : buf_[k] \in Alnum
            /\ WordMayStart(wStart)
      /\ pc \in {"scanByte", "word"} => i_ < end_
      /\ pc = "word" => buf_[i_] \notin Alnum
      /\ pc \in {"skip", "skipByte", "ready"} /\ i_ <= end_ => WordMayStart(i_)
  BY FileReaderAssumption
     DEF BufferInv, WordInv, TypeOK, Scanning, Skipping
<1>3. ASSUME i_ < end_, buf_[i_] \notin Alnum, Unpassed <= i_, Unpassed \in Nat
      PROVE  WordMayStart(i_ + 1)
  <2>1. buf_[i_] = file[Source(i_)]
    BY <1>2, <1>3 DEF BufferInv, CopyFrom
  <2>2. Source(i_ + 1) - 1 = Source(i_)
    BY <1>2 DEF Source
  <2> QED BY <1>3, <2>1, <2>2 DEF WordMayStart
<1>4. CASE SkipLook
  <2>1. CASE buf_[i_] = Space
    <3>1. pc' = "skip" /\ i_' = i_ + 1 /\ Unpassed = i_
      BY <1>4, <2>1 DEF SkipLook, Unpassed
    <3>2. i_ < end_ => WordMayStart(i_ + 1)
      BY <1>2, <1>3, <2>1, <3>1
    <3>3. i_' <= end_' => WordMayStart(i_)'
      BY <1>1, <1>2, <3>1, <3>2 DEF WordMayStart, Source
    <3> QED BY <3>1, <3>3 DEF WordInv, Scanning
  <2>2. CASE buf_[i_] # Space
    <3>1. pc' = "ready" /\ i_' = i_ /\ pc \in {"skip", "skipByte"}
      BY <1>4, <2>2 DEF SkipLook
    <3>2. i_' <= end_' => WordMayStart(i_)'
      BY <1>1, <1>2, <3>1 DEF WordMayStart, Source
    <3> QED BY <3>1, <3>2 DEF WordInv, Scanning
  <2> QED BY <2>1, <2>2
<1>5. CASE SkipAtEnd
  <2>1. pc' = "ready" /\ i_' = i_ /\ pc = "skip"
    BY <1>5 DEF SkipAtEnd
  <2>2. i_' <= end_' => WordMayStart(i_)'
    BY <1>1, <1>2, <2>1 DEF WordMayStart, Source
  <2> QED BY <2>1, <2>2 DEF WordInv, Scanning
<1>6. CASE Visit
  <2>1. CASE i_ < end_ /\ buf_[i_] # Space
    <3>1. /\ pc = "ready" /\ pc' = "scan" /\ wStart' = i_ /\ i_' = i_
          /\ buf_' = buf_
      BY <1>6, <2>1 DEF Visit
    <3>2. WordMayStart(wStart)'
      BY <1>1, <1>2, <2>1, <3>1 DEF WordMayStart, Source
    <3> QED BY <1>1, <1>2, <2>1, <3>1, <3>2 DEF WordInv, Scanning, Skipping
  <2>2. CASE ~(i_ < end_ /\ buf_[i_] # Space)
    <3>1. pc' = "failed"
      BY <1>6, <2>2 DEF Visit
    <3> QED BY <3>1 DEF WordInv, Scanning, Skipping
  <2> QED BY <2>1, <2>2
<1>7. CASE ScanAtEnd
  <2>1. i_ = end_ /\ Scanning /\ pos = Len(file)
    BY <1>7 DEF ScanAtEnd, AtEnd, BufferInv, Scanning
  <2>2. pos < Len(file)
    BY <2>1, WordHasRoom
  <2> QED BY <1>2, <2>1, <2>2
<1>8. CASE ScanLook
  <2>1. /\ UNCHANGED <<buf_, wStart>> /\ pc \in {"scan", "scanByte"}
        /\ i_ < end_
    BY <1>2, <1>8 DEF ScanLook, AtEnd
  <2>2. WordMayStart(wStart)'
    BY <1>1, <1>2, <2>1 DEF WordMayStart, Source
  <2>3. CASE buf_[i_] \in Alnum
    <3>1. pc' = "scan" /\ i_' = i_ + 1
      BY <1>8, <2>3 DEF ScanLook
    <3>2. \A k \in wStart .. i_ : buf_[k] \in Alnum
      BY <1>2, <2>1, <2>3
    <3> QED BY <1>1, <1>2, <2>1, <2>2, <3>1, <3>2 DEF WordInv, Skipping
  <2>4. CASE buf_[i_] \notin Alnum
    <3>1. pc' = "word" /\ i_' = i_
      BY <1>8, <2>4 DEF ScanLook
    <3> QED BY <1>1, <1>2, <2>1, <2>2, <2>4, <3>1 DEF WordInv, Skipping
  <2> QED BY <2>3, <2>4
<1>9. CASE TakeWord
  <2>1. /\ pc = "word" /\ pc' = "skip" /\ i_' = i_ + 1
    BY <1>9 DEF TakeWord
  <2>2. Unpassed = wStart
    BY <2>1 DEF Unpassed
  <2>3. WordMayStart(i_ + 1)
    BY <1>2, <1>3, <2>1, <2>2
  <2>4. WordMayStart(i_)'
    BY <1>1, <2>1, <2>3 DEF WordMayStart, Source
  <2> QED BY <2>1, <2>4 DEF WordInv, Scanning
<1>10. CASE CannotOpen \/ Finish \/ Fault
  <2>1. pc' \in {"failed", "finished"}
    BY <1>10 DEF CannotOpen, Finish, Fault
  <2> QED BY <2>1 DEF WordInv, Scanning, Skipping
<1>11. CASE UNCHANGED vars
  BY <1>11 DEF vars, streamVars, WordInv, Scanning, Skipping, WordMayStart,
               Source, Regular
<1> QED BY <1>4, <1>5, <1>6, <1>7, <1>8, <1>9, <1>10, <1>11 DEF Next

LEMMA WordInvAlways == Spec => [](BufferInv /\ WordInv)
<1>1. Init => WordInv
  BY DEF Init, WordInv, Scanning, Skipping
<1>2. BufferInv /\ WordInv /\ [Next]_vars => WordInv'
  BY RefillKeepsWord, LookKeepsWord
<1> QED BY BufferInvAlways, <1>1, <1>2, PTL DEF Spec

(* On a file whose words are shorter than the buffer and whose last word is *)
(* delimited, every row that fromVisitor makes is one whole word, whatever  *)
(* the size of the buffer and wherever the refills fall (FileReader::visit).*)
THEOREM RowIsWholeWordAlways == Spec => []RowIsWholeWord
<1>1. BufferInv /\ WordInv => RowIsWholeWord
  <2> SUFFICES ASSUME BufferInv, WordInv, Regular(file), pc = "word"
               PROVE  /\ i_ < end_
                      /\ \A k \in wStart .. i_ - 1 : file[Source(k)] \in Alnum
                      /\ file[Source(i_)] \notin Alnum
                      /\ WordMayStart(wStart)
    BY DEF RowIsWholeWord, WordMayStart
  <2>1. /\ i_ \in Nat /\ wStart \in Nat /\ end_ \in Nat /\ wStart <= i_
        /\ i_ < end_ /\ WordMayStart(wStart) /\ buf_[i_] \notin Alnum
        /\ \A k \in wStart .. i_ - 1 : buf_[k] \in Alnum
    BY FileReaderAssumption DEF BufferInv, WordInv, TypeOK, Scanning
  <2>2. \A k \in wStart .. end_ - 1 : buf_[k] = file[Source(k)]
    BY DEF BufferInv, CopyFrom, Unpassed
  <2> QED BY <2>1, <2>2
<1> QED BY WordInvAlways, <1>1, PTL

============================================================================
