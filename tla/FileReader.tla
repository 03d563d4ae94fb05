----------------------------- MODULE FileReader -----------------------------
(* How the word count application reads its file: FileReader                *)
(* (src/writer.h), driven by the loop of WordCount::fromVisitor, which      *)
(* makes one row of every word.  There is one action per pass of a loop.    *)
(*                                                                          *)
(* A file and the buffer hold characters, and nothing is told apart but     *)
(* letters (isalnum), Space (isspace) and the rest.  The buffer is BUFSIZE  *)
(* bytes and one for a terminator; buf_ also has the bytes behind it, up to *)
(* MemoryEnd, where the process may not read or write any more.             *)
EXTENDS Integers, Sequences

CONSTANTS
    BUFSIZE,     \* 1024 in the code
    MemoryEnd,   \* last byte behind the buffer that can be accessed
    Alnum,       \* letters and digits
    Space,       \* white space
    NUL,         \* the terminator
    Other,       \* punctuation
    Heap,        \* what the buffer and the bytes behind it may hold at first
    Files        \* the files the program may be run on

Char == Alnum \union {Space, NUL, Other}

ASSUME FileReaderAssumption ==
    /\ BUFSIZE \in Nat \ {0}
    /\ MemoryEnd \in Nat /\ MemoryEnd >= BUFSIZE
    /\ Space \notin Alnum /\ NUL \notin Alnum \union {Space}
    /\ Other \notin Alnum \union {Space, NUL}
    /\ Heap \subseteq [0 .. MemoryEnd -> Char]
    /\ Files \subseteq Seq(Char)

VARIABLES
    file,    \* the contents of the file
    pos,     \* how many of its bytes fread has returned
    eof,     \* feof(file_)
    buf_,    \* the buffer and the bytes behind it
    i_,      \* the next byte of the buffer to look at
    end_,    \* where what was read into the buffer ends
    wStart,  \* where the word being read begins
    rows,    \* the rows fromVisitor has made, a word each
    pc

streamVars == <<file, pos, eof>>
vars == <<streamVars, buf_, i_, end_, wStart, rows, pc>>

Memory == 0 .. MemoryEnd
AtEnd == i_ = end_

---------------------------------------------------------------------------
Left == Len(file) - pos
Got(start) == IF Left < BUFSIZE - start THEN Left ELSE BUFSIZE - start

(* A slip: fread is asked for a whole buffer, whatever is kept in front.    *)
FillFromWhole(from) ==
    LET start == end_ - from
        got == IF Left < BUFSIZE THEN Left ELSE BUFSIZE
    IN  /\ buf_' = [k \in Memory |->
                      IF k < start THEN buf_[from + k]
                      ELSE IF k < start + got THEN file[pos + (k - start) + 1]
                      ELSE buf_[k]]
        /\ end_' = start + got
        /\ i_' = start
        /\ pos' = pos + got
        /\ eof' = (eof \/ Left < BUFSIZE)
        /\ UNCHANGED file

(* fillBuffer_, called with i_ = from: the unprocessed bytes move to the    *)
(* front and fread fills the rest.  (Where the two regions overlap the      *)
(* memcpy of the build copies like memmove.)  feof is set when fread has    *)
(* asked for more than the file has left, not when nothing is left.         *)
FillFrom(from) ==
    LET start == end_ - from
        got == Got(start)
    IN  /\ buf_' = [k \in Memory |->
                      IF k < start THEN buf_[from + k]
                      ELSE IF k < start + got THEN file[pos + (k - start) + 1]
                      ELSE buf_[k]]
        /\ end_' = start + got
        /\ i_' = start
        /\ pos' = pos + got
        /\ eof' = (eof \/ Left < BUFSIZE - start)
        /\ UNCHANGED file

(* DataFrame::add_row, for a frame of one column of strings: a row at the   *)
(* end.                                                                     *)
AddRow(frame, word) == Append(frame, word)

---------------------------------------------------------------------------
Init ==
    /\ file \in Files
    /\ pos = 0
    /\ eof = FALSE
    /\ buf_ \in Heap
    /\ i_ = 0
    /\ end_ = 0
    /\ wStart = 0
    /\ rows = << >>
    /\ pc = "open"

(* The constructor.  It goes on when there is no file, and fread ends the   *)
(* process.                                                                 *)
CannotOpen ==
    /\ pc = "open"
    /\ pc' = "failed"
    /\ UNCHANGED <<streamVars, buf_, i_, end_, wStart, rows>>

Open ==
    /\ pc = "open"
    /\ FillFrom(i_)
    /\ pc' = "skip"
    /\ UNCHANGED <<wStart, rows>>

(* skipWhitespace_: give up at the end of the file; or refill at the end of *)
(* the buffer; or look at a byte.  After a refill the code looks at a byte  *)
(* without asking again whether there is one.                               *)
SkipAtEnd ==
    /\ pc = "skip"
    /\ AtEnd /\ eof
    /\ pc' = "ready"
    /\ UNCHANGED <<streamVars, buf_, i_, end_, wStart, rows>>

SkipRefill ==
    /\ pc = "skip"
    /\ AtEnd /\ ~eof
    /\ FillFrom(i_)
    /\ pc' = "skipByte"
    /\ UNCHANGED <<wStart, rows>>

SkipLook ==
    /\ \/ pc = "skipByte"
       \/ pc = "skip" /\ ~AtEnd
    /\ i_ <= MemoryEnd
    /\ IF buf_[i_] = Space
       THEN i_' = i_ + 1 /\ pc' = "skip"
       ELSE pc' = "ready" /\ UNCHANGED i_
    /\ UNCHANGED <<streamVars, buf_, end_, wStart, rows>>

(* A slip: the end of the buffer must have been passed.                     *)
DoneLate == i_ > end_ /\ eof

(* fromVisitor asks whether there is more, and visits if there is.          *)
Done == i_ >= end_ /\ eof

Finish ==
    /\ pc = "ready"
    /\ Done
    /\ pc' = "finished"
    /\ UNCHANGED <<streamVars, buf_, i_, end_, wStart, rows>>

(* visit asserts that there is a word.                                      *)
Visit ==
    /\ pc = "ready"
    /\ ~Done
    /\ IF i_ < end_ /\ buf_[i_] # Space
       THEN pc' = "scan" /\ wStart' = i_
       ELSE pc' = "failed" /\ UNCHANGED wStart
    /\ UNCHANGED <<streamVars, buf_, i_, end_, rows>>

(* A slip: only white space ends a word.                                    *)
ScanLookSpaces ==
    /\ \/ pc = "scanByte"
       \/ pc = "scan" /\ ~AtEnd
    /\ i_ <= MemoryEnd
    /\ IF buf_[i_] # Space
       THEN i_' = i_ + 1 /\ pc' = "scan"
       ELSE pc' = "word" /\ UNCHANGED i_
    /\ UNCHANGED <<streamVars, buf_, end_, wStart, rows>>

(* The loop of visit: stop one byte further at the end of the file; or      *)
(* refill; or look at a byte, again without asking after a refill.          *)
ScanAtEnd ==
    /\ pc = "scan"
    /\ AtEnd /\ eof
    /\ i_' = i_ + 1
    /\ pc' = "word"
    /\ UNCHANGED <<streamVars, buf_, end_, wStart, rows>>

ScanRefill ==
    /\ pc = "scan"
    /\ AtEnd /\ ~eof
    /\ FillFrom(wStart)
    /\ wStart' = 0
    /\ pc' = "scanByte"
    /\ UNCHANGED rows

ScanLook ==
    /\ \/ pc = "scanByte"
       \/ pc = "scan" /\ ~AtEnd
    /\ i_ <= MemoryEnd
    /\ IF buf_[i_] \in Alnum
       THEN i_' = i_ + 1 /\ pc' = "scan"
       ELSE pc' = "word" /\ UNCHANGED i_
    /\ UNCHANGED <<streamVars, buf_, end_, wStart, rows>>

(* A slip: the delimiter is taken for a part of the word.                   *)
WordInBufferLong == [k \in 1 .. (i_ - wStart) + 1 |-> buf_[wStart + k - 1]]

(* The bytes from wStart up to i_.                                          *)
WordInBuffer == [k \in 1 .. i_ - wStart |-> buf_[wStart + k - 1]]

(* A slip: the byte behind the word is not passed over.                     *)
TakeWordStays ==
    /\ pc = "word"
    /\ i_ <= MemoryEnd
    /\ rows' = AddRow(rows, WordInBuffer)
    /\ buf_' = [buf_ EXCEPT ![i_] = NUL]
    /\ pc' = "skip"
    /\ UNCHANGED <<streamVars, i_, end_, wStart>>

(* The end of visit: the word becomes a row, the byte behind it is          *)
(* overwritten and passed over, and white space is skipped.                 *)
TakeWord ==
    /\ pc = "word"
    /\ i_ <= MemoryEnd
    /\ rows' = AddRow(rows, WordInBuffer)
    /\ buf_' = [buf_ EXCEPT ![i_] = NUL]
    /\ i_' = i_ + 1
    /\ pc' = "skip"
    /\ UNCHANGED <<streamVars, end_, wStart>>

(* An access beyond the memory of the process.                              *)
Fault ==
    /\ \/ pc \in {"skipByte", "scanByte", "word"}
       \/ pc \in {"skip", "scan"} /\ ~AtEnd
    /\ i_ > MemoryEnd
    /\ pc' = "failed"
    /\ UNCHANGED <<streamVars, buf_, i_, end_, wStart, rows>>

Next ==
    \/ Open \/ CannotOpen
    \/ SkipAtEnd \/ SkipRefill \/ SkipLook
    \/ Finish \/ Visit
    \/ ScanAtEnd \/ ScanRefill \/ ScanLook
    \/ TakeWord
    \/ Fault

Spec == Init /\ [][Next]_vars

---------------------------------------------------------------------------
Labels == {"open", "skip", "skipByte", "ready", "scan", "scanByte", "word",
           "finished", "failed"}

(* The state of the reader has the expected shape.                          *)
TypeOK ==
    /\ file \in Files
    /\ pos \in 0 .. Len(file)
    /\ eof \in BOOLEAN
    /\ buf_ \in [Memory -> Char]
    /\ i_ \in Nat
    /\ end_ \in 0 .. BUFSIZE
    /\ wStart \in 0 .. BUFSIZE
    /\ rows \in Seq(Seq(Char))
    /\ pc \in Labels

(* The files the reader is made for: every word is shorter than the buffer, *)
(* and the last one is followed by something.                               *)
WordsFit(f) ==
    \A p \in 1 .. Len(f) - BUFSIZE + 1 :
        \E q \in p .. p + BUFSIZE - 1 : f[q] \notin Alnum
LastWordDelimited(f) == f # << >> => f[Len(f)] \notin Alnum
Regular(f) == WordsFit(f) /\ LastWordDelimited(f)

(* Where byte k of the buffer comes from.                                   *)
Source(k) == pos - end_ + k + 1

(* What is in the buffer and not yet passed is the file, in order and       *)
(* without a gap, up to where it has been read: no refill loses, repeats or *)
(* overwrites a byte that is still needed, and the terminator visit writes  *)
(* never falls on one.                                                      *)
Unpassed == IF pc \in {"scan", "scanByte", "word"} THEN wStart ELSE i_
BufferIsFile ==
    \A k \in Unpassed .. end_ - 1 : Source(k) >= 1 /\ buf_[k] = file[Source(k)]

(* On a regular file, what becomes a row is one whole word of the file,     *)
(* however many refills it took to read it: alphanumeric throughout, and    *)
(* with something else before and behind it.                                *)
RowIsWholeWord ==
    Regular(file) /\ pc = "word" =>
        /\ i_ < end_
        /\ \A k \in wStart .. i_ - 1 : file[Source(k)] \in Alnum
        /\ file[Source(i_)] \notin Alnum
        /\ Source(wStart) > 1 => file[Source(wStart) - 1] \notin Alnum

============================================================================
