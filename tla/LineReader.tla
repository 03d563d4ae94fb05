----------------------------- MODULE LineReader -----------------------------
(* LineReader of the SoR parser (src/CS4500NE/parser.h): the lines of a     *)
(* file, put together from buffers of BufLen bytes.  A byte is NL or        *)
(* anything else in Byte; it need not be more than that here, and the       *)
(* parser lets one byte stand for a field.                                  *)
(*                                                                          *)
(* The only caller reads the whole file (src/applications/linus.h:68), so   *)
(* the first line is never skipped nor the last one dropped: the start is   *)
(* 0, and the end is the size of the file.                                  *)
EXTENDS Integers, Sequences, FiniteSets

CONSTANTS
    BufLen,     \* 4096 in the code
    Byte,       \* what a file is made of
    NL,         \* '\n'
    NoLine,     \* the null pointer
    ReadErrors  \* TRUE: reading the file may fail

ASSUME LineReaderAssumption ==
    /\ BufLen \in Nat \ {0}
    /\ ReadErrors \in BOOLEAN
    /\ NoLine \notin Seq(Byte)

VARIABLES
    file,      \* the bytes of the file
    buf,       \* _buf, as long as _buf_length
    pos,       \* _pos
    readSize,  \* _read_size
    eof,       \* feof(_file)
    err,       \* ferror(_file)
    partial,   \* _current_line
    line,      \* what readLine has returned
    pc         \* "read" in readLine, "line" when it has returned

readerVars == <<file, buf, pos, readSize, eof, err, partial, line, pc>>

SmallerOf(a, b) == IF a < b THEN a ELSE b

InitReader ==
    /\ buf = << >> /\ pos = 0 /\ readSize = 0
    /\ eof = FALSE /\ err = FALSE
    /\ partial = NoLine
    /\ line = NoLine
    /\ pc = "open"

(* A slip: what is left in the buffer is kept.                              *)
ResetKeepsBuffer ==
    /\ readSize' = 0
    /\ eof' = FALSE
    /\ partial' = NoLine
    /\ UNCHANGED <<file, buf, pos, err>>

(* reset, and the constructor: back to the start of the file.  An error of  *)
(* the file stays.                                                          *)
Reset ==
    /\ buf' = << >> /\ pos' = 0 /\ readSize' = 0
    /\ eof' = FALSE
    /\ partial' = NoLine
    /\ UNCHANGED <<file, err>>

(* _append_current_line                                                     *)
Longer(from, to) ==
    (IF partial = NoLine THEN << >> ELSE partial) \o SubSeq(buf, from + 1, to)

Empty == pos >= Len(buf)

(* A slip: one byte short.                                                  *)
OverShort == readSize + 1 >= Len(file) \/ eof \/ err

(* The file has been read, or cannot be.                                    *)
Over == readSize >= Len(file) \/ eof \/ err

(* Nothing more to read: the last line is returned, if there is one.        *)
EndOfFile ==
    /\ pc = "read" /\ Empty /\ Over
    /\ line' = partial
    /\ partial' = NoLine
    /\ pc' = "line"
    /\ UNCHANGED <<file, buf, pos, readSize, eof, err>>

(* A slip: what was asked for is counted, not what was read.                *)
RefillAsked ==
    LET toRead == SmallerOf(BufLen, Len(file))
        got == SmallerOf(toRead, Len(file) - readSize)
    IN  /\ pc = "read" /\ Empty /\ ~Over
        /\ buf' = SubSeq(file, readSize + 1, readSize + got)
        /\ readSize' = readSize + toRead
        /\ pos' = 0
        /\ eof' = (got < toRead)
        /\ UNCHANGED <<file, err, partial, line, pc>>

(* The buffer is filled again, or fread fails.                              *)
Refill ==
    LET toRead == SmallerOf(BufLen, Len(file))
        got == SmallerOf(toRead, Len(file) - readSize)
    IN  /\ pc = "read" /\ Empty /\ ~Over
        /\ buf' = SubSeq(file, readSize + 1, readSize + got)
        /\ readSize' = readSize + got
        /\ pos' = 0
        /\ eof' = (got < toRead)
        /\ UNCHANGED <<file, err, partial, line, pc>>

RefillFails ==
    /\ pc = "read" /\ Empty /\ ~Over
    /\ ReadErrors
    /\ buf' = << >> /\ pos' = 0
    /\ err' = TRUE
    /\ UNCHANGED <<file, readSize, eof, partial, line, pc>>

Newlines == {i \in pos + 1 .. Len(buf) : buf[i] = NL}

(* The line ends at the first newline in the buffer ...                     *)
FindNewline ==
    LET i == CHOOSE j \in Newlines : \A k \in Newlines : j <= k
    IN  /\ pc = "read" /\ Newlines # {}
        /\ line' = Longer(pos, i - 1)
        /\ partial' = NoLine
        /\ pos' = i
        /\ pc' = "line"
        /\ UNCHANGED <<file, buf, readSize, eof, err>>

(* ... or it goes on in the next buffer.                                    *)
NoNewline ==
    /\ pc = "read" /\ ~Empty /\ Newlines = {}
    /\ partial' = Longer(pos, Len(buf))
    /\ pos' = Len(buf)
    /\ UNCHANGED <<file, buf, readSize, eof, err, line, pc>>

ReadLine == EndOfFile \/ Refill \/ RefillFails \/ FindNewline \/ NoNewline

---------------------------------------------------------------------------
(* The lines of a file, without a buffer: what lies between newlines, and   *)
(* what follows the last one unless that is nothing.                        *)
LineStarts(f) == {p \in DOMAIN f : p = 1 \/ f[p - 1] = NL}
NumLines(f) == Cardinality(LineStarts(f))
LineStart(f, k) ==
    CHOOSE p \in LineStarts(f) : Cardinality({q \in LineStarts(f) : q < p}) = k - 1
LineEnd(f, p) ==
    CHOOSE e \in p - 1 .. Len(f) :
        /\ \A q \in p .. e : f[q] # NL
        /\ e < Len(f) => f[e + 1] = NL
LineOf(f, k) ==
    LET p == LineStart(f, k) IN SubSeq(f, p, LineEnd(f, p))

============================================================================
