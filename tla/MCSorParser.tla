---------------------------- MODULE MCSorParser ----------------------------
(* SorParser on small files.  Every field carries the place it has in the   *)
(* file, so that no two are equal.                                          *)
EXTENDS SorParser, SequencesExt

CONSTANTS MaxRows

(* What a field looks like.  With ints of four bits, -8 .. 7, the integers  *)
(* 16 and 18 are too wide, and toInt makes 0 and 2 of them.                 *)
Look(kind, n) == [kind |-> kind, n |-> n]
Ints == {Look("int", n) : n \in {-3, 0, 1, 5, 16, 18}}
Others == {Look(kind, 0) : kind \in {"blank", "text", "mixed", "dotted", "long"}}
Outside == {Look("junk", 0), Look("open", 0)}
Looks == Ints \union {Look("float", 2)} \union Others

At(look, r, c) == [kind |-> look.kind, n |-> look.n, at |-> <<r, c>>]
MCNewline == [kind |-> "newline"]
Fields == {At(look, r, c) : look \in Looks \union Outside, r \in 1 .. MaxRows, c \in 1 .. 3}
MCByte == Fields \union {MCNewline}

(* A number in halves, rounded to two binary digits when it is beyond four: *)
(* 5 is the first integer that is no float.                                 *)
MCAtof == [f \in Fields |->
    LET halves == IF f.kind = "int" THEN 2 * f.n ELSE IF f.kind = "float" THEN 2 * f.n + 1 ELSE 0
    IN  IF halves \in -8 .. 8 THEN halves ELSE 4 * ((halves + 2) \div 4)]

(* The lines of up to n bytes of some looks, and the files of such lines.   *)
Lines(looks, n) == UNION {[1 .. w -> looks] : w \in 0 .. n}
FileOf(ls, ended) ==
    LET bytes == FlattenSeq([r \in DOMAIN ls |->
            [c \in DOMAIN ls[r] |-> At(ls[r][c], r, c)] \o <<NL>>])
    IN  IF ended \/ ls = << >> THEN bytes ELSE Front(bytes)
FilesOf(lines) ==
    {FileOf(ls, e) : ls \in UNION {[1 .. n -> lines] : n \in 0 .. MaxRows}, e \in BOOLEAN}

(* One column of anything; two columns of three types; too many columns;    *)
(* lines that are not made of fields only.                                  *)
MCFiles ==
    UNION {FilesOf(Lines(Looks, 1)),
           FilesOf(Lines({Look("blank", 0), Look("int", 5), Look("text", 0)}, 2)),
           FilesOf(Lines({Look("int", 5)}, 3)),
           FilesOf(Lines({Look("int", 5)} \union Outside, 2))}

============================================================================
