-------------------------- MODULE MCReadAndCount --------------------------
(* ReadAndCount on short files and a short buffer.                          *)
EXTENDS ReadAndCount

CONSTANTS
    MaxLength,  \* all files of up to this many bytes with one letter, and ...
    MaxWords    \* ... files of this many words, with a space behind each,
                \* and one of all the words there are

Letter == CHOOSE a \in Alnum : TRUE
FewBytes == UNION {[1 .. k -> {Letter, Space, Other}] : k \in 0 .. MaxLength}
ShortWords == UNION {[1 .. k -> Alnum] : k \in 1 .. BUFSIZE - 1}
ManyWords ==
    {FlattenSeq([k \in 1 .. MaxWords |-> Append(ws[k], Space)]) :
        ws \in [1 .. MaxWords -> ShortWords]}
EveryWord == FlattenSeq(SetToSeq({Append(w, Space) : w \in ShortWords}))
MCFiles == FewBytes \union ManyWords \union {EveryWord}

(* New memory holds zeroes, or what looks like more of a word.              *)
MCHeap == {[k \in Memory |-> c] : c \in {NUL, Letter}}

(* If the file can be opened and is one FileReader is made for, an answer   *)
(* is given: no loop over the buffer or the map runs for ever, and no       *)
(* assertion fails.                                                         *)
AnswerGiven == (pc = "skip" /\ Regular(file)) ~> phase = "printed"

============================================================================
