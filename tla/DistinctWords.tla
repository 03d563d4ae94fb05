--------------------------- MODULE DistinctWords ---------------------------
(* What the word count application promises ("Returns the number of         *)
(* different words in a text file", report/report.md:39), with the one      *)
(* licence its code takes: rows that hold the empty word, which FileReader  *)
(* produces for punctuation, may be missed.                                 *)
(*                                                                          *)
(* The answer is given once, for the text as a whole, and all at once.      *)
EXTENDS Naturals, FiniteSets

CONSTANTS Words, EmptyWord, NoAnswer

VARIABLES
    text,   \* the words of the file, in order
    tally   \* NoAnswer, or the number of occurrences of each word

vars == <<text, tally>>

Occurrences(w) == Cardinality({r \in DOMAIN text : text[r] = w})

(* The true counts, with e of the empty rows found.                         *)
TallyWith(e) ==
    [w \in Words |-> IF w = EmptyWord THEN e ELSE Occurrences(w)]

Init == tally = NoAnswer

Publish ==
    /\ tally = NoAnswer
    /\ \E e \in 0 .. Occurrences(EmptyWord) : tally' = TallyWith(e)
    /\ UNCHANGED text

Spec == Init /\ [][Publish]_vars

FairSpec == Spec /\ WF_vars(Publish)

============================================================================
