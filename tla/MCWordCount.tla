---------------------------- MODULE MCWordCount ----------------------------
(* WordCount on small clusters and short texts.                             *)
EXTENDS WordCount

CONSTANTS
    a, b,           \* two words: a is how b begins
    MinRows,        \* every text of at least so many rows ...
    MaxRows,        \* ... and at most so many ...
    TextWords,      \* ... of these words ...
    LongRows        \* ... and some texts of so many rows, unless 0

ShortTexts == UNION {[0 .. k - 1 -> TextWords] : k \in MinRows .. MaxRows}
LongTexts ==
    IF LongRows = 0 THEN {}
    ELSE {[r \in 0 .. LongRows - 1 |->
              IF r % 3 = k THEN EmptyWord ELSE IF r % 2 = 0 THEN a ELSE b] : k \in 0 .. 3}
MCTexts == ShortTexts \union LongTexts

(* b is cut to a, and a to nothing.                                         *)
MCStump == [t \in MCTexts |-> [r \in DOMAIN t |-> IF t[r] = b THEN a ELSE EmptyWord]]

(* The cluster does publish its answer.                                     *)
AnswerGiven == Promise!FairSpec

============================================================================
