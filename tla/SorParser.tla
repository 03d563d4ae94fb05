----------------------------- MODULE SorParser -----------------------------
(* How Linus reads a file of the schema-on-read format                      *)
(* (Linus::readDataFrameFromFile and SorParser, src/CS4500NE/parser.h).     *)
(* Three passes over the lines: the first counts the fields of the first    *)
(* GUESS_SCHEMA_LINES lines, the second guesses the types of the columns    *)
(* from the same lines, the third fills the columns with all lines.         *)
(*                                                                          *)
(* A field is a record that says what its text looks like:                  *)
(*   blank      nothing but spaces                                          *)
(*   int        the digits of an integer, field.n                           *)
(*   float      a number with a dot; field.n is what stands before the dot  *)
(*   text       a quoted string without digits, signs and dots              *)
(*   mixed      a quoted string with some of them, but no dot               *)
(*   dotted     a quoted string with a dot                                  *)
(*   long       a text of more than MAX_STRING characters                   *)
(* Two more bytes of a line are no fields: junk outside the brackets, and   *)
(* an open field, whose quote is never closed.                              *)
(*                                                                          *)
(* A column of integers holds ints, IntBits wide; a column of floats what   *)
(* the library reads a number as, which is as near as a float can be.       *)
EXTENDS LineReader

CONSTANTS
    GUESS_SCHEMA_LINES,  \* 500 in the code
    MaxColumns,          \* room for columns in a DataFrame: 10
    IntBits,             \* width of int
    atof,                \* atof[field]: the float the library reads in a field
    Files                \* the files that may be read

ASSUME SorParserAssumption ==
    /\ GUESS_SCHEMA_LINES \in Nat \ {0} /\ MaxColumns \in Nat \ {0}
    /\ IntBits \in Nat \ {0}
    /\ Files \subseteq Seq(Byte)

VARIABLES
    mode,      \* the pass
    k,         \* the lines handled in this pass
    columns,   \* the number of columns, once counted
    guesses,   \* _typeGuesses
    df         \* the columns of parsed_df

parserVars == <<mode, k, columns, guesses, df>>
vars == <<readerVars, parserVars>>

(* The types, from the narrowest to the widest guess.                       *)
Unknown == 0
Bool == 1
Integer == 2
Float == 3
String == 4
Types == Unknown .. String

---------------------------------------------------------------------------
(* _scanLine: the fields of a line, up to one that is never closed.         *)
FieldsAt(l) == {p \in DOMAIN l : l[p].kind # "junk" /\ \A q \in 1 .. p : l[q].kind # "open"}
FieldsOf(l) ==
    [i \in 1 .. Cardinality(FieldsAt(l)) |->
        l[CHOOSE p \in FieldsAt(l) : Cardinality({q \in FieldsAt(l) : q < p}) = i - 1]]

(* Nothing is left of such a field when trim has taken the spaces away.     *)
Blank(field) == field.kind = "blank"

(* toInt: the digits a field begins with, as a long that is returned as an  *)
(* int.  A quoted string begins with none.                                  *)
ToInt(field) ==
    IF field.kind \in {"int", "float"}
    THEN ((field.n + 2^(IntBits - 1)) % 2^IntBits) - 2^(IntBits - 1)
    ELSE 0

(* A slip: an integer behind a float makes an integer column.               *)
GuessLast(guess, field) ==
    IF Blank(field) \/ guess = String THEN guess
    ELSE CASE field.kind \in {"int", "mixed"} ->
                  IF ToInt(field) \in {0, 1} /\ guess # Integer THEN Bool ELSE Integer
           [] field.kind \in {"float", "dotted"} -> Float
           [] OTHER -> String

(* _guessFieldType: a guess may only widen.  A field with some numeric      *)
(* character counts as a number.                                            *)
Guess(guess, field) ==
    IF Blank(field) \/ guess = String THEN guess
    ELSE CASE field.kind \in {"int", "mixed"} ->
                  IF guess = Float THEN Float
                  ELSE IF ToInt(field) \in {0, 1} /\ guess # Integer THEN Bool ELSE Integer
           [] field.kind \in {"float", "dotted"} -> Float
           [] OTHER -> String

(* _appendField: the cell a field becomes in a column of a type; for a      *)
(* blank field it is the default value of the column.  A column of unknown  *)
(* type is one of bits (getCharFromProvColType).                            *)
Default == [kind |-> "blank"]
Cell(type, field) ==
    IF Blank(field) THEN Default
    ELSE CASE type = String -> field
           [] type = Float -> [float |-> atof[field]]
           [] type = Integer -> [int |-> ToInt(field)]
           [] OTHER -> [bit |-> ToInt(field) = 1]
TooLong(type, field) == type = String /\ field.kind = "long"

(* The constructor of DataFrame: a column for every type of the schema.     *)
NewFrame(schema) == [c \in DOMAIN schema |-> << >>]

---------------------------------------------------------------------------
Init ==
    /\ InitReader
    /\ file \in Files
    /\ mode = "count"
    /\ k = 0
    /\ columns = 0
    /\ guesses = << >>
    /\ df = << >>

CannotOpen ==
    /\ pc = "open"
    /\ pc' = "failed"
    /\ UNCHANGED <<file, buf, pos, readSize, eof, err, partial, line, parserVars>>

Open ==
    /\ pc = "open"
    /\ pc' = "read"
    /\ UNCHANGED <<file, buf, pos, readSize, eof, err, partial, line, parserVars>>

Read == ReadLine /\ UNCHANGED parserVars

HaveLine == pc = "line" /\ line # NoLine
Kept == UNCHANGED <<file, buf, pos, readSize, eof, err, partial, line>>

(* The two passes of guessSchema stop after so many lines.                  *)
NextGuessLine ==
    /\ k' = k + 1
    /\ pc' = IF k + 1 = GUESS_SCHEMA_LINES THEN "passed" ELSE "read"

EndOfPass ==
    /\ pc = "line" /\ line = NoLine
    /\ pc' = "passed"
    /\ UNCHANGED parserVars /\ Kept

CountFields ==
    /\ mode = "count" /\ HaveLine
    /\ columns' = IF Len(FieldsOf(line)) > columns THEN Len(FieldsOf(line)) ELSE columns
    /\ NextGuessLine
    /\ UNCHANGED <<mode, guesses, df>> /\ Kept

(* Between the first pass and the second: there must be a column.           *)
StartGuessing ==
    /\ mode = "count" /\ pc = "passed"
    /\ mode' = "guess"
    /\ IF columns = 0
       THEN pc' = "failed" /\ UNCHANGED <<guesses, k>> /\ Kept
       ELSE /\ guesses' = [c \in 1 .. columns |-> Unknown]
            /\ k' = 0
            /\ Reset /\ UNCHANGED line
            /\ pc' = "read"
    /\ UNCHANGED <<columns, df>>

GuessTypes ==
    LET fields == FieldsOf(line)
    IN  /\ mode = "guess" /\ HaveLine
        /\ guesses' = [c \in 1 .. columns |->
                          IF c <= Len(fields) THEN Guess(guesses[c], fields[c]) ELSE guesses[c]]
        /\ NextGuessLine
        /\ UNCHANGED <<mode, columns, df>> /\ Kept

(* Between the second pass and the third the frame is made.  More columns   *)
(* than a frame has room for are written behind its array, and the process  *)
(* may or may not go on.                                                    *)
StartParsing ==
    /\ mode = "guess" /\ pc = "passed"
    /\ mode' = "parse"
    /\ k' = 0
    /\ df' = NewFrame(guesses)
    /\ Reset /\ UNCHANGED line
    /\ \/ pc' = "read"
       \/ columns > MaxColumns /\ pc' = "failed"
    /\ UNCHANGED <<columns, guesses>>

(* A line of the third pass.  The columns it has no field for get two       *)
(* default values each.                                                     *)
Filled(fields) == [c \in 1 .. columns |->
    df[c] \o IF c <= Len(fields) THEN <<Cell(guesses[c], fields[c])>> ELSE <<Default, Default>>]

(* A field that no column was made for, or that is too long, ends the       *)
(* process.                                                                 *)
ParseFields ==
    LET fields == FieldsOf(line)
        fits == /\ Len(fields) <= columns
                /\ \A c \in DOMAIN fields : ~TooLong(guesses[c], fields[c])
    IN  /\ mode = "parse" /\ HaveLine
        /\ IF fits
           THEN df' = Filled(fields) /\ k' = k + 1 /\ pc' = "read"
           ELSE pc' = "failed" /\ UNCHANGED <<df, k>>
        /\ UNCHANGED <<mode, columns, guesses>> /\ Kept

(* parseFile has returned, and the frame is what readDataFrameFromFile      *)
(* returns.                                                                 *)
Finish ==
    /\ mode = "parse" /\ pc = "passed"
    /\ pc' = "done"
    /\ UNCHANGED parserVars /\ Kept

Ended == pc \in {"done", "failed"}
End == Ended /\ UNCHANGED vars

Work ==
    \/ Open \/ CannotOpen
    \/ Read \/ EndOfPass
    \/ CountFields \/ StartGuessing
    \/ GuessTypes \/ StartParsing
    \/ ParseFields \/ Finish

Next == Work \/ End

Spec == Init /\ [][Next]_vars

(* The operating system goes on running the process.                        *)
FairSpec == Spec /\ WF_vars(Work)

---------------------------------------------------------------------------
(* The state of the parser has the expected shape.                          *)
TypeOK ==
    /\ pos \in 0 .. Len(buf) /\ Len(buf) <= BufLen
    /\ readSize \in 0 .. Len(file)
    /\ eof \in BOOLEAN /\ err \in BOOLEAN
    /\ pc \in {"open", "read", "line", "passed", "done", "failed"}
    /\ mode \in {"count", "guess", "parse"}
    /\ k \in 0 .. NumLines(file)
    /\ mode # "parse" => k <= GUESS_SCHEMA_LINES
    /\ columns \in 0 .. Len(file)
    /\ guesses \in [1 .. Len(guesses) -> Types]
    /\ Len(guesses) \in {0, columns} /\ Len(df) \in {0, columns}

(* However lines lie across the buffers, and in each pass anew after the    *)
(* reset, readLine returns the lines of the file one after the other, each  *)
(* whole, the last one also when no newline ends it, and then nothing.      *)
LinesInOrder ==
    pc = "line" /\ ~err =>
        IF k < NumLines(file) THEN line = LineOf(file, k + 1) ELSE line = NoLine

(* The rows the file means to have.                                         *)
RowOf(r) == FieldsOf(LineOf(file, r))
Rows == 1 .. NumLines(file)
GuessedRows == 1 .. SmallerOf(NumLines(file), GUESS_SCHEMA_LINES)

(* Whether a type has a value for what a field says: a bit 0 and 1, an int  *)
(* the integers of its width, a float, near enough, every number.           *)
Holds(type, field) ==
    CASE Blank(field) -> TRUE
      [] field.kind = "int" ->
            \/ type >= Float
            \/ /\ ToInt(field) = field.n
               /\ type = Integer \/ (type = Bool /\ field.n \in {0, 1})
      [] field.kind = "float" -> type >= Float
      [] OTHER -> type = String

(* The value a field has in a column that holds it.                         *)
Value(type, field) ==
    IF Blank(field) THEN Default
    ELSE CASE type = String -> field
           [] type = Float -> [float |-> atof[field]]
           [] type = Integer -> [int |-> field.n]
           [] OTHER -> [bit |-> field.n = 1]

(* The narrowest type that holds what the rows rs have in column c.         *)
Narrowest(rs, c) ==
    LET fields == {RowOf(r)[c] : r \in {q \in rs : c <= Len(RowOf(q))}}
    IN  CHOOSE t \in Types :
            /\ \A f \in fields : Holds(t, f)
            /\ \A u \in Types : (\A f \in fields : Holds(u, f)) => t <= u

(* The columns whose guess can be relied on.  _guessFieldType takes a       *)
(* quoted string with a digit, a sign or a dot for a number, and an integer *)
(* too wide for an int for what is left of it, which may be 0 or 1.         *)
AsWritten(field) ==
    /\ field.kind \notin {"mixed", "dotted"}
    /\ field.kind = "int" => ToInt(field) = field.n
Plain(c) ==
    \A r \in GuessedRows : c <= Len(RowOf(r)) => AsWritten(RowOf(r)[c])

(* Whatever the order of the lines, a column is given the narrowest type    *)
(* that holds all fields the guess is made from.                            *)
GuessIsNarrowest ==
    mode = "parse" /\ ~err =>
        \A c \in 1 .. columns : Plain(c) => guesses[c] = Narrowest(GuessedRows, c)

(* A table: rows of the same width, for which there is room, no string too  *)
(* long, and no row behind the ones the guess is made from has a field that *)
(* the type of its column has no value for.                                 *)
IsTable ==
    /\ NumLines(file) > 0
    /\ Len(RowOf(1)) \in 1 .. MaxColumns
    /\ \A r \in Rows : Len(RowOf(r)) = Len(RowOf(1))
    /\ \A r \in Rows : \A c \in DOMAIN RowOf(r) : RowOf(r)[c].kind # "long"
    /\ \A c \in 1 .. Len(RowOf(1)) :
          Plain(c) /\ Narrowest(Rows, c) = Narrowest(GuessedRows, c)

(* Of a table, every field read so far is in its column and row with the    *)
(* value it has in the narrowest type that all fields of the column have a  *)
(* value in: the conversion to an int or a bit has changed none, and only a *)
(* column with a real float in it has its integers rounded to floats.       *)
TableKept ==
    mode = "parse" /\ ~err /\ IsTable =>
        \A c \in 1 .. columns :
            df[c] = [r \in 1 .. k |-> Value(Narrowest(Rows, c), RowOf(r)[c])]

(* A table that can be opened and read without an error is read to its end. *)
TableParsed ==
    (pc = "read" /\ mode = "count" /\ IsTable) ~>
        (err \/ (pc = "done" /\ k = NumLines(file)))

============================================================================
