# Verification of eau2 (milestone 1)

eau2 is a small distributed data-frame system in C++: a fixed number of
single-threaded processes ("nodes") find each other over TCP, node 0 (the
server) deals the rows of a data frame to all nodes in chunks, every node works
on its rows, the clients send results back, and node 0 merges them. Two
applications are built this way: `WordCount` and `Linus`.

This directory holds TLA+ modules that model it, TLC configurations that check
them on small instances, and proofs that TLAPS checks for every instance.
`PROJECT.json` lists the components, the runs, the lines every definition
models, the hazards, the findings, and the theorems.

## Inventory

| Component | State | Operations | What makes it correct |
|---|---|---|---|
| Network endpoint, `src/network/network.h` | listening socket, accept queue, descriptors | `init_sock_`, `send_m`, `recv_m`, `~NetworkIP` | messages of one receiver are taken in order of arrival; none is lost while both ends live |
| Start-up, `network.h`, `tests/m4/main.cpp` | node table of every process | `server_init`, `client_init`, `initialize` | every node ends with the same correct directory; start-up ends |
| WordCount, `src/applications/wordcount.h` | text, store, chunk counters | `run_`, `local_count`, `reduce`, `merge` | every row is counted once; node 0 prints the number of different words; every process ends |
| Linus, `src/applications/linus.h` | commits, tagged users and projects, store | `run_`, `readInput`, `step`, `merge` | after stage s the sets are the circle of s degrees; the two sides of the protocol stay in step; every process ends |
| Data frames, `src/dataframe/` | columns, schema, rows | `chunk`, `append_chunk`, `map`, `add_row` | chunks partition a frame; nobody uses a cell another has freed |
| Sets and taggers, `dataframe.h` | bit sets | `set`, `test`, `union_`, `visit` | out-of-range ids change nothing |
| Key-value store, `src/key/` | keys and frames | `put`, `get`, `~KVStore` | a frame is found under its key; it is freed once |
| Messages, `src/network/serial.h`, `src/column/` | text of a message | `serialize` and the parsing constructors | what arrives is what was sent |
| Words, `writer.h`, `reader.h`, `SImap.h` | file buffer, hash map, cursors | `FileReader::visit`, `fillBuffer_`, `Adder`, `Summer`, `Map::set`, `grow` | every word of the file is one row; the map holds every word once with its number; the cursor visits every pair once |
| SoR parser, `src/CS4500NE/` | line buffer, guesses, columns | `LineReader::readLine`, `reset`, `SorParser::guessSchema`, `parseFile` | lines come whole and in order, in each of three passes; a column gets the narrowest type; a table becomes its frame |
| Columns, arrays, wrappers, strings, flags | plain values | | |
| `thread.h`, `demo.h`, `rower.h`, `fielder.h` | unused, or does not compile | | |

The components interact by calls inside a process and by messages between
processes. There are no threads and no callbacks across processes; the hard
behaviours are

* the interleaving of processes, in particular a fast client one phase ahead of
  a slow one, on mailboxes whose messages carry no tag of the phase or stage;
* full accept queues, refused and timed-out connects, descriptors that are
  never closed, and processes that end in the middle of a run;
* numbers computed separately on both sides of the protocol (how many chunks);
* conversions between `size_t` and `int` at zero rows;
* words and lines that lie across the refills of a buffer, or end with it;
* a map that grows while it is counted in, and a cursor over its buckets;
* a file read three times through one reader, whose state must not leak from
  one pass into the next;
* memory that is freed twice, or used after it was freed;
* columns cut at the line buffer of a message.

## Modules

`Network` is the part of `NetworkIP` all protocols share. A message has a TCP
connection of its own, so the accept queue of a process is its mailbox:
`inbox[n]`, first in first out, with room for `Backlog + 1` connections.
`Send` and `Receive` are the successful `send_m` and `recv_m`; `SendFails` and
`ReceiveFails` say when the code exits instead; `fds[n]` counts descriptors,
which the code never closes; `CloseSocket` is what the end of a process, or
`~NetworkIP`, does to its mailbox. `connect` and `write` are one step, because
a receiver that has accepted a connection blocks until the bytes are there. Only
`WordCount` has senders that can end between the two (`serialize` reads words that
may have been freed): the connection they leave behind, whose reader gets a message
that was never set, is in its variable `deserted`. That message is taken to end the
process; so is the one `recv_m` returns when `accept` fails.

`Startup` composes `Network` with the two initialisation functions and ends
where the application is constructed. `Record` keeps the two different indices
of the register loop.

`Chunks` is the arithmetic of chunks with the widths of `size_t` and `int` as
constants.

`WordCount` composes `Network` and `Chunks`: one action per loop body or call
of `run_` on the server and on a client. A frame of words is the set of the
numbers of its rows; the invariant `NoRowTwice` is what makes a set enough. A
frame of counts maps each word to its count. `Sent`, `Survives` and `Carried` are
what the text form of a message does to a frame: it is cut at the line buffer, in
the middle of a word (`Stump` gives what is left of it, which may be another word),
empty words vanish, and a counts frame whose words overrun the line arrives as words
only.

`Linus` composes the same two: one action per message and per phase of `step`
and `merge`. A frame of ids is a set, since `SetWriter` writes it in increasing
order and nothing depends on repetitions. A column is cut at the line buffer here
too: `Carried` is the set of what may arrive, with the first digits of the id at the
cut as one more id (`FirstDigits`; 4967 may arrive as 49). The fields `of` and `stage` of a
delta are history: the code has no such fields, and only properties read them.

`FileReader` is the reader of the word count application, one action per pass of
a loop of `visit` and `skipWhitespace_`. A file is a sequence of characters of
which only letters, white space, punctuation and the terminator are told apart.
The buffer has `BUFSIZE` bytes, and behind it is memory up to `MemoryEnd` that
the code can reach, because at the end of a file it looks and writes there.

`SIMap` is the hash map, as a value: `Set` grows and puts, `Hash` is
`String::hash_me` with the width of `size_t` as a constant. `ReadAndCount`
composes it with `FileReader` and adds one action per row of `Adder` and per pair
of `Summer`: what one node does from the bytes of the file to the printed
number. `WordCount` takes the results of both for granted (a text is its rows, a
frame of counts a function), and `RowsAreWords` and `EveryPairOnce` are what
entitles it to.

`LineReader` is the line buffer of the SoR parser, `SorParser` the three passes
over it: the fields are counted, the types guessed, the columns filled. A byte
stands for a field, and a field is given by its kind (what its text looks like),
its number and its place in the file. A cell holds what the column makes of the
field: `ToInt` narrows the integer to `IntBits`, a float is what the library reads
the text as (the constant `atof`, which rounds), a column of bits or of unknown type
asks whether `ToInt` is 1. `Linus` takes the resulting frames as its inputs.

`DistinctWords` and `Collaborators` say what the applications compute, without
nodes, chunks or messages. `WordCount`, `ReadAndCount` and `Linus`
instantiate them with a refinement mapping and check them as properties
(`AnswerCorrect` for safety, `AnswerGiven` with liveness): `DistinctWords` is
implemented by the cluster, given the rows, and by one node, given the bytes.

`MCStartup`, `MCWordCount`, `MCLinus`, `MCReadAndCount` and `MCSorParser` define
the inputs of the runs. Theorems and proofs are in `WordCountProofs`,
`LinusProofs`, `StartupProofs`, `FileReaderProofs`, `SIMapProofs`,
`ReadAndCountProofs` and `SorParserProofs`, each about the module of its name,
and in `NumberLemmas`, which they share.

The lines of a file and its words are found by rank (`LineStart`, `WordStart`:
the k-th place where one starts), which says the same as reading from left to
right and can be reasoned about without induction over the file.
Operators whose comment starts with "A slip"
or "Slips" are not used by any specification: each is a plausible mistake in
the definition that follows it, and the manifest says which property notices it.

### What the constants select

Some behaviour of the build hides everything after it: `Application` closes the
listening socket before `run_` starts, and rows free the words other frames
use. `ListenerOpen`, `FreedMemory`, `StaleSet` and `DoubleFree` are the sets of
outcomes a run considers. The runs about the protocols take the outcome the
code's comments ask for (`{TRUE}`, `{"intact"}`, `{"survives"}`); the runs
about failures take all outcomes. The set that `UsersTagger` reads is always freed
memory: `LinusTwoNodes` takes both outcomes at every reading, and what is promised
then (`StaleRead` of `Collaborators`) is that no user of the circle is missed and
only committers come with them; `LinusFailures` takes the intact one and promises the
exact circle. Of undefined behaviour the models keep these outcomes: the words or
the set are still there, the process is ended, or the set has been recycled as an
empty one. Freed words that read as other words are not an outcome: any answer could
follow.

## Runs

| Run | Instance | Shows |
|---|---|---|
| `Startup` | 5 nodes, same ports, any launch order, queue of 2 | a directory is correct, equal for all, and sent only to a node that waits for it; the server never stops; `RegisteredRun`: if all clients register, every process reaches its application |
| `WordCountExact` | 3 nodes, all texts of 1 to 6 rows over 3 words and some of 9, 2 rows per chunk, queue of 1 | no row lost, every client counts its own share, the answer is given and every process ends |
| `WordCountFailures` | 3 nodes, texts of 0 to 5 rows and some of 9, 4 descriptors, time-outs, memory faults, connections left empty, closed listeners, zero rows that wrap to -32 chunks | no row in two places, no send to a process that has returned, no wrong or partial answer, no frame replaced, no null frame in `reduce` |
| `LinusTwoNodes` | 2 nodes, all graphs of 3 users and 2 projects, 3 degrees, 2 users per chunk, freed set intact or recycled, empty rounds that wrap to -32 chunks | merge gathers what it should, the circles published are the ones promised, round by round, and all are published |
| `LinusThreeNodes` | 3 nodes, 2 degrees, all graphs of 3 users, and one of 5 (`WideCommits`) that gives a client two chunks and overruns the line buffer of a delta | with a fast and a slow client no message is taken for another kind or stage, no user is dealt twice, nobody sends to a process that has returned; every process ends |
| `LinusFailures` | 2 nodes, 3 degrees, 14 descriptors, time-outs, closed listeners, aborts in a double free | what was published is right, and the sets of node 0 are what it published |
| `ReadAndCount` | all files of up to 5 bytes of a letter, a space and a dot, and all of 3 words over 2 letters, a buffer of 3 bytes, a map of 1 bucket | on every file the reader is made for, the rows are the words of the file, the map is sound and right after every row and through every grow, every pair is visited once, the answer is right and is given |
| `SorFile` | all files of up to 3 lines: of up to one field of any kind, of up to two blank, integer or text fields, of up to three integers, or with stray bytes; a buffer of 3 bytes, types guessed from 2 lines, 2 columns, ints of 4 bits and floats that round from 5 | lines are whole and in order in all three passes, the guess is the narrowest whatever the order, the frame has the values of the file in their places, and a table is parsed to the end |
| `StartupPortOrder` (violation) | 4 nodes, different ports | clients that register out of order have their ports swapped |
| `WordCountLongLines` (violation) | chunks of 2 rows, lines of 1 | a word cut at the line buffer of a message arrives as another one, and those behind it are lost |
| `LinusMixedMerge` (violation) | 3 nodes | the merge of the projects takes the users of a fast client |
| `FileReaderLastWord` (violation) | as `ReadAndCount` | a word at the very end of a file gets one byte more, one as long as the buffer is cut |

The manifest quotes the line of the repository each violation disagrees with.

### Divergences without a run

The modules describe more places where the build does not do what a comment or
the report says. Each shows as a counterexample when a configuration above is
changed as follows.

| Where | What | Change and property |
|---|---|---|
| `application.h:18` | the by-value `NetworkIP` parameter closes the listening socket when the constructor returns | `ListenerOpen = {FALSE}`, `AllDone` |
| `row.h:58` against `row.h:98` "The string is external." | a deleted row frees the words of the frame it was filled from | `FreedMemory = {"aborts"}`, `AllDone` of `WordCount` |
| `wordcount.h:102` | a file without words makes the server deal chunks the clients do not expect | `MinRows = MaxRows = LongRows = 0`, `IntBits = SizeBits = 6`, `AllDone` |
| `writer.h:50` | rows of punctuation count as a word only when they fall to node 0 | `WordCountLongLines` with `LineRows = 9`, one row per chunk and empty words, `DifferentWords` |
| `linus.h:281` | `UsersTagger` reads a set that was deleted | `LinusTwoNodes` with `StaleRead <- FALSE` in `Circle`, `AnswerCorrect` |
| `linus.h:315` | frames received in `merge` are freed twice | `DoubleFree = {"aborts"}`, `AllDone` |
| `dataframe.h:353` | a commit by an unknown uid tags its project | `NumUids` above `NumUsers`, `AnswerCorrect` |
| `linus.h:287` against `linus.h:19` "only ever trades the deltas" | with two nodes, users published once are tagged, sent and published again | no user in two of the frames of `PublishedUsers` |
| `serial.h:189` | ids beyond the line buffer of a delta are lost, and one becomes another | `LineRows = 1`, `AnswerCorrect` |
| `serial.h:189` | an id cut in a chunk may be a user of another node's chunk | three nodes, `LineRows = 1`, `RowsPerChunk = 2`, only `WideCommits`, `NoUserTwice` |
| `parser.h:116` | an integer too wide for an int becomes another one; 2^32 is guessed to be a bit | drop the second conjunct of `AsWritten`, `GuessIsNarrowest` |
| `parser.h:698` | the loop over the columns a short line does not fill appends two default values to each, so columns get out of step | as an invariant, that in the third pass every column has `k` cells |
| `parser.h:484` against `parser.h:478` "Check if the slice consists of only numeric chars" | one numeric character is enough: a quoted string with a digit is guessed `BOOL`, with a dot `FLOAT` | drop `Plain`, `GuessIsNarrowest` |
| `parser.h:244` | a read error ends the file: the frame is shorter, or its types are guessed from fewer lines, and nobody is told | drop `~err`, `LinesInOrder` |
| `dataframe.h:58` | more than ten columns are written behind the array of columns | the disjunct of `StartParsing` that fails |
| `writer.h:46` | a word of `BUFSIZE` bytes leaves `fillBuffer_` no room; the reader goes on behind the buffer, or stops at its next assertion | drop `WordsFit` from `Regular`, `AnswerGiven` |
| `linus.h:24` against `report.md:41` "up to seven degrees" | `DEGREES` is 4 | |

### Bounds

* Three nodes are the least with two clients, which is what reordering between
  clients needs; start-up has five, so that clients can arrive in any order and
  the queue of two fills.
* The accept queue (`Backlog`) is 0 or 1 instead of 100, so that it fills.
* `FdLimit` is out of reach in the runs about the protocol, and reached in the
  middle of every loop in the runs about failures.
* One to six rows in chunks of two, and three nodes, make up to three chunks: full
  rounds and broken ones, and a last chunk that is short. Nine rows make five, so
  that a client gets two.
* `SizeBits` and `IntBits` scale the widths down so that the wrap at zero rows is
  reached with small numbers: 64 and 32 bits and the default of 10000 rows per chunk
  give -1161359156 chunks for an empty frame; `WordCountFailures` and `LinusTwoNodes`
  give -32 (six bits, chunks of two), which is what the patch at `linus.h:188` is for;
  `LinusThreeNodes` and `LinusFailures` give 0, as one or two rows per chunk do in the
  code. That some chunk sizes (1000) give a positive number is not in a run: `Linus`
  then deals that many empty chunks.
* `LineRows` stands for 10000 characters: out of reach in `WordCountExact`,
  `WordCountFailures`, `LinusTwoNodes` and `LinusFailures`, and overrun in
  `WordCountLongLines` and by the deltas of `LinusThreeNodes`. With the default
  `rows_per_chunk` of 10000 the chunks of the program may overrun it, too.
* `WideCommits` are five users of one project, all in the first circle: with one
  user per chunk and three nodes the round-robin wraps and a client gets two chunks.
* A buffer of three bytes and files of up to nine characters put every boundary
  of a word or a run of white space before, at and behind the end of a buffer,
  with up to three refills in one file. Words have up to two letters, the longest
  that fit.
* The map starts with one bucket instead of ten and has up to six different
  words, so that it grows three times and buckets collide and stay empty.
* `MemoryEnd` leaves two bytes behind the buffer. They hold zeroes or letters at
  first (`MCHeap`). Memory with white space is left out: `skipWhitespace_` and
  `visit` step over the end of the buffer by one or two bytes, and would then
  run on as far as the white space goes.
* `HashBits` is 14: the product with 65599 stays inside TLC's integers.
* `IntBits` of `SorParser` is 4 and the integers of a file are -3, 0, 1, 5, 16 and 18,
  so that 16 and 18 are narrowed to 0 and 2; `MCAtof` rounds from 5 on, where
  a float of the program does from 2^24.
* `GUESS_SCHEMA_LINES` is 2 with files of 0 to 3 lines, so that files end
  before, at and behind the lines the guess is made from. A buffer of three
  holds less than one line of some files and more than two of others.
* Deadlock is checked in every run but the two about failures: there a process
  that waits for one that has failed waits for ever, as in the program.

### Fairness

`FairSpec` is weak fairness of the step of every process: the operating system
goes on running a process that can run. Nothing is assumed about which process
runs first, or about messages: a `connect` to a full queue waits until there is
room (no time-outs, `ConnectTimeout = FALSE`), and there is room again only
when the receiver steps. A step of a process is its next call, so
fairness per process is fairness of its program counter.

`ReadAndCount` and `SorParser` are one process each, and assume the same of it.
What `AnswerGiven` and `TableParsed` then say is that no loop over a buffer, a
bucket or a file runs for ever. `End` stutters once the process has ended, so
that deadlock means a step that is missing.

## Proofs

Every invariant that a run checks is also a theorem, for every value of the
constants; so is that the cluster, given the rows, and a node on its own, given
the bytes, implement `DistinctWords`. A theorem
rests on the named `ASSUME`s of the modules (which TLC evaluates in every run)
and, where it says so, on hypotheses about the outcomes of the build. Proofs
have one step per action; the inductive invariants below are what they need
beyond the property itself.

### WordCountProofs

For every number of nodes, chunk size, set of texts, width of the integers and
every choice of outcomes:

* `TypeCorrect`: `Spec => []TypeOK`. That a report is a frame of counts needs
  `Reporting`: a client in `report` has put its counts into its store.
* `RowsDealtOnce`: `Spec => []NoRowTwice`. `DealtBefore` says that every row in a
  store or on its way is below `next * RowsPerChunk`. A chunk's rows are not below
  it (`ChunkIsNew`), so what is dealt is new; `SendCarries`, `ReceiveCarries` and
  `CloseCarries` say what the three operations on a mailbox do to the rows under
  way, and every action uses one of them.
* `CountsAreFinal`: `Spec => NoFrameReplaced`, and `EveryFrameCollected`:
  `Spec => []ReduceHasEveryFrame`. Node 0 counts the messages it receives and
  never looks whether a client has reported before. `CountsInv` is why that is
  enough: the counts of a client are not yet sent, or under way in exactly one
  message, or in the store of node 0, and never two of these; so the number of
  messages received is the number of clients in the store, and it reaches
  `NumNodes - 1` only when all are there.
* `RowsArrive`: `ConversionsExact => (Spec => []NoRowLost)`, and
  `ClientsCountTheirShare`: `ConversionsExact => (Spec => []CountsOwnShare)`. Two
  computations on different machines agree: node 0 deals chunk `c` to node
  `c % NumNodes`, and a client works out from its own copy of the text how many
  chunks will reach it. `SharesInv` says that `selectedNode` is
  `next % NumNodes`; that a client which has not failed has received, or has
  waiting, one message for each of its chunks before `next`; and that those
  messages and its store hold all the rows of these chunks and no others.
* `EndedAreNotSentTo`: `ConversionsExact => (Spec => []NoSendToEnded)`, whatever the
  sockets and the freed words do and whoever fails. `RolesInv` adds to `SharesInv` and
  `CountsInv` that node 0 has heard every client before it returns; a client that
  returns has received all its chunks, so no turn of node 0 is left for it. (That no
  process fails at all would need sockets that stay open, which `application.h:18`
  closes; it is not claimed.)

* `AnswerCorrectAlways`: `Spec => AnswerCorrect`, the cluster implements
  `DistinctWords`, whoever fails and in whatever order counts arrive. `AnswerInv`:
  whatever counts of a node are in a store or on their way are the counts of all the
  rows that fall to it (`HeldCounts`), and node 0 answers last of all. Only `Reduce`
  answers. `PartsAdd` is the lemma about its sum: numbers of rows, added up over the
  nodes in any order, are the number of all of them, because each row has one node.
  The licence `DistinctWords` takes with empty rows is used: those dealt to a client
  are lost. Hypotheses are `ConversionsExact` and `LinesHold`: a line of a message
  has room for a chunk and for the different words of a text, which is so for chunks
  and vocabularies of less than 10000 characters. Run
  `WordCountLongLines` shows what happens where it has not.

`ConversionsExact` is the hypothesis that the number of chunks of a text keeps its
value through `size_t` and `int`, as it does below 2^31 rows; nothing is asked of
a text without words, whose number of chunks does not (`wordcount.h:102`).

### LinusProofs

For every number of nodes and stages, any graph of commits, chunk size and
outcome:

* `TypesKept`: `Spec => []TypeOK`.
* `StagesDoNotOverlap`: `Spec => []ServerInOrder`, and `ClientsAgree`:
  `Spec => []ClientInOrder`. Messages have no stage; that a fast client's never
  meets the wrong receive is a matter of counting. `LinusInv` says, for every
  client, that it waits for its number of chunks, or takes chunks, or sends its
  deltas, or is exactly one stage ahead (`ClientInv`), with what is in its mailbox
  in each case; that the deltas merged and those waiting are as many as the clients
  have sent in this stage (`DeltasCounted`); and that all of them are of it. Node 0
  leaves the stage when it has merged `2 * (NumNodes - 1)`, so nothing is left over.
* `DealsApart`: `Spec /\ []ChunkFits => []NoUserTwice`. `ChunkFits` says that the
  chunk node 0 is about to send fits the line buffer; a chunk that does not may end
  in digits that are a user in another node's frame (the table above has the run).
  `DealInv` gives every user held or under
  way to the node whose turn it was (`HeldInTurn`); mailboxes and frames of the
  stage before have been cleared when a new deal begins.
* `PublishedIsEntered`: `Spec => []SetsArePublished`. `SetsInv` follows the sets of
  node 0 through a stage: which part of the new users and projects is entered at
  each of its phases, and that a frame in the store is never replaced.
* `EndedAreNotSentTo`: `Spec => []NoSendToEnded`, without any hypothesis on sockets or
  memory. The step is that a client which node 0 has still to tell its number of chunks
  or to deal to cannot have left its last stage (`TargetTakesPart`), and that a client
  which still has to send its deltas is one node 0 waits for (`ServerIsAlive`).

With at most two nodes, and otherwise as general:

* `MergeTakesItsSet`: `Spec => MergeGathersItsSet`. `TurnsInv`: the i-th delta
  waiting, counted from the first of the stage, is of projects exactly if i is 1.
  There is one client, and it sends its projects before its users. With three
  nodes one client may send both of its deltas before the other sends any
  (`LinusMixedMerge`), so the hypothesis cannot be dropped.
* `TwoNodesAnswer`: `Spec /\ []NothingCut => AnswerCorrect`, the cluster implements
  `Collaborators`, whoever fails and whenever, and whether the set that `UsersTagger`
  reads is intact or recycled. Publishing the users of a stage is `Widen`
  (`WidenStep`); no other step changes what is published (`CircleSteps`).
  `AnswerInv` is what is needed between two of them: the users dealt to a node are
  all in its frame or on their way (`ArrivesInv`), so that together the nodes have
  every new user (`AllDealt`); no projects are lost by tagging only the new users,
  because those of all older users are published (`Basis`); and what a node has
  tagged, sent or merged lies between the projects of its own share and the next
  circle (`FoundInv`, with `CoversShare` for a node). For the users, what a node may
  have tagged at most is `Reach`: their authors, or all committers where the set may
  have been recycled. A client tags anew a project it has not heard of although
  node 0 has it, and that does no harm.

  The hypotheses are `TwoNodesExact`: at most two nodes; `CommitsInRange`, every
  commit names a user and a project of the frames (`dataframe.h:353`);
  `NumbersExact`, the number of chunks of a frame with rows keeps its value through
  `int`; and `NothingCut`, that as long as the run goes every chunk and delta about to
  be sent fits its line buffer (`serial.h:189`). Each is needed: without it TLC finds
  a wrong answer, with three nodes, with `IntBits = 2`, or as the table of
  divergences says for the others. Nothing is asked of a frame without rows, which is
  dealt as chunks that are empty.

### StartupProofs

For every number of nodes and any order of launching, from one invariant
(`StartupInv`): the clients in the table are as many as have registered; every
client that waits is either in the table or has one `Register` under way; and a
directory is in the mailbox of a client exactly when its turn has passed and it
has not taken it.

* `TypesKept`, `DirectoryMeetsWaiting` (`DirectoryExpected`) and
  `ClientsToldTheSame` (`DirectoriesAgree`) hold for any ports.
* `DirectoriesCorrect` and `ServerNeverFails` hold when all nodes listen on one port
  (`OnePort`), the way the program is started by its makefile; with different ports
  they do not (run `StartupPortOrder`).

### FileReaderProofs

For every size of the buffer, every set of files and whatever the memory behind
the buffer holds:

* `BufferIsFileAlways`: `Spec => []BufferIsFile`. `BufferInv`: the buffer never holds
  more than has been read (`end_ <= pos`), feof is set only when everything has
  been, and a word begins before the byte that is looked at. `FillCopies` is the
  lemma about `fillBuffer_`: the bytes that were kept are the same bytes of the
  file as before, only their place in the buffer changed.
* `RowIsWholeWordAlways`: `Spec => []RowIsWholeWord`. `WordInv` adds that the word
  read so far is letters throughout and that nothing of the same word lies before
  it, also where the reader skips. The hard step is a refill in the middle of a
  word: `WordHasRoom` shows that on a regular file it reads at least one byte,
  because otherwise the word would be at the end of the file, or as long as the
  buffer.

### SIMapProofs and ReadAndCountProofs

`SIMapProofs` is about the map as a value, for every capacity, any words and any
hashes. The operators it is made of are folds: `FoldSteps` and `SequenceExists`
give the values of a fold one after the other, by induction over the subsets of
`1 .. c` (`SubsetInduction`), and everything about `Hash`, `Pairs` and `Grow` goes
through them. `SetKeeps` is the result: `Set` of a key gives a sound map
(`GoodMap`) that finds this key with its value and every other as before, through
a `Grow` that files every pair anew (`GrowKeeps`). `PairsList` says that the pairs
of a map are its keys, each once; `PairsInOrder` where the pairs of a bucket are
among all of them.

`ReadAndCountProofs` carries that through the program, from the bytes to the
printed number:

* `RowsAreWordsAlways`: `RunSpec => []RowsAreWords`. `RowsInv` says how far the rows
  are: as many as there are words starting before `Current`, the byte from which on
  no word has become a row. `RunReads` shows that `RunSpec` implements `Spec` of
  `FileReader`, so that its theorems hold here.
* `MapCountsAlways`, `MapSoundAlways`, `EveryPairOnceAlways` and `RunTypeCorrect`,
  from `RunInv`: the map has the tallies of the rows so far (`MappedInv`), the cursor
  of `Summer` is at the place of pair number `seen` (`SummedInv`), and the second map
  holds the first pairs of the first (`ReducedInv`). In particular `v()` is never
  called where there is no pair.
* `AnswerIsRightAlways`: the size printed is the number of different words.
* `AnswerCorrectAlways`: `RunSpec => AnswerCorrect`. A step of the node is a step of
  `DistinctWords` or a stutter: only the last one of `reduce` answers, with the right
  tally (`TallyIsRight`), and nothing is taken back.

### SorParserProofs

For every file, length of the buffer, and whenever a read fails:

* `LinesComeInOrder`: `Spec => []LinesInOrder`. `ReaderInv` says that the buffer is
  what was read last of the file, what is kept of a line is its beginning, and the
  lines returned are as many as start before it; in each of the three passes.
* `GuessesAreNarrowest`: `Spec => []GuessIsNarrowest`. `GuessInv`: exactly the types
  from the guess upward hold what has been looked at (`Exact`), which does not depend
  on the order of the lines. It is about columns whose guessed lines are what they
  look like (`AsWritten`): no quoted string with a digit, and no integer too wide for
  an int.
* `TablesAreKept`: `Spec => []TableKept`, from `TableInv`, with the lemma that a column
  is appended one cell for every line. A cell of a table has the value of its field in
  the narrowest type that fits the column (`Value`): for bits and ints the number
  itself, so that the narrowing of `toInt` changes nothing there; for floats `atof` of
  the field, which rounds. It holds for any width of int and any `atof`.
* `TypesKept`: `Spec => []TypeOK`, with `ShapeInv` for the lengths of lines and columns.

### What is only model-checked

* Liveness and `ENABLED`, which are beyond the prover: `AllDone`, `AnswerGiven`,
  `RegisteredRun`, `TableParsed`.

Every other property of a passing run is a theorem.

## What is not modelled

* The bytes of messages: the receive buffer has no terminator, and the parsing
  constructors may see trailing bytes. The modules take a message to arrive as it
  was sent, up to what the line buffer cuts off.
* The 500 slots of the store, and who owns keys, frames, rows and words, beyond
  the outcomes named above. A run of an application uses a handful of slots.
* `Map::erase` and the other methods of columns, arrays and sets that no program
  calls; of `column_prov.h` everything but the enumeration of types, since its
  columns are compiled and never made.
* The text of a field of the SoR format: which strings are numbers is given by
  its kind, and which float a text is read as by the constant `atof`. `LineReader`
  with a start or an end inside the file, which its only caller does not use.
* Copies of the file that differ between nodes: every node reads the same text.
* A `long` that overflows in `toInt` (more than 18 digits).
* Words that change when a row is deleted, inside one node: `ReadAndCount` takes
  them to survive, and `WordCount` has the other outcomes.
* Flags, printing, wrappers, and code no program uses (`thread.h`, `demo.h`).

## Plan

1. `Network`, `Startup` (done).
2. `Chunks`, `WordCount`, its abstract specification and first theorems (done).
3. `Linus` and its abstract specification (done).
4. `SIMap`, `FileReader` and their composition up to the printed answer (done).
5. `LineReader` and `SorParser` (done).
6. Proofs of every invariant of the runs, and of the refinements of
   `DistinctWords` by the cluster and by one node, and of `Collaborators` by
   `Linus` with two nodes (done).
7. Next: `Wire`, the text form of `Status`, `Register` and `Directory`, and `KVStore`
   with frame ownership.
