----------------------------- MODULE WordCount -----------------------------
(* The distributed word count (src/applications/wordcount.h) on the nodes   *)
(* of one cluster: node 0 deals the rows of the text to all nodes chunk by  *)
(* chunk, every node counts the words of its rows, the clients send their   *)
(* counts back, and node 0 adds them up.                                    *)
(*                                                                          *)
(* A client is not told how many chunks to expect: it reads its own copy of *)
(* the file and works the number out.                                       *)
(*                                                                          *)
(* Init is the cluster client_init and server_init leave (module Startup).  *)
(* The constructor of Application then closes the listening sockets; the    *)
(* rows that chunk, append_chunk and map delete own the words of the frame  *)
(* they come from; and the store deletes keys that are members of the       *)
(* application.  ListenerOpen and FreedMemory say which of the outcomes a   *)
(* run considers: FALSE and "aborts" are what the build does, TRUE and      *)
(* "intact" what the comments of the code ask for.  (A freed word that reads *)
(* as another word is not an outcome of the model: any answer could follow.) *)
(*                                                                          *)
(* A frame of words is the set of the row numbers of the text it holds; the *)
(* invariant NoRowTwice is what makes a set enough.  A frame of counts maps *)
(* every word to its count, 0 when the word has no row.                     *)
EXTENDS Network, Chunks, FiniteSetsExt

CONSTANTS
    Words,         \* the words of the texts
    EmptyWord,     \* the row FileReader makes of a punctuation character
    Junk,          \* the tokens of a counts column read as words
    NoFrame,       \* a null DataFrame pointer
    Texts,         \* the files the program may be run on
    LineRows,      \* rows of a serialized column that fit in its line buffer
    Stump,         \* Stump[t][r]: what fits of row r of text t, if it is the next
    ListenerOpen,  \* whether run_ may find the listening sockets open
    FreedMemory    \* what using or freeing freed memory may do

ASSUME WordCountAssumption ==
    /\ EmptyWord \in Words
    /\ Junk \notin Words
    /\ NoFrame \notin [Words \union {Junk} -> Nat]
    /\ \A t \in Texts : /\ IsFiniteSet(DOMAIN t)
                        /\ DOMAIN t = 0 .. Cardinality(DOMAIN t) - 1
                        /\ t \in [DOMAIN t -> Words]
                        /\ Stump[t] \in [DOMAIN t -> Words]
    /\ LineRows \in Nat
    /\ ListenerOpen \subseteq BOOLEAN
    /\ FreedMemory \subseteq {"intact", "aborts"}

VARIABLES
    pc,            \* pc[n]: where run_ is on node n
    text,          \* the word frame fromVisitor reads from the file
    next,          \* j, the next chunk the server deals
    selectedNode,  \* whose turn it is
    received,      \* received[n]: messages n has taken in its current loop
    data,          \* data[n]: the frame under key "data" in the store of n
    kv,            \* kv[n][m]: the frame under key "wc-map-m" in that store
    all,           \* the map reduce prints the size of, NoFrame until then
    deserted       \* who waits at a connection whose sender died before it wrote

vars == <<netVars, pc, text, next, selectedNode, received, data, kv, all, deserted>>

Rows == DOMAIN text
Terms == Words \union {Junk}
Frames == [Terms -> Nat]

---------------------------------------------------------------------------
(* What a message carries.                                                  *)

(* The word row r arrives as: Status::serialize cuts every column at the    *)
(* length of its line buffer, in the middle of a word, and of the rows      *)
(* behind the cut nothing is left.                                          *)
Place(r) == r - (r \div RowsPerChunk) * RowsPerChunk
Sent(r) ==
    IF Place(r) < LineRows THEN text[r]
    ELSE IF Place(r) = LineRows THEN Stump[text][r]
    ELSE EmptyWord

(* The strtok calls of the receiving constructor skip an empty word.        *)
Survives(r) == Sent(r) # EmptyWord

ChunkMsg(c) == [kind |-> "chunk", rows |-> {r \in Chunk(c, Rows) : Survives(r)}]

(* The word of row r as node n has it.                                      *)
WordAt(n, r) == IF n = Server THEN text[r] ELSE Sent(r)

(* A counts frame has a column of words and one of numbers.  When the words *)
(* overrun their line, the mark that ends the column is cut off with them,  *)
(* and the receiver takes both columns for one column of words: Junk is the *)
(* numbers, and what is left of the last word, run into the next column.    *)
Carried(frame) ==
    LET present == {w \in Terms : frame[w] > 0} \ {EmptyWord}
    IN  IF Cardinality(present) <= LineRows
        THEN {[w \in Terms |-> IF w \in present THEN frame[w] ELSE 0]}
        ELSE {[w \in Terms |-> IF w \in kept \union {Junk} THEN 1 ELSE 0] :
                  kept \in kSubset(LineRows, present)}

---------------------------------------------------------------------------
Init ==
    /\ \E open \in ListenerOpen : listening = [n \in Node |-> open]
    /\ inbox = [n \in Node |-> << >>]
    /\ fds = [n \in Node |-> 0]
    /\ pc = [n \in Node |-> IF n = Server THEN "deal" ELSE "take"]
    /\ text \in Texts
    /\ next = 0
    /\ selectedNode = Server
    /\ received = [n \in Node |-> 0]
    /\ data = [n \in Node |-> {}]
    /\ kv = [n \in Node |-> [m \in Node |-> NoFrame]]
    /\ all = NoFrame
    /\ deserted = {}

Goto(n, label) == pc' = [pc EXCEPT ![n] = label]

(* The process ends: by returning from main, or by exit(-1), a failed       *)
(* assertion or a signal.                                                   *)
End(n, label) == Goto(n, label) /\ CloseSocket(n)
Dies(n) ==
    /\ End(n, "failed")
    /\ UNCHANGED <<text, next, selectedNode, received, data, kv, all>>
Fail(n) == Dies(n) /\ UNCHANGED deserted

(* A step that uses the words a deleted row has freed.                      *)
Intact == "intact" \in FreedMemory
MemoryFault(n) == "aborts" \in FreedMemory /\ Fail(n)

(* The same in serialize, which send_m calls when it has connected already: *)
(* the target is left with an empty connection.                             *)
FaultInSend(n, to) ==
    /\ "aborts" \in FreedMemory
    /\ Connects(n, to)
    /\ Dies(n)
    /\ deserted' = deserted \union {to}

(* recv_m returns an uninitialised pointer for such a connection, which     *)
(* ends the process.  (How many messages it gets before, is left open.)     *)
TakesEmpty(n) == n \in deserted /\ Fail(n)

(* A slip: a word seen before is not counted again.                         *)
CountOnce(n) ==
    [w \in Terms |-> IF \E r \in data[n] : WordAt(n, r) = w THEN 1 ELSE 0]

(* The words n counts in local_count.                                       *)
CountOf(n) ==
    [w \in Terms |-> Cardinality({r \in data[n] : WordAt(n, r) = w})]

---------------------------------------------------------------------------
(* Node 0 deals the chunks.  j is a size_t, num_chunks an int.              *)
Dealing == pc[Server] = "deal" /\ next < AsSize(NumChunks(Cardinality(Rows)))

DealKeep ==
    /\ Dealing
    /\ selectedNode = Server
    /\ \/ /\ Intact
          /\ data' = [data EXCEPT ![Server] = @ \union Chunk(next, Rows)]
          /\ next' = next + 1
          /\ selectedNode' = NextNode(selectedNode, NumNodes)
          /\ UNCHANGED <<netVars, pc, text, received, kv, all, deserted>>
       \/ MemoryFault(Server)

DealSend ==
    /\ Dealing
    /\ selectedNode # Server
    /\ \/ /\ Intact
          /\ Send(Server, selectedNode, ChunkMsg(next))
          /\ next' = next + 1
          /\ selectedNode' = NextNode(selectedNode, NumNodes)
          /\ UNCHANGED <<pc, text, received, data, kv, all, deserted>>
       \/ SendFails(Server, selectedNode) /\ Fail(Server)
       \/ MemoryFault(Server)
       \/ FaultInSend(Server, selectedNode)

(* Slips: one chunk too few; the turns start at node 1.                     *)
NumReceivedShort(n) == Share(n, NumChunks(Cardinality(Rows)), NumNodes) - 1
NumReceivedShifted(n) ==
    Share((n + 1) % NumNodes, NumChunks(Cardinality(Rows)), NumNodes)

(* The number of chunks client n works out for itself: i and num_chunks are *)
(* ints, so a negative number of chunks is none.                            *)
NumReceived(n) == Share(n, NumChunks(Cardinality(Rows)), NumNodes)

TakeChunk(n) ==
    /\ pc[n] = "take"
    /\ received[n] < NumReceived(n)
    /\ \/ /\ Intact
          /\ Receive(n)
          /\ data' = [data EXCEPT ![n] = @ \union Head(inbox[n]).rows]
          /\ received' = [received EXCEPT ![n] = @ + 1]
          /\ UNCHANGED <<pc, text, next, selectedNode, kv, all, deserted>>
       \/ ReceiveFails(n) /\ Fail(n)
       \/ TakesEmpty(n)
       \/ inbox[n] # << >> /\ MemoryFault(n)

(* local_count: the counts of node n go into its store under its own key.   *)
LocalCount(n) ==
    /\ \/ n = Server /\ pc[n] = "deal" /\ ~Dealing
       \/ n # Server /\ pc[n] = "take" /\ received[n] >= NumReceived(n)
    /\ \/ /\ Intact
          /\ kv' = [kv EXCEPT ![n][n] = CountOf(n)]
          /\ Goto(n, IF n = Server THEN "collect" ELSE "report")
          /\ UNCHANGED <<netVars, text, next, selectedNode, received, data, all,
                         deserted>>
       \/ MemoryFault(n)

(* A client sends its counts to node 0; then run_ and main return.          *)
Report(n) ==
    /\ pc[n] = "report"
    /\ \/ /\ Intact
          /\ \E counts \in Carried(kv[n][n]) :
                Send(n, Server, [kind |-> "counts", sender |-> n,
                                 counts |-> counts])
          /\ Goto(n, "leave")
          /\ UNCHANGED <<text, next, selectedNode, received, data, kv, all,
                         deserted>>
       \/ SendFails(n, Server) /\ Fail(n)
       \/ FaultInSend(n, Server)

(* main deletes the application and returns.  The keys "data" and           *)
(* "words-all" are members of the application: they are gone when the       *)
(* destructor of the store deletes them.                                    *)
Leave(n) ==
    /\ pc[n] = "leave"
    /\ \/ /\ Intact
          /\ End(n, "done")
          /\ UNCHANGED <<text, next, selectedNode, received, data, kv, all,
                         deserted>>
       \/ MemoryFault(n)

(* A slip: the counts go under the loop index, which starts at 0.           *)
CollectByIndex ==
    /\ pc[Server] = "collect"
    /\ received[Server] < NumNodes - 1
    /\ Receive(Server)
    /\ kv' = [kv EXCEPT ![Server][received[Server]] = Head(inbox[Server]).counts]
    /\ received' = [received EXCEPT ![Server] = @ + 1]
    /\ UNCHANGED <<pc, text, next, selectedNode, data, all, deserted>>

(* Node 0 puts the counts of each client into its store, in the order they  *)
(* arrive.                                                                  *)
Collect ==
    /\ pc[Server] = "collect"
    /\ received[Server] < NumNodes - 1
    /\ \/ /\ Receive(Server)
          /\ LET msg == Head(inbox[Server])
             IN  kv' = [kv EXCEPT ![Server][msg.sender] = msg.counts]
          /\ received' = [received EXCEPT ![Server] = @ + 1]
          /\ UNCHANGED <<pc, text, next, selectedNode, data, all, deserted>>
       \/ ReceiveFails(Server) /\ Fail(Server)
       \/ TakesEmpty(Server)

(* reduce: merge the frame of every node into one map.  A missing frame is  *)
(* a null pointer, and the words of the own frame were freed with the map   *)
(* and the rows they came from.                                             *)
Reduce ==
    /\ pc[Server] = "collect"
    /\ received[Server] >= NumNodes - 1
    /\ \/ /\ Intact
          /\ \A m \in Node : kv[Server][m] # NoFrame
          /\ all' = [w \in Terms |->
                        MapThenSumSet(LAMBDA m : kv[Server][m][w], Node)]
          /\ Goto(Server, "leave")
          /\ UNCHANGED <<netVars, text, next, selectedNode, received, data, kv,
                         deserted>>
       \/ (\E m \in Node : kv[Server][m] = NoFrame) /\ Fail(Server)
       \/ MemoryFault(Server)

---------------------------------------------------------------------------
ServerStep == DealKeep \/ DealSend \/ Collect \/ Reduce
ClientStep(n) == TakeChunk(n) \/ Report(n)

Step(n) ==
    \/ n = Server /\ ServerStep
    \/ n \in Client /\ ClientStep(n)
    \/ LocalCount(n)
    \/ Leave(n)

(* Every process has ended.                                                 *)
Finished ==
    /\ \A n \in Node : pc[n] \in {"done", "failed"}
    /\ UNCHANGED vars

Next == (\E n \in Node : Step(n)) \/ Finished

Spec == Init /\ [][Next]_vars

(* The operating system keeps running every process.                        *)
FairSpec == Spec /\ \A n \in Node : WF_vars(Step(n))

---------------------------------------------------------------------------
Labels == {"deal", "take", "collect", "report", "leave", "done", "failed"}
ChunkMessage == [kind : {"chunk"}, rows : SUBSET Rows]
CountsMessage == [kind : {"counts"}, sender : Client, counts : Frames]

(* Chunks go to clients, counts to node 0.                                  *)
Message(n) == IF n = Server THEN CountsMessage ELSE ChunkMessage

(* The state of the cluster has the expected shape.                         *)
TypeOK ==
    /\ listening \in [Node -> BOOLEAN]
    /\ DOMAIN inbox = Node
    /\ \A n \in Node : inbox[n] \in Seq(Message(n))
    /\ fds \in [Node -> Nat]
    /\ pc \in [Node -> Labels]
    /\ text \in Texts
    /\ next \in Nat
    /\ selectedNode \in Node
    /\ received \in [Node -> Nat]
    /\ data \in [Node -> SUBSET Rows]
    /\ kv \in [Node -> [Node -> Frames \union {NoFrame}]]
    /\ all = NoFrame \/ DOMAIN all = Terms
    /\ deserted \subseteq Node

(* The rows under way to n in its i-th pending message.                     *)
Carries(n, i) == IF inbox[n][i].kind = "chunk" THEN inbox[n][i].rows ELSE {}
Pending(n) == 1 .. Len(inbox[n])

DataApart == \A m, n \in Node : m # n => data[m] \intersect data[n] = {}
PendingNew ==
    \A m, n \in Node : \A i \in Pending(n) : Carries(n, i) \intersect data[m] = {}
PendingApart ==
    \A m, n \in Node : \A i \in Pending(m), k \in Pending(n) :
        <<m, i>> # <<n, k>> => Carries(m, i) \intersect Carries(n, k) = {}

(* No row of the text is ever in two places - in two stores, in a store and *)
(* on its way, or in two messages - so no word is counted twice.            *)
NoRowTwice == DataApart /\ PendingNew /\ PendingApart

Turn(r) == (r \div RowsPerChunk) % NumNodes
NobodyFails == \A n \in Node : pc[n] # "failed"

(* While no process has failed, every row dealt so far is in a store or on  *)
(* its way, but for the rows of clients that the encoding of a message      *)
(* drops: none is left behind in the queue of a client that has stopped.    *)
NoRowLost ==
    NobodyFails =>
        \A r \in Rows : r < next * RowsPerChunk =>
            \/ \E n \in Node : r \in data[n]
            \/ \E n \in Node : \E i \in Pending(n) : r \in Carries(n, i)
            \/ Turn(r) # Server /\ ~Survives(r)

(* A client that has counted has counted exactly the rows of the chunks     *)
(* that fall to it: the number of chunks it worked out from its own copy of *)
(* the file is the number the server deals it.                              *)
CountsOwnShare ==
    \A n \in Client : pc[n] \in {"report", "leave", "done"} =>
        data[n] = {r \in Rows : Turn(r) = n /\ Survives(r)}

(* Processes return from main at different times, and close the sockets the *)
(* others would send to: nobody is ever about to send to one that has       *)
(* returned, whoever has failed.  (The server does, of a file without       *)
(* words: the clients expect no chunk, and it deals as many as size_t has.) *)
NoSendToEnded ==
    Rows # {} =>
        /\ Dealing /\ selectedNode # Server => pc[selectedNode] # "done"
        /\ \A n \in Client : pc[n] = "report" => pc[Server] # "done"

(* When node 0 stops collecting, the frame of every node is in its store:   *)
(* reduce dereferences no null frame.                                       *)
ReduceHasEveryFrame ==
    pc[Server] = "collect" /\ received[Server] >= NumNodes - 1 =>
        \A m \in Node : kv[Server][m] # NoFrame

(* A frame of counts in a store is final: put, which replaces the frame of  *)
(* a known key without a word, never replaces one.                          *)
NoFrameReplaced ==
    [][\A n, m \in Node : kv[n][m] # NoFrame => kv'[n][m] = kv[n][m]]_vars

(* Every process ends, and by returning from main.                          *)
AllDone == <>(\A n \in Node : pc[n] = "done")

(* "Returns the number of different words in a text file"                   *)
(* (report/report.md:39): the size of the map node 0 prints.                *)
DifferentWords ==
    all # NoFrame =>
        Cardinality({w \in Terms : all[w] > 0})
            = Cardinality({text[r] : r \in Rows})

---------------------------------------------------------------------------
(* What the application promises, with the map node 0 prints as the tally.  *)
Promise == INSTANCE DistinctWords
    WITH Words <- Terms, NoAnswer <- NoFrame, tally <- all

(* The cluster gives the one answer for the text: it never publishes a      *)
(* partial or a wrong one ("Returns the number of different words in a text *)
(* file", report/report.md:39).                                             *)
AnswerCorrect == Promise!Spec

============================================================================
