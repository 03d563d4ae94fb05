-------------------------- MODULE WordCountProofs --------------------------
(* Proofs about WordCount, for any number of nodes, any texts, any chunk    *)
(* size, and whatever the network and the freed rows do to the processes.   *)
EXTENDS WordCount, NumberLemmas, FiniteSetTheorems, TLAPS

---------------------------------------------------------------------------
(* TypeOK is not inductive: what a client reports is a frame of counts only *)
(* because local_count has put one into its store.                          *)
Reporting ==
    \A n \in Node : pc[n] = "report" => n \in Client /\ kv[n][n] \in Frames

TypeInv == TypeOK /\ Reporting

(* Node 0 and the others.                                                   *)
LEMMA ServerAndClients ==
    /\ Server \in Node
    /\ Client \subseteq Node
    /\ Server \notin Client
    /\ \A n \in Node : n # Server => n \in Client
BY NumNodesAssumption DEF Server, Client, Node

(* The rows of a text are finitely many natural numbers.                    *)
LEMMA RowsOfText ==
    ASSUME text \in Texts
    PROVE  /\ IsFiniteSet(Rows)
           /\ Rows \subseteq Nat
           /\ text \in [Rows -> Words]
<1>1. /\ IsFiniteSet(DOMAIN text)
      /\ DOMAIN text = 0 .. Cardinality(DOMAIN text) - 1
      /\ text \in [DOMAIN text -> Words]
  BY WordCountAssumption
<1>2. Cardinality(DOMAIN text) \in Nat
  BY <1>1, FS_CardinalityType
<1>3. DOMAIN text \subseteq Nat
  BY <1>1, <1>2
<1> QED
  BY <1>1, <1>3 DEF Rows

(* local_count makes a frame of counts.                                     *)
LEMMA CountOfTyped ==
    ASSUME TypeOK, NEW n \in Node
    PROVE  CountOf(n) \in Frames
<1>1. \A w \in Terms : Cardinality({r \in data[n] : WordAt(n, r) = w}) \in Nat
  <2> SUFFICES ASSUME NEW w \in Terms
               PROVE  Cardinality({r \in data[n] : WordAt(n, r) = w}) \in Nat
    OBVIOUS
  <2>1. {r \in data[n] : WordAt(n, r) = w} \subseteq Rows
    BY DEF TypeOK
  <2>2. IsFiniteSet(Rows)
    BY RowsOfText DEF TypeOK
  <2>3. IsFiniteSet({r \in data[n] : WordAt(n, r) = w})
    BY <2>1, <2>2, FS_Subset
  <2> QED
    BY <2>3, FS_CardinalityType
<1> QED
  BY <1>1 DEF CountOf, Frames

(* What arrives of a frame of counts is a frame of counts.                  *)
LEMMA CarriedTyped ==
    ASSUME NEW frame \in Frames
    PROVE  Carried(frame) \subseteq Frames
BY DEF Carried, Frames

(* A message that carries a chunk has the type of a client's messages.      *)
LEMMA ChunkMsgTyped ==
    ASSUME NEW c
    PROVE  ChunkMsg(c) \in ChunkMessage
BY DEF ChunkMsg, ChunkMessage, Chunk

(* The turn stays within the nodes.                                         *)
LEMMA NextNodeTyped ==
    ASSUME NEW m \in Node
    PROVE  NextNode(m, NumNodes) \in Node
BY NumNodesAssumption DEF NextNode, Node

(* A process that ends disturbs nothing the invariant speaks of.            *)
LEMMA EndTyped ==
    ASSUME TypeInv, NEW n \in Node, NEW label \in {"done", "failed"},
           End(n, label),
           UNCHANGED <<text, next, selectedNode, received, data, kv, all>>,
           deserted' \subseteq Node
    PROVE  TypeInv'
<1>1. inbox' = [inbox EXCEPT ![n] = << >>]
  BY DEF End, CloseSocket
<1>2. \A m \in Node : inbox'[m] \in Seq(Message(m))
  BY <1>1 DEF TypeInv, TypeOK
<1>3. \A m \in Node : Message(m)' = Message(m)
  BY DEF Message, ChunkMessage, CountsMessage, Rows
<1>4. TypeOK'
  BY <1>1, <1>2, <1>3 DEF TypeInv, TypeOK, End, CloseSocket, Goto, Labels, Rows
<1>5. Reporting'
  BY DEF TypeInv, TypeOK, Reporting, End, Goto
<1> QED
  BY <1>4, <1>5 DEF TypeInv

LEMMA DiesTyped ==
    ASSUME TypeInv, NEW n \in Node, Dies(n), deserted' \subseteq Node
    PROVE  TypeInv'
BY EndTyped DEF Dies

(* Whatever goes wrong, the process ends.                                   *)
LEMMA FaultsEnd ==
    ASSUME NEW n \in Node
    PROVE  /\ Fail(n) => Dies(n)
           /\ MemoryFault(n) => Dies(n)
           /\ TakesEmpty(n) => Dies(n)
           /\ \A to : FaultInSend(n, to) => Dies(n)
BY DEF Fail, MemoryFault, TakesEmpty, FaultInSend

(* Sending and receiving keep the mailboxes well typed.                     *)
LEMMA SendTyped ==
    ASSUME TypeOK, text' = text,
           NEW n \in Node, NEW to \in Node, NEW msg \in Message(to),
           Send(n, to, msg)
    PROVE  /\ DOMAIN inbox' = Node
           /\ \A m \in Node : inbox'[m] \in Seq(Message(m))
           /\ fds' \in [Node -> Nat]
           /\ listening' \in [Node -> BOOLEAN]
BY DEF TypeOK, Send

LEMMA ReceiveTyped ==
    ASSUME TypeOK, text' = text, NEW n \in Node, Receive(n)
    PROVE  /\ Head(inbox[n]) \in Message(n)
           /\ DOMAIN inbox' = Node
           /\ \A m \in Node : inbox'[m] \in Seq(Message(m))
           /\ fds' \in [Node -> Nat]
           /\ listening' \in [Node -> BOOLEAN]
BY DEF TypeOK, Receive

---------------------------------------------------------------------------
LEMMA InitTyped == Init => TypeInv
<1> SUFFICES ASSUME Init PROVE TypeInv
  OBVIOUS
<1>1. Server \in Node
  BY NumNodesAssumption DEF Server, Node
<1>2. listening \in [Node -> BOOLEAN]
  BY WordCountAssumption DEF Init
<1>3. TypeOK
  BY <1>1, <1>2 DEF Init, TypeOK, Labels
<1>4. Reporting
  BY DEF Init, Reporting
<1> QED
  BY <1>3, <1>4 DEF TypeInv

LEMMA NextTyped == TypeInv /\ [Next]_vars => TypeInv'
<1> SUFFICES ASSUME TypeInv, [Next]_vars PROVE TypeInv'
  OBVIOUS
<1> USE DEF TypeInv
<1>s. Server \in Node /\ Client \subseteq Node
  BY NumNodesAssumption DEF Server, Client, Node
<1>m. text' = text
  BY DEF Next, Finished, Step, ServerStep, ClientStep, DealKeep, DealSend,
         Collect, Reduce, TakeChunk, Report, LocalCount, Leave, MemoryFault,
         FaultInSend, TakesEmpty, Fail, Dies, vars
<1>d. deserted' \subseteq Node
  BY <1>s DEF Next, Finished, Step, ServerStep, ClientStep, DealKeep, DealSend,
         Collect, Reduce, TakeChunk, Report, LocalCount, Leave, MemoryFault,
         FaultInSend, TakesEmpty, Fail, TypeOK, vars
<1>r. /\ Rows' = Rows
      /\ \A m \in Node : Message(m)' = Message(m)
  BY <1>m DEF Message, ChunkMessage, CountsMessage, Rows
<1>1. CASE DealKeep
  <2>1. CASE Dies(Server)
    BY <2>1, <1>s, <1>d, DiesTyped
  <2>2. CASE /\ data' = [data EXCEPT ![Server] = @ \union Chunk(next, Rows)]
             /\ next' = next + 1
             /\ selectedNode' = NextNode(selectedNode, NumNodes)
             /\ UNCHANGED <<netVars, pc, text, received, kv, all, deserted>>
    <3>1. data' \in [Node -> SUBSET Rows]
      BY <2>2, <1>s DEF TypeOK, Chunk
    <3>2. selectedNode' \in Node
      BY <2>2, NextNodeTyped DEF TypeOK
    <3>3. TypeOK'
      BY <2>2, <3>1, <3>2, <1>r DEF TypeOK, netVars
    <3>4. Reporting'
      BY <2>2 DEF Reporting
    <3> QED
      BY <3>3, <3>4
  <2> QED
    BY <1>1, <2>1, <2>2, <1>s, FaultsEnd DEF DealKeep
<1>2. CASE DealSend
  <2>1. CASE Dies(Server)
    BY <2>1, <1>s, <1>d, DiesTyped
  <2>2. CASE /\ Send(Server, selectedNode, ChunkMsg(next))
             /\ next' = next + 1
             /\ selectedNode' = NextNode(selectedNode, NumNodes)
             /\ UNCHANGED <<pc, text, received, data, kv, all, deserted>>
    <3>1. selectedNode \in Node /\ ChunkMsg(next) \in Message(selectedNode)
      BY <1>2, ChunkMsgTyped DEF DealSend, TypeOK, Message
    <3>2. /\ DOMAIN inbox' = Node
          /\ \A m \in Node : inbox'[m] \in Seq(Message(m))
          /\ fds' \in [Node -> Nat]
          /\ listening' \in [Node -> BOOLEAN]
      BY <2>2, <3>1, <1>s, <1>m, SendTyped
    <3>3. selectedNode' \in Node
      BY <2>2, NextNodeTyped DEF TypeOK
    <3>4. TypeOK'
      BY <2>2, <3>2, <3>3, <1>r DEF TypeOK
    <3>5. Reporting'
      BY <2>2 DEF Reporting
    <3> QED
      BY <3>4, <3>5
  <2> QED
    BY <1>2, <2>1, <2>2, <1>s, FaultsEnd DEF DealSend
<1>3. ASSUME NEW n \in Client, TakeChunk(n)
      PROVE  TypeInv'
  <2>1. CASE Dies(n)
    BY <2>1, <1>s, <1>d, DiesTyped
  <2>2. CASE /\ Receive(n)
             /\ data' = [data EXCEPT ![n] = @ \union Head(inbox[n]).rows]
             /\ received' = [received EXCEPT ![n] = @ + 1]
             /\ UNCHANGED <<pc, text, next, selectedNode, kv, all, deserted>>
    <3>1. /\ Head(inbox[n]) \in Message(n)
          /\ DOMAIN inbox' = Node
          /\ \A m \in Node : inbox'[m] \in Seq(Message(m))
          /\ fds' \in [Node -> Nat]
          /\ listening' \in [Node -> BOOLEAN]
      BY <2>2, <1>s, <1>m, ReceiveTyped
    <3>2. Head(inbox[n]).rows \subseteq Rows
      BY <3>1 DEF Message, ChunkMessage, Client
    <3>3. data' \in [Node -> SUBSET Rows]
      BY <2>2, <3>2, <1>s DEF TypeOK
    <3>4. received' \in [Node -> Nat]
      BY <2>2, <1>s DEF TypeOK
    <3>5. TypeOK'
      BY <2>2, <3>1, <3>3, <3>4, <1>r DEF TypeOK
    <3>6. Reporting'
      BY <2>2 DEF Reporting
    <3> QED
      BY <3>5, <3>6
  <2> QED
    BY <1>3, <2>1, <2>2, <1>s, FaultsEnd DEF TakeChunk
<1>4. ASSUME NEW n \in Node, LocalCount(n)
      PROVE  TypeInv'
  <2>1. CASE Dies(n)
    BY <2>1, <1>d, DiesTyped
  <2>2. CASE /\ kv' = [kv EXCEPT ![n][n] = CountOf(n)]
             /\ Goto(n, IF n = Server THEN "collect" ELSE "report")
             /\ UNCHANGED <<netVars, text, next, selectedNode, received, data,
                            all, deserted>>
    <3>1. CountOf(n) \in Frames
      BY CountOfTyped
    <3>2. pc' = [pc EXCEPT ![n] = IF n = Server THEN "collect" ELSE "report"]
      BY <2>2 DEF Goto
    <3>3. kv' \in [Node -> [Node -> Frames \union {NoFrame}]]
      BY <2>2, <3>1 DEF TypeOK
    <3>4. pc' \in [Node -> Labels]
      BY <3>2 DEF TypeOK, Labels
    <3>5. TypeOK'
      BY <2>2, <3>3, <3>4, <1>r DEF TypeOK, netVars
    <3>6. Reporting'
      <4> SUFFICES ASSUME NEW m \in Node, pc'[m] = "report"
                   PROVE  m \in Client /\ kv'[m][m] \in Frames
        BY DEF Reporting, Frames, Terms
      <4>1. CASE m = n
        BY <4>1, <2>2, <3>1, <3>2 DEF TypeOK, Client
      <4>2. CASE m # n
        BY <4>2, <2>2, <3>2 DEF TypeOK, Reporting
      <4> QED
        BY <4>1, <4>2
    <3> QED
      BY <3>5, <3>6
  <2> QED
    BY <1>4, <2>1, <2>2, <1>s, FaultsEnd DEF LocalCount
<1>5. ASSUME NEW n \in Client, Report(n)
      PROVE  TypeInv'
  <2>1. CASE Dies(n)
    BY <2>1, <1>s, <1>d, DiesTyped
  <2>2. CASE /\ \E counts \in Carried(kv[n][n]) :
                   Send(n, Server, [kind |-> "counts", sender |-> n,
                                    counts |-> counts])
             /\ Goto(n, "leave")
             /\ UNCHANGED <<text, next, selectedNode, received, data, kv, all, deserted>>
    <3>1. kv[n][n] \in Frames
      BY <1>5, <1>s DEF Report, Reporting
    <3>2. PICK counts \in Frames :
             Send(n, Server, [kind |-> "counts", sender |-> n,
                              counts |-> counts])
      BY <2>2, <3>1, CarriedTyped
    <3>3. [kind |-> "counts", sender |-> n, counts |-> counts]
             \in Message(Server)
      BY DEF Message, CountsMessage
    <3>4. /\ DOMAIN inbox' = Node
          /\ \A m \in Node : inbox'[m] \in Seq(Message(m))
          /\ fds' \in [Node -> Nat]
          /\ listening' \in [Node -> BOOLEAN]
      BY <3>2, <3>3, <1>s, <1>m, SendTyped
    <3>5. pc' \in [Node -> Labels]
      BY <2>2 DEF TypeOK, Goto, Labels
    <3>6. TypeOK'
      BY <2>2, <3>4, <3>5, <1>r DEF TypeOK
    <3>7. Reporting'
      BY <2>2 DEF Reporting, Goto, TypeOK
    <3> QED
      BY <3>6, <3>7
  <2> QED
    BY <1>5, <2>1, <2>2, <1>s, FaultsEnd DEF Report
<1>6. ASSUME NEW n \in Node, Leave(n)
      PROVE  TypeInv'
  BY <1>6, <1>d, EndTyped, DiesTyped, FaultsEnd DEF Leave
<1>7. CASE Collect
  <2>1. CASE Dies(Server)
    BY <2>1, <1>s, <1>d, DiesTyped
  <2>2. CASE /\ Receive(Server)
             /\ LET msg == Head(inbox[Server])
                IN  kv' = [kv EXCEPT ![Server][msg.sender] = msg.counts]
             /\ received' = [received EXCEPT ![Server] = @ + 1]
             /\ UNCHANGED <<pc, text, next, selectedNode, data, all, deserted>>
    <3> DEFINE msg == Head(inbox[Server])
    <3>1. /\ msg \in Message(Server)
          /\ DOMAIN inbox' = Node
          /\ \A m \in Node : inbox'[m] \in Seq(Message(m))
          /\ fds' \in [Node -> Nat]
          /\ listening' \in [Node -> BOOLEAN]
      BY <2>2, <1>s, <1>m, ReceiveTyped
    <3>2. msg.sender \in Client /\ msg.counts \in Frames
      BY <3>1 DEF Message, CountsMessage
    <3>3. kv' = [kv EXCEPT ![Server][msg.sender] = msg.counts]
      BY <2>2
    <3> HIDE DEF msg
    <3>4. kv' \in [Node -> [Node -> Frames \union {NoFrame}]]
      BY <3>2, <3>3, <1>s DEF TypeOK
    <3>5. received' \in [Node -> Nat]
      BY <2>2, <1>s DEF TypeOK
    <3>6. TypeOK'
      BY <2>2, <3>1, <3>4, <3>5, <1>r DEF TypeOK
    <3>7. Reporting'
      BY <2>2, <3>3, <1>s DEF Reporting, TypeOK, Client
    <3> QED
      BY <3>6, <3>7
  <2> QED
    BY <1>7, <2>1, <2>2, <1>s, FaultsEnd DEF Collect
<1>8. CASE Reduce
  <2>1. CASE Dies(Server)
    BY <2>1, <1>s, <1>d, DiesTyped
  <2>2. CASE /\ all' = [w \in Terms |->
                         MapThenSumSet(LAMBDA m : kv[Server][m][w], Node)]
             /\ Goto(Server, "leave")
             /\ UNCHANGED <<netVars, text, next, selectedNode, received, data,
                            kv, deserted>>
    <3>1. DOMAIN all' = Terms
      BY <2>2
    <3>2. pc' \in [Node -> Labels]
      BY <2>2 DEF TypeOK, Goto, Labels
    <3>3. TypeOK'
      BY <2>2, <3>1, <3>2, <1>r DEF TypeOK, netVars, Terms
    <3>4. Reporting'
      BY <2>2 DEF Reporting, Goto, TypeOK
    <3> QED
      BY <3>3, <3>4
  <2> QED
    BY <1>8, <2>1, <2>2, <1>s, FaultsEnd DEF Reduce
<1>9. CASE UNCHANGED vars
  <2>1. TypeOK'
    BY <1>9, <1>r DEF vars, netVars, TypeOK
  <2>2. Reporting'
    BY <1>9 DEF vars, Reporting
  <2> QED
    BY <2>1, <2>2
<1> QED
  BY <1>1, <1>2, <1>3, <1>4, <1>5, <1>6, <1>7, <1>8, <1>9
     DEF Next, Step, ServerStep, ClientStep, Finished

(* The cluster never leaves its expected shape: no chunk reaches node 0, no *)
(* counts reach a client, and the turn of run_ never passes the last node.  *)
THEOREM TypeCorrect == Spec => []TypeOK
<1>1. Spec => []TypeInv
  BY InitTyped, NextTyped, PTL DEF Spec
<1>2. TypeInv => TypeOK
  BY DEF TypeInv
<1> QED
  BY <1>1, <1>2, PTL

---------------------------------------------------------------------------
(* Why no row is ever in two places: chunk j holds rows that are not below  *)
(* j * RowsPerChunk, and every row dealt before it is.                      *)
DealtBefore ==
    /\ \A n \in Node : \A r \in data[n] : r < next * RowsPerChunk
    /\ \A n \in Node : \A i \in Pending(n) : \A r \in Carries(n, i) :
          r < next * RowsPerChunk

RowInv == TypeInv /\ DealtBefore /\ NoRowTwice

(* A chunk is new, and everything dealt with it is below the next one.      *)
LEMMA ChunkIsNew ==
    ASSUME TypeOK, NEW r \in Chunk(next, Rows)
    PROVE  /\ r \in Nat
           /\ ~(r < next * RowsPerChunk)
           /\ r < (next + 1) * RowsPerChunk
<1>1. r \in Rows /\ next * RowsPerChunk <= r /\ r < (next + 1) * RowsPerChunk
  BY DEF Chunk
<1>2. r \in Nat /\ next \in Nat /\ RowsPerChunk \in Nat
  BY <1>1, RowsOfText, ChunksAssumption DEF TypeOK
<1>3. next * RowsPerChunk \in Nat
  BY <1>2
<1> QED
  BY <1>1, <1>2, <1>3

LEMMA DealtGrows ==
    ASSUME TypeOK, NEW r \in Rows, r < next * RowsPerChunk
    PROVE  r < (next + 1) * RowsPerChunk
<1>1. r \in Nat /\ next \in Nat /\ RowsPerChunk \in Nat
  BY RowsOfText, ChunksAssumption DEF TypeOK
<1>2. (next + 1) * RowsPerChunk = next * RowsPerChunk + RowsPerChunk
  BY <1>1
<1>3. next * RowsPerChunk \in Nat
  BY <1>1
<1> QED
  BY <1>1, <1>2, <1>3

(* Rows under way are rows of the text.                                     *)
LEMMA CarriesRows ==
    ASSUME TypeOK, NEW n \in Node, NEW i \in Pending(n)
    PROVE  Carries(n, i) \subseteq Rows
<1>1. inbox[n][i] \in Message(n)
  BY DEF TypeOK, Pending
<1> QED
  BY <1>1 DEF Carries, Message, ChunkMessage, CountsMessage

(* What the three operations on a mailbox do to the rows under way.         *)
LEMMA SendCarries ==
    ASSUME TypeOK, NEW n \in Node, NEW to \in Node, NEW msg, Send(n, to, msg),
           NEW m \in Node, NEW i \in Pending(m)'
    PROVE  \/ i \in Pending(m) /\ Carries(m, i)' = Carries(m, i)
           \/ /\ m = to
              /\ i = Len(inbox[to]) + 1
              /\ Carries(m, i)' = IF msg.kind = "chunk" THEN msg.rows ELSE {}
<1>1. inbox[to] \in Seq(Message(to)) /\ DOMAIN inbox = Node
  BY DEF TypeOK
<1>2. inbox' = [inbox EXCEPT ![to] = Append(inbox[to], msg)]
  BY DEF Send
<1>3. CASE m # to
  BY <1>1, <1>2, <1>3 DEF Pending, Carries
<1>4. CASE m = to
  <2>1. inbox'[to] = Append(inbox[to], msg)
    BY <1>1, <1>2
  <2>2. Len(inbox[to]) \in Nat
    BY <1>1
  <2>3. i \in 1 .. Len(inbox[to]) + 1
    BY <1>1, <1>4, <2>1 DEF Pending
  <2>4. CASE i = Len(inbox[to]) + 1
    <3>1. inbox'[to][i] = msg
      BY <1>1, <2>1, <2>4
    <3> QED
      BY <1>4, <2>4, <3>1 DEF Carries
  <2>5. CASE i \in 1 .. Len(inbox[to])
    <3>1. inbox'[to][i] = inbox[to][i]
      BY <1>1, <2>1, <2>5
    <3> QED
      BY <1>4, <2>5, <3>1 DEF Carries, Pending
  <2> QED
    BY <2>2, <2>3, <2>4, <2>5
<1> QED
  BY <1>3, <1>4

LEMMA ReceiveCarries ==
    ASSUME TypeOK, NEW n \in Node, Receive(n),
           NEW m \in Node, NEW i \in Pending(m)'
    PROVE  IF m = n
           THEN /\ i \in Nat /\ i + 1 \in Pending(m) /\ i + 1 # 1
                /\ Carries(m, i)' = Carries(m, i + 1)
           ELSE i \in Pending(m) /\ Carries(m, i)' = Carries(m, i)
<1>1. inbox[n] \in Seq(Message(n)) /\ DOMAIN inbox = Node
  BY DEF TypeOK
<1>2. inbox' = [inbox EXCEPT ![n] = Tail(inbox[n])] /\ inbox[n] # << >>
  BY DEF Receive
<1>3. CASE m # n
  BY <1>1, <1>2, <1>3 DEF Pending, Carries
<1>4. CASE m = n
  <2>1. inbox'[n] = Tail(inbox[n])
    BY <1>1, <1>2
  <2>2. Len(inbox[n]) \in Nat /\ Len(Tail(inbox[n])) = Len(inbox[n]) - 1
    BY <1>1, <1>2
  <2>3. i \in 1 .. Len(inbox[n]) - 1
    BY <1>4, <2>1, <2>2 DEF Pending
  <2>4. inbox'[n][i] = inbox[n][i + 1]
    BY <1>1, <1>2, <2>1, <2>2, <2>3
  <2> QED
    BY <1>4, <2>2, <2>3, <2>4 DEF Carries, Pending
<1> QED
  BY <1>3, <1>4

LEMMA CloseCarries ==
    ASSUME TypeOK, NEW n \in Node, CloseSocket(n),
           NEW m \in Node, NEW i \in Pending(m)'
    PROVE  m # n /\ i \in Pending(m) /\ Carries(m, i)' = Carries(m, i)
BY DEF TypeOK, CloseSocket, Pending, Carries

(* The rows of the oldest message of n are under way to n.                  *)
LEMMA HeadCarries ==
    ASSUME TypeOK, NEW n \in Client, inbox[n] # << >>
    PROVE  /\ n \in Node
           /\ 1 \in Pending(n)
           /\ Carries(n, 1) = Head(inbox[n]).rows
<1>1. n \in Node /\ inbox[n] \in Seq(ChunkMessage)
  BY DEF TypeOK, Client, Message
<1>2. Head(inbox[n]) = inbox[n][1] /\ Len(inbox[n]) \in Nat \ {0}
  BY <1>1
<1>3. inbox[n][1] \in ChunkMessage
  BY <1>1, <1>2
<1> QED
  BY <1>1, <1>2, <1>3 DEF Pending, Carries, ChunkMessage

---------------------------------------------------------------------------
(* A step that deals nothing and at most takes messages away, or adds one   *)
(* that carries no rows, keeps the rows apart.                              *)
LEMMA QuietKeepsRows ==
    ASSUME RowInv, UNCHANGED <<data, next>>,
           \A m \in Node : \A i \in Pending(m)' :
              \/ i \in Pending(m) /\ Carries(m, i)' = Carries(m, i)
              \/ Carries(m, i)' = {}
    PROVE  DealtBefore' /\ NoRowTwice'
<1>1. DealtBefore'
  BY DEF RowInv, DealtBefore
<1>2. DataApart'
  BY DEF RowInv, NoRowTwice, DataApart
<1>3. PendingNew'
  BY DEF RowInv, NoRowTwice, PendingNew
<1>4. PendingApart'
  BY DEF RowInv, NoRowTwice, PendingApart
<1> QED
  BY <1>1, <1>2, <1>3, <1>4 DEF NoRowTwice

LEMMA EndKeepsRows ==
    ASSUME RowInv, NEW n \in Node, NEW label, End(n, label),
           UNCHANGED <<data, next>>
    PROVE  DealtBefore' /\ NoRowTwice'
<1>1. \A m \in Node : \A i \in Pending(m)' :
         i \in Pending(m) /\ Carries(m, i)' = Carries(m, i)
  BY CloseCarries DEF RowInv, TypeInv, End
<1> QED
  BY <1>1, QuietKeepsRows

LEMMA DealKeepKeepsRows ==
    ASSUME RowInv,
           data' = [data EXCEPT ![Server] = @ \union Chunk(next, Rows)],
           next' = next + 1, inbox' = inbox
    PROVE  DealtBefore' /\ NoRowTwice'
<1> USE DEF RowInv, TypeInv
<1>1. DOMAIN data = Node /\ Server \in Node
  BY NumNodesAssumption DEF TypeOK, Server, Node
<1>2. \A m \in Node :
         data'[m] = IF m = Server THEN data[m] \union Chunk(next, Rows)
                                  ELSE data[m]
  BY <1>1
<1>3. /\ \A m \in Node : Pending(m)' = Pending(m)
      /\ \A m \in Node : \A i \in Pending(m) : Carries(m, i)' = Carries(m, i)
  BY DEF Pending, Carries
<1>4. \A r \in Chunk(next, Rows) :
         /\ \A m \in Node : r \notin data[m]
         /\ \A m \in Node : \A i \in Pending(m) : r \notin Carries(m, i)
  BY ChunkIsNew DEF DealtBefore
<1>5. DealtBefore'
  <2>1. ASSUME NEW m \in Node, NEW r \in data'[m]
        PROVE  r < (next + 1) * RowsPerChunk
    <3>1. CASE r \in data[m]
      BY <3>1, DealtGrows DEF DealtBefore, TypeOK
    <3>2. CASE r \in Chunk(next, Rows)
      BY <3>2, ChunkIsNew
    <3> QED
      BY <1>2, <2>1, <3>1, <3>2
  <2>2. ASSUME NEW m \in Node, NEW i \in Pending(m), NEW r \in Carries(m, i)
        PROVE  r < (next + 1) * RowsPerChunk
    BY CarriesRows, DealtGrows DEF DealtBefore
  <2> QED
    BY <1>3, <2>1, <2>2 DEF DealtBefore
<1>6. DataApart'
  BY <1>2, <1>4 DEF NoRowTwice, DataApart
<1>7. PendingNew'
  BY <1>2, <1>3, <1>4 DEF NoRowTwice, PendingNew
<1>8. PendingApart'
  BY <1>3 DEF NoRowTwice, PendingApart
<1> QED
  BY <1>5, <1>6, <1>7, <1>8 DEF NoRowTwice

LEMMA DealSendKeepsRows ==
    ASSUME RowInv, Send(Server, selectedNode, ChunkMsg(next)),
           data' = data, next' = next + 1
    PROVE  DealtBefore' /\ NoRowTwice'
<1> USE DEF RowInv, TypeInv
<1>1. Server \in Node /\ selectedNode \in Node
  BY NumNodesAssumption DEF TypeOK, Server, Node
<1> DEFINE last == Len(inbox[selectedNode]) + 1
<1>2. /\ ChunkMsg(next).kind = "chunk"
      /\ ChunkMsg(next).rows \subseteq Chunk(next, Rows)
  BY DEF ChunkMsg
<1>3. \A m \in Node : \A i \in Pending(m)' :
         \/ i \in Pending(m) /\ Carries(m, i)' = Carries(m, i)
         \/ /\ m = selectedNode /\ i = last
            /\ Carries(m, i)' \subseteq Chunk(next, Rows)
  BY <1>1, <1>2, SendCarries
<1>4. \A r \in Chunk(next, Rows) :
         /\ \A m \in Node : r \notin data[m]
         /\ \A m \in Node : \A i \in Pending(m) : r \notin Carries(m, i)
  BY ChunkIsNew DEF DealtBefore
<1> HIDE DEF last
<1>5. DealtBefore'
  <2>1. ASSUME NEW m \in Node, NEW r \in data[m]
        PROVE  r < (next + 1) * RowsPerChunk
    BY DealtGrows DEF DealtBefore, TypeOK
  <2>2. ASSUME NEW m \in Node, NEW i \in Pending(m)', NEW r \in Carries(m, i)'
        PROVE  r < (next + 1) * RowsPerChunk
    <3>1. CASE i \in Pending(m) /\ Carries(m, i)' = Carries(m, i)
      BY <2>2, <3>1, CarriesRows, DealtGrows DEF DealtBefore
    <3>2. CASE r \in Chunk(next, Rows)
      BY <3>2, ChunkIsNew
    <3> QED
      BY <1>3, <2>2, <3>1, <3>2
  <2> QED
    BY <2>1, <2>2 DEF DealtBefore
<1>6. DataApart'
  BY DEF NoRowTwice, DataApart
<1>7. PendingNew'
  BY <1>3, <1>4 DEF NoRowTwice, PendingNew
<1>8. PendingApart'
  <2> SUFFICES ASSUME NEW m \in Node, NEW n \in Node,
                      NEW i \in Pending(m)', NEW k \in Pending(n)',
                      <<m, i>> # <<n, k>>
               PROVE  Carries(m, i)' \intersect Carries(n, k)' = {}
    BY DEF PendingApart
  <2>1. CASE /\ i \in Pending(m) /\ Carries(m, i)' = Carries(m, i)
             /\ k \in Pending(n) /\ Carries(n, k)' = Carries(n, k)
    BY <2>1 DEF NoRowTwice, PendingApart
  <2>2. CASE /\ i \in Pending(m) /\ Carries(m, i)' = Carries(m, i)
             /\ Carries(n, k)' \subseteq Chunk(next, Rows)
    BY <2>2, <1>4
  <2>3. CASE /\ Carries(m, i)' \subseteq Chunk(next, Rows)
             /\ k \in Pending(n) /\ Carries(n, k)' = Carries(n, k)
    BY <2>3, <1>4
  <2> QED
    BY <1>3, <2>1, <2>2, <2>3
<1> QED
  BY <1>5, <1>6, <1>7, <1>8 DEF NoRowTwice

LEMMA TakeChunkKeepsRows ==
    ASSUME RowInv, NEW n \in Client, Receive(n),
           data' = [data EXCEPT ![n] = @ \union Head(inbox[n]).rows],
           next' = next
    PROVE  DealtBefore' /\ NoRowTwice'
<1> USE DEF RowInv, TypeInv
<1>1. n \in Node /\ 1 \in Pending(n) /\ Carries(n, 1) = Head(inbox[n]).rows
  BY HeadCarries DEF Receive
<1>2. \A m \in Node :
         data'[m] = IF m = n THEN data[m] \union Carries(n, 1) ELSE data[m]
  BY <1>1 DEF TypeOK
<1>3. \A m \in Node : \A i \in Pending(m)' :
         IF m = n
         THEN /\ i \in Nat /\ i + 1 \in Pending(m) /\ i + 1 # 1
              /\ Carries(m, i)' = Carries(m, i + 1)
         ELSE i \in Pending(m) /\ Carries(m, i)' = Carries(m, i)
  BY <1>1, ReceiveCarries
<1>4. DealtBefore'
  BY <1>1, <1>2, <1>3 DEF DealtBefore
<1>5. DataApart'
  BY <1>1, <1>2 DEF NoRowTwice, DataApart, PendingNew
<1>6. PendingNew'
  <2> SUFFICES ASSUME NEW m \in Node, NEW k \in Node, NEW i \in Pending(k)'
               PROVE  Carries(k, i)' \intersect data'[m] = {}
    BY DEF PendingNew
  <2>1. PICK j \in Pending(k) : /\ Carries(k, i)' = Carries(k, j)
                                /\ <<k, j>> # <<n, 1>>
    BY <1>3
  <2>2. Carries(k, j) \intersect data[m] = {}
    BY DEF NoRowTwice, PendingNew
  <2>3. Carries(k, j) \intersect Carries(n, 1) = {}
    BY <1>1, <2>1 DEF NoRowTwice, PendingApart
  <2>4. data'[m] \subseteq data[m] \union Carries(n, 1)
    BY <1>2
  <2> QED
    BY <2>1, <2>2, <2>3, <2>4
<1>7. PendingApart'
  <2> SUFFICES ASSUME NEW m \in Node, NEW k \in Node,
                      NEW i \in Pending(m)', NEW j \in Pending(k)',
                      <<m, i>> # <<k, j>>
               PROVE  Carries(m, i)' \intersect Carries(k, j)' = {}
    BY DEF PendingApart
  <2>1. CASE m = n /\ k = n
    <3>1. /\ i + 1 \in Pending(n) /\ Carries(m, i)' = Carries(n, i + 1)
          /\ j + 1 \in Pending(n) /\ Carries(k, j)' = Carries(n, j + 1)
          /\ i + 1 # j + 1
      BY <2>1, <1>3
    <3> QED
      BY <3>1, <1>1 DEF NoRowTwice, PendingApart
  <2>2. CASE m = n /\ k # n
    <3>1. /\ i + 1 \in Pending(n) /\ Carries(m, i)' = Carries(n, i + 1)
          /\ j \in Pending(k) /\ Carries(k, j)' = Carries(k, j)
      BY <2>2, <1>3
    <3> QED
      BY <2>2, <3>1, <1>1 DEF NoRowTwice, PendingApart
  <2>3. CASE m # n /\ k = n
    <3>1. /\ i \in Pending(m) /\ Carries(m, i)' = Carries(m, i)
          /\ j + 1 \in Pending(n) /\ Carries(k, j)' = Carries(n, j + 1)
      BY <2>3, <1>3
    <3> QED
      BY <2>3, <3>1, <1>1 DEF NoRowTwice, PendingApart
  <2>4. CASE m # n /\ k # n
    BY <2>4, <1>3 DEF NoRowTwice, PendingApart
  <2> QED
    BY <2>1, <2>2, <2>3, <2>4
<1> QED
  BY <1>4, <1>5, <1>6, <1>7 DEF NoRowTwice

(* Node 0 takes counts: they carry no rows, so taking them moves no row.    *)
LEMMA CollectKeepsRows ==
    ASSUME RowInv, Receive(Server), UNCHANGED <<data, next>>
    PROVE  DealtBefore' /\ NoRowTwice'
<1> USE DEF RowInv, TypeInv
<1>1. Server \in Node
  BY NumNodesAssumption DEF Server, Node
<1>2. \A i \in Pending(Server) : Carries(Server, i) = {}
  <2> SUFFICES ASSUME NEW i \in Pending(Server)
               PROVE  Carries(Server, i) = {}
    OBVIOUS
  <2>1. inbox[Server][i] \in CountsMessage
    BY <1>1 DEF TypeOK, Pending, Message
  <2> QED
    BY <2>1 DEF Carries, CountsMessage
<1>3. \A m \in Node : \A i \in Pending(m)' :
         \/ i \in Pending(m) /\ Carries(m, i)' = Carries(m, i)
         \/ Carries(m, i)' = {}
  BY <1>1, <1>2, ReceiveCarries
<1> QED
  BY <1>3, QuietKeepsRows

---------------------------------------------------------------------------
LEMMA InitRows == Init => RowInv
<1> SUFFICES ASSUME Init PROVE RowInv
  OBVIOUS
<1>1. TypeInv
  BY InitTyped
<1>2. /\ \A n \in Node : data[n] = {}
      /\ \A n \in Node : Pending(n) = {}
  BY DEF Init, Pending
<1>3. DealtBefore
  BY <1>2 DEF DealtBefore
<1>4. NoRowTwice
  BY <1>2 DEF NoRowTwice, DataApart, PendingNew, PendingApart
<1> QED
  BY <1>1, <1>3, <1>4 DEF RowInv

LEMMA NextRows == RowInv /\ [Next]_vars => RowInv'
<1> SUFFICES ASSUME RowInv, [Next]_vars PROVE DealtBefore' /\ NoRowTwice'
  BY NextTyped DEF RowInv
<1>s. Server \in Node /\ Client \subseteq Node
  BY NumNodesAssumption DEF Server, Client, Node
<1>q. ASSUME UNCHANGED <<inbox, data, next>>
      PROVE  DealtBefore' /\ NoRowTwice'
  BY <1>q, QuietKeepsRows DEF Pending, Carries
<1>f. ASSUME NEW n \in Node, Dies(n)
      PROVE  DealtBefore' /\ NoRowTwice'
  BY <1>f, EndKeepsRows DEF Dies
<1>1. CASE DealKeep
  BY <1>1, <1>s, <1>f, DealKeepKeepsRows, FaultsEnd DEF DealKeep, netVars
<1>2. CASE DealSend
  BY <1>2, <1>s, <1>f, DealSendKeepsRows, FaultsEnd DEF DealSend
<1>3. ASSUME NEW n \in Client, TakeChunk(n)
      PROVE  DealtBefore' /\ NoRowTwice'
  BY <1>3, <1>s, <1>f, TakeChunkKeepsRows, FaultsEnd DEF TakeChunk
<1>4. ASSUME NEW n \in Node, LocalCount(n)
      PROVE  DealtBefore' /\ NoRowTwice'
  BY <1>4, <1>q, <1>f, FaultsEnd DEF LocalCount, netVars
<1>5. ASSUME NEW n \in Client, Report(n)
      PROVE  DealtBefore' /\ NoRowTwice'
  <2>1. CASE Dies(n)
    BY <2>1, <1>s, <1>f
  <2>2. CASE /\ \E counts \in Carried(kv[n][n]) :
                   Send(n, Server, [kind |-> "counts", sender |-> n,
                                    counts |-> counts])
             /\ UNCHANGED <<data, next>>
    <3>1. \A m \in Node : \A i \in Pending(m)' :
             \/ i \in Pending(m) /\ Carries(m, i)' = Carries(m, i)
             \/ Carries(m, i)' = {}
      BY <2>2, <1>s, SendCarries DEF RowInv, TypeInv
    <3> QED
      BY <2>2, <3>1, QuietKeepsRows
  <2> QED
    BY <1>5, <2>1, <2>2, <1>s, FaultsEnd DEF Report
<1>6. ASSUME NEW n \in Node, Leave(n)
      PROVE  DealtBefore' /\ NoRowTwice'
  BY <1>6, <1>f, EndKeepsRows, FaultsEnd DEF Leave
<1>7. CASE Collect
  BY <1>7, <1>s, <1>f, FaultsEnd, CollectKeepsRows DEF Collect
<1>8. CASE Reduce
  <2>1. CASE UNCHANGED <<inbox, data, next>>
    BY <2>1, <1>q
  <2>2. CASE Dies(Server)
    BY <2>2, <1>s, <1>f
  <2>3. UNCHANGED <<inbox, data, next>> \/ Dies(Server)
    BY <1>8, <1>s, FaultsEnd DEF Reduce, netVars
  <2> QED
    BY <2>1, <2>2, <2>3
<1>9. CASE UNCHANGED vars
  BY <1>9, <1>q DEF vars, netVars
<1> QED
  BY <1>1, <1>2, <1>3, <1>4, <1>5, <1>6, <1>7, <1>8, <1>9
     DEF Next, Step, ServerStep, ClientStep, Finished

(* However the steps of the nodes interleave and whichever processes fail,  *)
(* the server's deal puts no row of the text in two places: not in two      *)
(* stores, not in a store and in a message, not in two messages.            *)
THEOREM RowsDealtOnce == Spec => []NoRowTwice
<1>1. Spec => []RowInv
  BY InitRows, NextRows, PTL DEF Spec
<1>2. RowInv => NoRowTwice
  BY DEF RowInv
<1> QED
  BY <1>1, <1>2, PTL

---------------------------------------------------------------------------
(* What node 0 collects: the counts of every client arrive once, in any     *)
(* order, and none replaces another.                                        *)

(* The client that sent the i-th message pending at node 0, and the clients *)
(* whose counts node 0 has put into its store.                              *)
Sender(i) == inbox[Server][i].sender
Collected == {m \in Client : kv[Server][m] # NoFrame}

(* A node has counts in its own store once it has counted, and node 0 has   *)
(* those of a client in its store, or under way to it, or neither.          *)
OwnCounts ==
    /\ \A n \in Node : pc[n] \in {"deal", "take"} => kv[n][n] = NoFrame
    /\ pc[Server] = "collect" => kv[Server][Server] # NoFrame
NotYetSent ==
    \A n \in Client : pc[n] \in {"take", "report"} => kv[Server][n] = NoFrame
PendingCounts ==
    \A i \in Pending(Server) :
        kv[Server][Sender(i)] = NoFrame /\ pc[Sender(i)] \notin {"take", "report"}
SentOnce ==
    \A i, j \in Pending(Server) : Sender(i) = Sender(j) => i = j

CountsApart == OwnCounts /\ NotYetSent /\ PendingCounts /\ SentOnce

CountsInv ==
    /\ TypeInv
    /\ CountsApart
    /\ received[Server] = Cardinality(Collected)

LEMMA ClientsFinite ==
    IsFiniteSet(Client) /\ Cardinality(Client) = NumNodes - 1
<1>1. NumNodes \in Nat \ {0}
  BY NumNodesAssumption
<1>2. Client = 1 .. NumNodes - 1
  BY <1>1 DEF Client, Node, Server
<1>3. 1 \in Int /\ NumNodes - 1 \in Int
  BY <1>1
<1>4. /\ IsFiniteSet(1 .. NumNodes - 1)
      /\ Cardinality(1 .. NumNodes - 1)
            = IF 1 > NumNodes - 1 THEN 0 ELSE (NumNodes - 1) - 1 + 1
  BY <1>3, FS_Interval
<1> QED
  BY <1>1, <1>2, <1>4

(* A null pointer is not a frame.                                           *)
LEMMA FrameIsNotNull == NoFrame \notin Frames
BY WordCountAssumption DEF Frames, Terms

(* The messages pending at node 0 come from clients and carry counts.       *)
LEMMA PendingTyped ==
    ASSUME TypeOK, NEW i \in Pending(Server)
    PROVE  inbox[Server][i] \in CountsMessage /\ Sender(i) \in Client
<1>1. inbox[Server] \in Seq(CountsMessage)
  BY ServerAndClients DEF TypeOK, Message
<1>2. inbox[Server][i] \in CountsMessage
  BY <1>1 DEF Pending
<1> QED
  BY <1>2 DEF Sender, CountsMessage

(* A step that puts no counts into a store and sends none.                  *)
LEMMA QuietKeepsCounts ==
    ASSUME CountsInv, kv' = kv, received'[Server] = received[Server],
           inbox'[Server] \in {inbox[Server], << >>},
           \A n \in Node : pc'[n] \in {pc[n], "leave", "done", "failed"}
    PROVE  CountsApart' /\ received'[Server] = Cardinality(Collected')
<1> USE ServerAndClients DEF CountsInv
<1>1. Pending(Server)' \subseteq Pending(Server)
  BY DEF Pending
<1>2. \A i \in Pending(Server)' : Sender(i)' = Sender(i)
  BY DEF Pending, Sender
<1>3. \A i \in Pending(Server) : Sender(i) \in Node
  BY PendingTyped DEF TypeInv
<1>4. OwnCounts'
  BY DEF CountsApart, OwnCounts
<1>5. NotYetSent'
  BY DEF CountsApart, NotYetSent
<1>6. PendingCounts'
  BY <1>1, <1>2, <1>3 DEF CountsApart, PendingCounts
<1>7. SentOnce'
  BY <1>1, <1>2 DEF CountsApart, SentOnce
<1>8. Collected' = Collected
  BY DEF Collected
<1> QED
  BY <1>4, <1>5, <1>6, <1>7, <1>8 DEF CountsApart

LEMMA EndKeepsCounts ==
    ASSUME CountsInv, NEW n \in Node, NEW label \in {"done", "failed"},
           End(n, label), UNCHANGED <<received, kv>>
    PROVE  CountsApart' /\ received'[Server] = Cardinality(Collected')
<1>1. inbox'[Server] \in {inbox[Server], << >>}
  BY ServerAndClients DEF CountsInv, TypeInv, TypeOK, End, CloseSocket
<1>2. \A m \in Node : pc'[m] \in {pc[m], "leave", "done", "failed"}
  BY DEF CountsInv, TypeInv, TypeOK, End, Goto
<1> QED
  BY <1>1, <1>2, QuietKeepsCounts

LEMMA LocalCountKeepsCounts ==
    ASSUME CountsInv, NEW n \in Node,
           n # Server => pc[n] = "take",
           kv' = [kv EXCEPT ![n][n] = CountOf(n)],
           Goto(n, IF n = Server THEN "collect" ELSE "report"),
           UNCHANGED <<inbox, received>>
    PROVE  CountsApart' /\ received'[Server] = Cardinality(Collected')
<1> USE ServerAndClients DEF CountsInv, TypeInv
<1>1. CountOf(n) # NoFrame
  BY CountOfTyped, FrameIsNotNull
<1>2. /\ pc' = [pc EXCEPT ![n] = IF n = Server THEN "collect" ELSE "report"]
      /\ DOMAIN pc = Node
  BY DEF Goto, TypeOK
<1>3. \A m \in Client : kv'[Server][m] = kv[Server][m]
  BY DEF TypeOK
<1>4. /\ \A m \in Node : m # n => kv'[m][m] = kv[m][m]
      /\ kv'[n][n] = CountOf(n)
  BY DEF TypeOK
<1>5. Pending(Server)' = Pending(Server) /\ \A i \in Pending(Server) : Sender(i)' = Sender(i)
  BY DEF Pending, Sender
<1>6. OwnCounts'
  BY <1>1, <1>2, <1>4 DEF CountsApart, OwnCounts
<1>7. NotYetSent'
  BY <1>2, <1>3 DEF CountsApart, NotYetSent
<1>8. PendingCounts'
  <2> SUFFICES ASSUME NEW i \in Pending(Server)
               PROVE  kv'[Server][Sender(i)] = NoFrame
                      /\ pc'[Sender(i)] \notin {"take", "report"}
    BY <1>5 DEF PendingCounts
  <2>1. /\ Sender(i) \in Client /\ kv[Server][Sender(i)] = NoFrame
        /\ pc[Sender(i)] \notin {"take", "report"}
    BY PendingTyped DEF CountsApart, PendingCounts
  <2> QED
    BY <1>2, <1>3, <2>1
<1>9. SentOnce'
  BY <1>5 DEF CountsApart, SentOnce
<1>10. Collected' = Collected
  BY <1>3 DEF Collected
<1> QED
  BY <1>6, <1>7, <1>8, <1>9, <1>10 DEF CountsApart

LEMMA ReportKeepsCounts ==
    ASSUME CountsInv, NEW n \in Client, pc[n] = "report", NEW msg,
           msg.sender = n, Send(n, Server, msg), Goto(n, "leave"),
           UNCHANGED <<received, kv>>
    PROVE  CountsApart' /\ received'[Server] = Cardinality(Collected')
<1> USE ServerAndClients DEF CountsInv, TypeInv
<1> DEFINE last == Len(inbox[Server]) + 1
<1>1. inbox[Server] \in Seq(CountsMessage) /\ DOMAIN inbox = Node
  BY DEF TypeOK, Message
<1>2. inbox'[Server] = Append(inbox[Server], msg)
  BY <1>1 DEF Send
<1>3. /\ \A i \in Pending(Server)' : i \in Pending(Server) \/ i = last
      /\ \A i \in Pending(Server) : Sender(i)' = Sender(i)
      /\ \A i \in Nat : i = last => Sender(i)' = n
      /\ last \in Nat
  <2>1. Len(inbox[Server]) \in Nat /\ Len(inbox'[Server]) = Len(inbox[Server]) + 1
    BY <1>1, <1>2
  <2>2. \A i \in 1 .. Len(inbox[Server]) : inbox'[Server][i] = inbox[Server][i]
    BY <1>1, <1>2
  <2>3. inbox'[Server][last] = msg
    BY <1>1, <1>2
  <2> QED
    BY <2>1, <2>2, <2>3 DEF Pending, Sender
<1>4. pc' = [pc EXCEPT ![n] = "leave"] /\ DOMAIN pc = Node
  BY DEF Goto, TypeOK
<1>5. \A i \in Pending(Server) : Sender(i) \in Client /\ Sender(i) # n
  BY PendingTyped DEF CountsApart, PendingCounts
<1> HIDE DEF last
<1>6. OwnCounts'
  BY <1>4 DEF CountsApart, OwnCounts
<1>7. NotYetSent'
  BY <1>4 DEF CountsApart, NotYetSent
<1>8. PendingCounts'
  <2> SUFFICES ASSUME NEW i \in Pending(Server)'
               PROVE  /\ kv[Server][Sender(i)'] = NoFrame
                      /\ pc'[Sender(i)'] \notin {"take", "report"}
    BY DEF PendingCounts
  <2>1. CASE i \in Pending(Server)
    BY <1>3, <1>4, <1>5, <2>1 DEF CountsApart, PendingCounts
  <2>2. CASE i = last
    <3>1. Sender(i)' = n
      BY <1>3, <2>2
    <3> QED
      BY <1>4, <3>1 DEF CountsApart, NotYetSent
  <2> QED
    BY <1>3, <2>1, <2>2
<1>9. SentOnce'
  <2> SUFFICES ASSUME NEW i \in Pending(Server)', NEW j \in Pending(Server)',
                      Sender(i)' = Sender(j)'
               PROVE  i = j
    BY DEF SentOnce
  <2>1. CASE i \in Pending(Server) /\ j \in Pending(Server)
    BY <1>3, <2>1 DEF CountsApart, SentOnce
  <2>2. CASE i = last \/ j = last
    BY <1>3, <1>5, <2>2
  <2> QED
    BY <1>3, <2>1, <2>2
<1>10. Collected' = Collected
  BY DEF Collected
<1> QED
  BY <1>6, <1>7, <1>8, <1>9, <1>10 DEF CountsApart

LEMMA CollectKeepsCounts ==
    ASSUME CountsInv, pc[Server] = "collect", Receive(Server),
           kv' = [kv EXCEPT ![Server][Head(inbox[Server]).sender]
                                = Head(inbox[Server]).counts],
           received' = [received EXCEPT ![Server] = @ + 1], pc' = pc
    PROVE  /\ CountsApart' /\ received'[Server] = Cardinality(Collected')
           /\ \A n, m \in Node : kv[n][m] # NoFrame => kv'[n][m] = kv[n][m]
<1> USE ServerAndClients DEF CountsInv, TypeInv
<1> DEFINE s == Head(inbox[Server]).sender
           counts == Head(inbox[Server]).counts
<1>1. inbox[Server] \in Seq(CountsMessage) /\ DOMAIN inbox = Node
  BY DEF TypeOK, Message
<1>2. inbox[Server] # << >> /\ inbox'[Server] = Tail(inbox[Server])
  BY <1>1 DEF Receive
<1>3. 1 \in Pending(Server) /\ Head(inbox[Server]) = inbox[Server][1]
  BY <1>1, <1>2 DEF Pending
<1>4. s = Sender(1) /\ s \in Client /\ counts \in Frames /\ counts # NoFrame
  BY <1>3, PendingTyped, FrameIsNotNull DEF Sender, CountsMessage
<1>5. kv[Server][s] = NoFrame /\ pc[s] \notin {"take", "report"}
  BY <1>3, <1>4 DEF CountsApart, PendingCounts
<1>6. \A i \in Pending(Server)' :
         i \in Nat /\ i + 1 \in Pending(Server) /\ i + 1 # 1 /\ Sender(i)' = Sender(i + 1)
  BY <1>1, <1>2 DEF Pending, Sender
<1>7. kv' = [kv EXCEPT ![Server][s] = counts]
  OBVIOUS
<1> HIDE DEF s, counts
<1>8. /\ kv'[Server][s] = counts
      /\ \A m \in Node : m # s => kv'[Server][m] = kv[Server][m]
      /\ \A n \in Node : n # Server => kv'[n] = kv[n]
  BY <1>4, <1>7 DEF TypeOK
<1>9. OwnCounts'
  BY <1>4, <1>8 DEF CountsApart, OwnCounts
<1>10. NotYetSent'
  BY <1>5, <1>8 DEF CountsApart, NotYetSent
<1>11. \A i \in Pending(Server)' : Sender(i + 1) \in Client /\ Sender(i + 1) # s
  BY <1>3, <1>4, <1>6, PendingTyped DEF CountsApart, SentOnce
<1>12. PendingCounts'
  BY <1>6, <1>8, <1>11 DEF CountsApart, PendingCounts
<1>13. SentOnce'
  <2> SUFFICES ASSUME NEW i \in Pending(Server)', NEW j \in Pending(Server)',
                      Sender(i)' = Sender(j)'
               PROVE  i = j
    BY DEF SentOnce
  <2>1. i + 1 = j + 1
    BY <1>6 DEF CountsApart, SentOnce
  <2> QED
    BY <1>6, <2>1
<1>14. Collected' = Collected \union {s} /\ s \notin Collected
  BY <1>4, <1>5, <1>8 DEF Collected
<1>15. received'[Server] = Cardinality(Collected')
  <2>1. IsFiniteSet(Collected)
    BY ClientsFinite, FS_Subset DEF Collected
  <2>2. Cardinality(Collected \union {s}) = Cardinality(Collected) + 1
    BY <1>14, <2>1, FS_AddElement
  <2> QED
    BY <1>14, <2>2 DEF TypeOK
<1>16. \A n, m \in Node : kv[n][m] # NoFrame => kv'[n][m] = kv[n][m]
  BY <1>5, <1>8
<1> QED
  BY <1>9, <1>10, <1>12, <1>13, <1>15, <1>16 DEF CountsApart

---------------------------------------------------------------------------
LEMMA InitCounts == Init => CountsInv
<1> SUFFICES ASSUME Init PROVE CountsInv
  OBVIOUS
<1>1. TypeInv
  BY InitTyped
<1>2. /\ pc[Server] = "deal" /\ received[Server] = 0
      /\ \A n, m \in Node : kv[n][m] = NoFrame
      /\ Pending(Server) = {}
  BY ServerAndClients DEF Init, Pending
<1>3. CountsApart
  BY <1>2, ServerAndClients
     DEF CountsApart, OwnCounts, NotYetSent, PendingCounts, SentOnce
<1>4. Collected = {}
  BY <1>2, ServerAndClients DEF Collected
<1> QED
  BY <1>1, <1>2, <1>3, <1>4, FS_EmptySet DEF CountsInv

LEMMA NextCounts ==
    ASSUME CountsInv, [Next]_vars
    PROVE  /\ CountsInv'
           /\ \A n, m \in Node : kv[n][m] # NoFrame => kv'[n][m] = kv[n][m]
<1> DEFINE Kept == /\ CountsApart' /\ received'[Server] = Cardinality(Collected')
                   /\ \A n, m \in Node : kv[n][m] # NoFrame => kv'[n][m] = kv[n][m]
<1> SUFFICES Kept
  BY NextTyped DEF CountsInv
<1>s. Server \in Node /\ Client \subseteq Node /\ Server \notin Client
  BY ServerAndClients
<1>t. TypeInv /\ TypeOK /\ DOMAIN pc = Node /\ DOMAIN inbox = Node
  BY DEF CountsInv, TypeInv, TypeOK
<1>f. ASSUME NEW n \in Node, Dies(n)
      PROVE  Kept
  BY <1>f, EndKeepsCounts DEF Dies
<1>q. ASSUME UNCHANGED <<kv, pc, received>>, inbox'[Server] = inbox[Server]
      PROVE  Kept
  BY <1>q, QuietKeepsCounts
<1>1. CASE DealKeep
  BY <1>1, <1>s, <1>f, <1>q, FaultsEnd DEF DealKeep, netVars
<1>2. CASE DealSend
  <2>1. CASE Send(Server, selectedNode, ChunkMsg(next)) /\ UNCHANGED <<kv, pc, received>>
    <3>1. inbox'[Server] = inbox[Server]
      BY <1>2, <1>s, <1>t, <2>1 DEF Send, DealSend
    <3> QED
      BY <1>q, <2>1, <3>1
  <2> QED
    BY <1>2, <1>s, <1>f, <2>1, FaultsEnd DEF DealSend
<1>3. ASSUME NEW n \in Client, TakeChunk(n)
      PROVE  Kept
  <2>1. CASE /\ Receive(n) /\ received' = [received EXCEPT ![n] = @ + 1]
             /\ UNCHANGED <<pc, kv>>
    <3>1. inbox'[Server] = inbox[Server] /\ received'[Server] = received[Server]
      BY <1>s, <1>t, <2>1 DEF Receive, TypeOK
    <3> QED
      BY <2>1, <3>1, QuietKeepsCounts
  <2> QED
    BY <1>3, <1>s, <1>f, <2>1, FaultsEnd DEF TakeChunk
<1>4. ASSUME NEW n \in Node, LocalCount(n)
      PROVE  Kept
  <2>1. CASE /\ kv' = [kv EXCEPT ![n][n] = CountOf(n)]
             /\ Goto(n, IF n = Server THEN "collect" ELSE "report")
             /\ UNCHANGED <<inbox, received>>
    <3>1. (n # Server => pc[n] = "take") /\ pc[n] \in {"deal", "take"}
      BY <1>4 DEF LocalCount
    <3>2. kv[n][n] = NoFrame
      BY <3>1 DEF CountsInv, CountsApart, OwnCounts
    <3>3. \A k, m \in Node : kv[k][m] # NoFrame => kv'[k][m] = kv[k][m]
      BY <1>t, <2>1, <3>2 DEF TypeOK
    <3> QED
      BY <2>1, <3>1, <3>3, LocalCountKeepsCounts
  <2> QED
    BY <1>4, <1>f, <2>1, FaultsEnd DEF LocalCount, netVars
<1>5. ASSUME NEW n \in Client, Report(n)
      PROVE  Kept
  <2>1. CASE /\ \E counts \in Carried(kv[n][n]) :
                   Send(n, Server, [kind |-> "counts", sender |-> n,
                                    counts |-> counts])
             /\ Goto(n, "leave")
             /\ UNCHANGED <<received, kv>>
    <3>1. PICK counts \in Carried(kv[n][n]) :
             Send(n, Server, [kind |-> "counts", sender |-> n, counts |-> counts])
      BY <2>1
    <3>2. pc[n] = "report"
      BY <1>5 DEF Report
    <3>3. CountsApart' /\ received'[Server] = Cardinality(Collected')
      BY <2>1, <3>1, <3>2, ReportKeepsCounts
    <3> QED
      BY <2>1, <3>3
  <2> QED
    BY <1>5, <1>s, <1>f, <2>1, FaultsEnd DEF Report
<1>6. ASSUME NEW n \in Node, Leave(n)
      PROVE  Kept
  BY <1>6, <1>f, EndKeepsCounts, FaultsEnd DEF Leave
<1>7. CASE Collect
  <2>1. CASE /\ Receive(Server)
             /\ LET msg == Head(inbox[Server])
                IN  kv' = [kv EXCEPT ![Server][msg.sender] = msg.counts]
             /\ received' = [received EXCEPT ![Server] = @ + 1] /\ pc' = pc
    BY <1>7, <2>1, CollectKeepsCounts DEF Collect
  <2> QED
    BY <1>7, <1>s, <1>f, <2>1, FaultsEnd DEF Collect
<1>8. CASE Reduce
  <2>1. CASE Goto(Server, "leave") /\ UNCHANGED <<inbox, kv, received>>
    <3>1. \A n \in Node : pc'[n] \in {pc[n], "leave", "done", "failed"}
      BY <1>t, <2>1 DEF Goto
    <3> QED
      BY <2>1, <3>1, QuietKeepsCounts
  <2>2. (Goto(Server, "leave") /\ UNCHANGED <<inbox, kv, received>>) \/ Dies(Server)
    BY <1>8, <1>s, FaultsEnd DEF Reduce, netVars
  <2> QED
    BY <1>s, <1>f, <2>1, <2>2
<1>9. CASE UNCHANGED vars
  BY <1>9, <1>q DEF vars, netVars
<1> QED
  BY <1>1, <1>2, <1>3, <1>4, <1>5, <1>6, <1>7, <1>8, <1>9
     DEF Next, Step, ServerStep, ClientStep, Finished

LEMMA CountsInvAlways == Spec => []CountsInv
BY InitCounts, NextCounts, PTL DEF Spec

(* Whatever order the counts of the clients arrive in, and whichever nodes  *)
(* fail, put replaces no frame of counts: neither a node's own nor, at node *)
(* 0, the one of a client (WordCount::local_count, run_).                   *)
THEOREM CountsAreFinal == Spec => NoFrameReplaced
<1>1. CountsInv /\ [Next]_vars
         => [\A n, m \in Node : kv[n][m] # NoFrame => kv'[n][m] = kv[n][m]]_vars
  BY NextCounts
<1> QED
  BY CountsInvAlways, <1>1, PTL DEF Spec, NoFrameReplaced

(* Node 0 stops collecting after as many messages as there are clients;     *)
(* they were of different clients, so reduce finds the frame of every node. *)
THEOREM EveryFrameCollected == Spec => []ReduceHasEveryFrame
<1>1. CountsInv => ReduceHasEveryFrame
  <2> SUFFICES ASSUME CountsInv, pc[Server] = "collect",
                      received[Server] >= NumNodes - 1, NEW m \in Node
               PROVE  kv[Server][m] # NoFrame
    BY DEF ReduceHasEveryFrame
  <2>1. CASE m = Server
    BY <2>1 DEF CountsInv, CountsApart, OwnCounts
  <2>2. CASE m # Server
    <3>1. Cardinality(Collected) >= Cardinality(Client)
      BY ClientsFinite DEF CountsInv
    <3>2. Collected \subseteq Client
      BY DEF Collected
    <3>3. /\ Cardinality(Collected) <= Cardinality(Client)
          /\ Cardinality(Collected) = Cardinality(Client) => Collected = Client
          /\ Cardinality(Collected) \in Nat /\ Cardinality(Client) \in Nat
      BY <3>2, ClientsFinite, FS_Subset, FS_CardinalityType
    <3>4. Collected = Client
      BY <3>1, <3>3
    <3> QED
      BY <2>2, <3>4, ServerAndClients DEF Collected
  <2> QED
    BY <2>1, <2>2
<1> QED
  BY CountsInvAlways, <1>1, PTL

---------------------------------------------------------------------------
(* The deal: what node 0 deals and what a client expects are worked out on  *)
(* two machines, and they agree.                                            *)

(* The number of chunks of a text fits the types it passes through: size_t, *)
(* then int, then for the server size_t again.  A frame has far fewer than  *)
(* 2^31 rows.  Nothing is asked of a text without words.                    *)
ConversionsExact ==
    \A t \in Texts :
        LET rows == Cardinality(DOMAIN t)
        IN  rows # 0 =>
               /\ NumChunks(rows) = 1 + ((rows - 1) \div RowsPerChunk)
               /\ AsSize(NumChunks(rows)) = NumChunks(rows)

AllChunks == NumChunks(Cardinality(Rows))

(* The chunks before b that fall to node n, and the rows it is to receive.  *)
Mine(n, b) == {c \in 0 .. b - 1 : c % NumNodes = n}
Due(n) == {r \in Rows : Turn(r) = n /\ Survives(r)}

Has(n, r) == r \in data[n] \/ \E i \in Pending(n) : r \in Carries(n, i)

(* Where the server is, and what it has kept.                               *)
DealInTurn == next \in 0 .. AllChunks /\ selectedNode = next % NumNodes
ServerKeeps ==
    \A r \in Rows : Turn(r) = Server /\ r < next * RowsPerChunk => r \in data[Server]

(* What a client has and is yet to take: rows of its own only; and, unless  *)
(* it has failed, all of them and one message a chunk.                      *)
OnlyItsOwn ==
    \A n \in Client : data[n] \subseteq Due(n)
                      /\ \A i \in Pending(n) : Carries(n, i) \subseteq Due(n)
AllOfItsOwn ==
    \A n \in Client : pc[n] # "failed" =>
        \A r \in Due(n) : r < next * RowsPerChunk => Has(n, r)
OneMessageAChunk ==
    \A n \in Client : pc[n] # "failed" =>
        received[n] + Len(inbox[n]) = Cardinality(Mine(n, next))
Counted == {"report", "leave", "done"}
TookItsShare ==
    \A n \in Client : pc[n] \in Counted => received[n] >= NumReceived(n)

Shares ==
    DealInTurn /\ ServerKeeps /\ OnlyItsOwn /\ AllOfItsOwn /\ OneMessageAChunk
    /\ TookItsShare

SharesInv == TypeInv /\ (Rows # {} => Shares)

---------------------------------------------------------------------------
(* Every row is in one of the chunks.                                       *)
LEMMA RowsInChunks ==
    ASSUME TypeOK, ConversionsExact, Rows # {}
    PROVE  /\ AllChunks \in Nat \ {0}
           /\ AsSize(AllChunks) = AllChunks
           /\ RowsPerChunk \in Nat \ {0} /\ NumNodes \in Nat \ {0}
           /\ \A r \in Rows : /\ r \in Nat
                              /\ r \div RowsPerChunk \in 0 .. AllChunks - 1
                              /\ Turn(r) \in Node
<1> DEFINE k == Cardinality(Rows)
<1>1. text \in Texts
  BY DEF TypeOK
<1>2. IsFiniteSet(Rows) /\ Rows = 0 .. k - 1
  BY <1>1, WordCountAssumption DEF Rows
<1>3. k \in Nat \ {0}
  BY <1>2, FS_CardinalityType, FS_EmptySet
<1>4. RowsPerChunk \in Nat \ {0} /\ NumNodes \in Nat \ {0}
  BY ChunksAssumption, NumNodesAssumption
<1>5. AllChunks = 1 + ((k - 1) \div RowsPerChunk) /\ AsSize(AllChunks) = AllChunks
  BY <1>1, <1>3 DEF ConversionsExact, AllChunks, Rows
<1> HIDE DEF k
<1>6. (k - 1) \div RowsPerChunk \in Nat
  BY <1>3, <1>4, DivRange
<1>7. ASSUME NEW r \in Rows
      PROVE  /\ r \in Nat
             /\ r \div RowsPerChunk \in 0 .. AllChunks - 1
             /\ Turn(r) \in Node
  <2>1. r \in Nat /\ r <= k - 1 /\ k - 1 \in Nat
    BY <1>2, <1>3
  <2>2. r \div RowsPerChunk \in Nat
        /\ r \div RowsPerChunk <= (k - 1) \div RowsPerChunk
    BY <1>4, <2>1, DivRange, DivGrows
  <2>3. Turn(r) \in 0 .. NumNodes - 1
    BY <1>4, <2>2, DivRange DEF Turn
  <2> QED
    BY <1>5, <1>6, <2>1, <2>2, <2>3 DEF Node
<1> QED
  BY <1>4, <1>5, <1>6, <1>7

(* The rows of chunk c are those whose number divided gives c.              *)
LEMMA ChunkIsQuotient ==
    ASSUME TypeOK, ConversionsExact, Rows # {}, NEW c \in Nat, NEW r \in Chunk(c, Rows)
    PROVE  r \in Rows /\ r \div RowsPerChunk = c /\ Turn(r) = c % NumNodes
<1>1. r \in Rows /\ r \in Nat /\ RowsPerChunk \in Nat \ {0}
  BY RowsInChunks DEF Chunk
<1>2. c * RowsPerChunk <= r /\ r < (c + 1) * RowsPerChunk
  BY DEF Chunk
<1>3. (c + 1) * RowsPerChunk = c * RowsPerChunk + RowsPerChunk
  BY <1>1
<1>4. r \div RowsPerChunk = c
  BY <1>1, <1>2, <1>3, DivIs
<1> QED
  BY <1>1, <1>4 DEF Turn

(* A row below the end of chunk c is in chunk c or below it.                *)
LEMMA BelowNext ==
    ASSUME TypeOK, ConversionsExact, Rows # {}, NEW c \in Nat, NEW r \in Rows,
           r < (c + 1) * RowsPerChunk
    PROVE  r < c * RowsPerChunk \/ r \in Chunk(c, Rows)
<1>1. r \in Nat /\ RowsPerChunk \in Nat
  BY RowsInChunks
<1>2. c * RowsPerChunk \in Nat
  BY <1>1
<1> QED
  BY <1>1, <1>2 DEF Chunk

(* A row of a chunk before b is below the start of chunk b.                 *)
LEMMA BelowStart ==
    ASSUME TypeOK, ConversionsExact, Rows # {}, NEW b \in Nat, NEW r \in Rows,
           r \div RowsPerChunk < b
    PROVE  r < b * RowsPerChunk
<1> DEFINE q == r \div RowsPerChunk
           d == RowsPerChunk
<1>1. r \in Nat /\ d \in Nat \ {0}
  BY RowsInChunks
<1>2. q \in Nat /\ r < q * d + d
  BY <1>1, DivRange
<1>3. q + 1 <= b
  BY <1>2
<1> HIDE DEF q, d
<1>4. (q + 1) * d <= b * d /\ (q + 1) * d = q * d + d
  BY <1>1, <1>2, <1>3, Times
<1>5. q * d \in Nat /\ b * d \in Nat
  BY <1>1, <1>2
<1>6. r < b * d
  BY <1>1, <1>2, <1>4, <1>5
<1> QED
  BY <1>6 DEF d

LEMMA MineFinite ==
    ASSUME NEW n \in Node, NEW b \in Nat
    PROVE  IsFiniteSet(Mine(n, b)) /\ Cardinality(Mine(n, b)) \in Nat
<1>1. IsFiniteSet(0 .. b - 1)
  BY FS_Interval
<1>2. Mine(n, b) \subseteq 0 .. b - 1
  BY DEF Mine
<1> QED
  BY <1>1, <1>2, FS_Subset, FS_CardinalityType

LEMMA MineGrows ==
    ASSUME NEW n \in Node, NEW b \in Nat
    PROVE  Cardinality(Mine(n, b + 1)) =
              Cardinality(Mine(n, b)) + (IF b % NumNodes = n THEN 1 ELSE 0)
<1>1. b \notin Mine(n, b)
  BY DEF Mine
<1>2. 0 .. (b + 1) - 1 = (0 .. b - 1) \union {b}
  OBVIOUS
<1>3. CASE b % NumNodes = n
  <2>1. Mine(n, b + 1) = Mine(n, b) \union {b}
    BY <1>2, <1>3 DEF Mine
  <2> QED
    BY <1>1, <1>3, <2>1, MineFinite, FS_AddElement
<1>4. CASE b % NumNodes # n
  <2>1. Mine(n, b + 1) = Mine(n, b)
    BY <1>2, <1>4 DEF Mine
  <2> QED
    BY <1>4, <2>1, MineFinite
<1> QED
  BY <1>3, <1>4

(* A client that has counted has taken all there is for it: nothing is left *)
(* in its queue, and nothing will be sent to it any more.                   *)
LEMMA CountedHasAll ==
    ASSUME ConversionsExact, SharesInv, Rows # {}, NEW n \in Client, pc[n] \in Counted
    PROVE  inbox[n] = << >> /\ Mine(n, next) = Mine(n, AllChunks)
<1> USE DEF SharesInv, Shares, TypeInv
<1>1. n \in Node
  BY ServerAndClients
<1>2. next \in Nat /\ AllChunks \in Nat /\ next <= AllChunks
  BY RowsInChunks DEF DealInTurn
<1>3. Mine(n, next) \subseteq Mine(n, AllChunks)
  BY <1>2 DEF Mine
<1>4. /\ Cardinality(Mine(n, next)) <= Cardinality(Mine(n, AllChunks))
      /\ Cardinality(Mine(n, next)) = Cardinality(Mine(n, AllChunks))
            => Mine(n, next) = Mine(n, AllChunks)
      /\ Cardinality(Mine(n, next)) \in Nat /\ Cardinality(Mine(n, AllChunks)) \in Nat
  BY <1>1, <1>2, <1>3, MineFinite, FS_Subset
<1>5. received[n] >= Cardinality(Mine(n, AllChunks))
  BY DEF TookItsShare, NumReceived, Share, Mine, AllChunks
<1>6. received[n] + Len(inbox[n]) = Cardinality(Mine(n, next))
  BY DEF OneMessageAChunk, Counted
<1>7. received[n] \in Nat /\ inbox[n] \in Seq(Message(n)) /\ Len(inbox[n]) \in Nat
  BY <1>1 DEF TypeOK
<1>8. /\ Len(inbox[n]) = 0
      /\ Cardinality(Mine(n, next)) = Cardinality(Mine(n, AllChunks))
  BY <1>4, <1>5, <1>6, <1>7
<1>9. inbox[n] = << >>
  BY <1>7, <1>8
<1> QED
  BY <1>4, <1>8, <1>9

---------------------------------------------------------------------------
(* What no step changes.                                                    *)
LEMMA SameText ==
    ASSUME text' = text
    PROVE  /\ Rows' = Rows /\ AllChunks' = AllChunks
           /\ \A n \in Node : Due(n)' = Due(n) /\ NumReceived(n)' = NumReceived(n)
BY DEF Rows, AllChunks, Due, NumReceived, Survives, Sent, Place

(* A step that deals and takes no chunk.  A process that fails has no part  *)
(* any more in what is said of a client.                                    *)
LEMMA QuietKeepsShares ==
    ASSUME SharesInv, Rows # {}, UNCHANGED <<text, data, next, selectedNode>>,
           \A n \in Client :
              \/ pc'[n] = "failed" /\ inbox'[n] = << >>
              \/ /\ inbox'[n] = inbox[n] /\ received'[n] = received[n]
                 /\ pc'[n] = "failed" \/ pc[n] # "failed"
                 /\ pc'[n] \in Counted => received[n] >= NumReceived(n)
    PROVE  Shares'
<1> USE ServerAndClients DEF SharesInv, Shares
<1>1. /\ Rows' = Rows /\ AllChunks' = AllChunks
      /\ \A n \in Node : Due(n)' = Due(n) /\ NumReceived(n)' = NumReceived(n)
  BY SameText
<1>2. \A n \in Client : inbox'[n] = inbox[n] =>
         /\ Pending(n)' = Pending(n)
         /\ \A i \in Pending(n) : Carries(n, i)' = Carries(n, i)
         /\ \A r \in Rows : Has(n, r)' <=> Has(n, r)
  BY DEF Pending, Carries, Has
<1>3. \A n \in Client : inbox'[n] = << >> => Pending(n)' = {}
  BY DEF Pending
<1>4. DealInTurn' /\ ServerKeeps'
  BY <1>1 DEF DealInTurn, ServerKeeps, Turn
<1>5. OnlyItsOwn'
  BY <1>1, <1>2, <1>3 DEF OnlyItsOwn
<1>6. AllOfItsOwn'
  BY <1>1, <1>2 DEF AllOfItsOwn, Due
<1>7. OneMessageAChunk'
  BY DEF OneMessageAChunk, Mine
<1>8. TookItsShare'
  BY <1>1 DEF TookItsShare, Counted
<1> QED
  BY <1>4, <1>5, <1>6, <1>7, <1>8

LEMMA EndKeepsShares ==
    ASSUME ConversionsExact, SharesInv, Rows # {}, NEW n \in Node,
           \/ End(n, "failed")
           \/ End(n, "done") /\ pc[n] = "leave",
           UNCHANGED <<text, data, next, selectedNode, received>>
    PROVE  Shares'
<1>1. DOMAIN pc = Node /\ DOMAIN inbox = Node
  BY DEF SharesInv, TypeInv, TypeOK
<1>2. inbox' = [inbox EXCEPT ![n] = << >>]
  BY DEF End, CloseSocket
<1>3. ASSUME NEW m \in Client
      PROVE  \/ pc'[m] = "failed" /\ inbox'[m] = << >>
             \/ /\ inbox'[m] = inbox[m] /\ received'[m] = received[m]
                /\ pc'[m] = "failed" \/ pc[m] # "failed"
                /\ pc'[m] \in Counted => received[m] >= NumReceived(m)
  <2>1. CASE m # n
    BY <1>1, <1>2, <2>1, ServerAndClients
       DEF End, Goto, SharesInv, Shares, TookItsShare, Counted
  <2>2. CASE m = n /\ End(n, "failed")
    BY <1>1, <1>2, <2>2 DEF End, Goto
  <2>3. CASE m = n /\ End(n, "done") /\ pc[n] = "leave"
    <3>1. pc'[n] = "done" /\ inbox'[n] = << >>
      BY <1>1, <1>2, <2>3 DEF End, Goto
    <3>2. inbox[n] = << >> /\ received[n] >= NumReceived(n)
      BY <2>3, CountedHasAll DEF SharesInv, Shares, TookItsShare, Counted
    <3> QED
      BY <2>3, <3>1, <3>2
  <2> QED
    BY <2>1, <2>2, <2>3
<1> QED
  BY <1>3, QuietKeepsShares

(* The next turn.                                                           *)
LEMMA TurnFollows ==
    ASSUME ConversionsExact, SharesInv, Rows # {}, text' = text, Dealing,
           next' = next + 1, selectedNode' = NextNode(selectedNode, NumNodes)
    PROVE  DealInTurn'
<1>1. /\ next \in Nat /\ AllChunks \in Nat /\ NumNodes \in Nat \ {0}
      /\ AsSize(AllChunks) = AllChunks
      /\ next <= AllChunks /\ selectedNode = next % NumNodes
  BY RowsInChunks DEF SharesInv, Shares, TypeInv, DealInTurn
<1>2. next < AllChunks
  BY <1>1 DEF Dealing, AllChunks
<1>3. (next + 1) % NumNodes = NextNode(selectedNode, NumNodes)
  BY <1>1, ModNext DEF NextNode
<1> QED
  BY <1>1, <1>2, <1>3, SameText DEF DealInTurn

LEMMA DealKeepKeepsShares ==
    ASSUME ConversionsExact, SharesInv, Rows # {}, Dealing, selectedNode = Server,
           data' = [data EXCEPT ![Server] = @ \union Chunk(next, Rows)],
           next' = next + 1, selectedNode' = NextNode(selectedNode, NumNodes),
           UNCHANGED <<inbox, pc, text, received>>
    PROVE  Shares'
<1> USE ServerAndClients DEF SharesInv, Shares, TypeInv
<1>1. /\ Rows' = Rows /\ AllChunks' = AllChunks
      /\ \A n \in Node : Due(n)' = Due(n) /\ NumReceived(n)' = NumReceived(n)
  BY SameText
<1>2. next \in Nat /\ next % NumNodes = Server
  BY DEF DealInTurn, TypeOK
<1>3. /\ data'[Server] = data[Server] \union Chunk(next, Rows)
      /\ \A n \in Client : data'[n] = data[n]
  BY DEF TypeOK
<1>4. \A n \in Client :
         /\ Pending(n)' = Pending(n)
         /\ \A i \in Pending(n) : Carries(n, i)' = Carries(n, i)
         /\ \A r \in Rows : Has(n, r)' <=> Has(n, r)
  BY <1>3 DEF Pending, Carries, Has
<1>5. \A r \in Rows : r < (next + 1) * RowsPerChunk =>
         \/ r < next * RowsPerChunk
         \/ r \in Chunk(next, Rows) /\ Turn(r) = Server
  BY <1>2, BelowNext, ChunkIsQuotient
<1>6. DealInTurn'
  BY TurnFollows
<1>7. ServerKeeps'
  BY <1>1, <1>3, <1>5 DEF ServerKeeps, Turn
<1>8. OnlyItsOwn'
  BY <1>1, <1>3, <1>4 DEF OnlyItsOwn
<1>9. AllOfItsOwn'
  <2> SUFFICES ASSUME NEW n \in Client, pc[n] # "failed", NEW r \in Due(n),
                      r < (next + 1) * RowsPerChunk
               PROVE  Has(n, r)
    BY <1>1, <1>4 DEF AllOfItsOwn, Due
  <2>1. r \in Rows /\ Turn(r) # Server
    BY DEF Due
  <2>2. r < next * RowsPerChunk
    BY <1>5, <2>1
  <2> QED
    BY <2>2 DEF AllOfItsOwn
<1>10. OneMessageAChunk'
  <2>1. \A n \in Client : Cardinality(Mine(n, next + 1)) = Cardinality(Mine(n, next))
    BY <1>2, MineGrows, MineFinite
  <2> QED
    BY <2>1 DEF OneMessageAChunk, Mine
<1>11. TookItsShare'
  BY <1>1 DEF TookItsShare
<1> QED
  BY <1>6, <1>7, <1>8, <1>9, <1>10, <1>11

LEMMA DealSendKeepsShares ==
    ASSUME ConversionsExact, SharesInv, Rows # {}, Dealing, selectedNode # Server,
           Send(Server, selectedNode, ChunkMsg(next)),
           next' = next + 1, selectedNode' = NextNode(selectedNode, NumNodes),
           UNCHANGED <<pc, text, received, data>>
    PROVE  Shares'
<1> USE ServerAndClients DEF SharesInv, Shares, TypeInv
<1> DEFINE new == {r \in Chunk(next, Rows) : Survives(r)}
<1>1. /\ Rows' = Rows /\ AllChunks' = AllChunks
      /\ \A n \in Node : Due(n)' = Due(n) /\ NumReceived(n)' = NumReceived(n)
  BY SameText
<1>2. PICK s \in Client : s = selectedNode /\ next \in Nat /\ next % NumNodes = s
  BY DEF DealInTurn, TypeOK
<1>3. /\ inbox' = [inbox EXCEPT ![s] = Append(@, ChunkMsg(next))]
      /\ DOMAIN inbox = Node /\ inbox[s] \in Seq(Message(s))
  BY <1>2 DEF Send, TypeOK
<1>4. PICK last \in Nat :
         /\ last = Len(inbox[s]) + 1
         /\ Pending(s)' = Pending(s) \union {last}
         /\ \A i \in Pending(s) : Carries(s, i)' = Carries(s, i)
         /\ Carries(s, last)' = new
         /\ Len(inbox'[s]) = Len(inbox[s]) + 1 /\ Len(inbox[s]) \in Nat
  <2>1. inbox'[s] = Append(inbox[s], ChunkMsg(next)) /\ Len(inbox[s]) \in Nat
    BY <1>3
  <2>2. Len(inbox'[s]) = Len(inbox[s]) + 1
    BY <1>3, <2>1
  <2>3. \A i \in 1 .. Len(inbox[s]) : inbox'[s][i] = inbox[s][i]
    BY <1>3, <2>1
  <2>4. inbox'[s][Len(inbox[s]) + 1] = ChunkMsg(next)
    BY <1>3, <2>1
  <2>5. ChunkMsg(next).kind = "chunk" /\ ChunkMsg(next).rows = new
    BY DEF ChunkMsg
  <2>6. 1 .. Len(inbox[s]) + 1 = (1 .. Len(inbox[s])) \union {Len(inbox[s]) + 1}
    BY <2>1
  <2> QED
    BY <2>1, <2>2, <2>3, <2>4, <2>5, <2>6 DEF Pending, Carries
<1>5. \A n \in Client : n # s =>
         /\ inbox'[n] = inbox[n] /\ Pending(n)' = Pending(n)
         /\ \A i \in Pending(n) : Carries(n, i)' = Carries(n, i)
         /\ \A r \in Rows : Has(n, r)' <=> Has(n, r)
  BY <1>3 DEF Pending, Carries, Has
<1>6. \A r \in Rows : Has(s, r)' <=> Has(s, r) \/ r \in new
  BY <1>4 DEF Has
<1>7. /\ new \subseteq Due(s)
      /\ \A r \in Rows : r < (next + 1) * RowsPerChunk =>
            \/ r < next * RowsPerChunk
            \/ /\ r \in Chunk(next, Rows) /\ Turn(r) = s
               /\ r \div RowsPerChunk = next
  BY <1>2, BelowNext, ChunkIsQuotient DEF Due
<1>8. DealInTurn'
  BY TurnFollows
<1>9. ServerKeeps'
  BY <1>1, <1>2, <1>7 DEF ServerKeeps, Turn
<1>10. OnlyItsOwn'
  BY <1>1, <1>4, <1>5, <1>7 DEF OnlyItsOwn
<1>11. AllOfItsOwn'
  <2> SUFFICES ASSUME NEW n \in Client, pc[n] # "failed", NEW r \in Due(n),
                      r < (next + 1) * RowsPerChunk
               PROVE  Has(n, r)'
    BY <1>1 DEF AllOfItsOwn
  <2>1. r \in Rows /\ Turn(r) = n /\ Survives(r)
    BY DEF Due
  <2>2. CASE r < next * RowsPerChunk
    BY <1>5, <1>6, <2>1, <2>2 DEF AllOfItsOwn
  <2>3. CASE ~(r < next * RowsPerChunk)
    <3>1. n = s /\ r \in new
      BY <1>7, <2>1, <2>3
    <3> QED
      BY <1>6, <2>1, <3>1
  <2> QED
    BY <2>2, <2>3
<1>12. OneMessageAChunk'
  <2> SUFFICES ASSUME NEW n \in Client, pc[n] # "failed"
               PROVE  received[n] + Len(inbox'[n]) = Cardinality(Mine(n, next + 1))
    BY DEF OneMessageAChunk, Mine
  <2>1. /\ received[n] \in Nat /\ Len(inbox[n]) \in Nat
        /\ received[n] + Len(inbox[n]) = Cardinality(Mine(n, next))
        /\ Cardinality(Mine(n, next)) \in Nat
    <3>1. received[n] \in Nat /\ inbox[n] \in Seq(Message(n))
      BY DEF TypeOK
    <3>2. received[n] + Len(inbox[n]) = Cardinality(Mine(n, next))
      BY DEF OneMessageAChunk
    <3>3. Cardinality(Mine(n, next)) \in Nat
      BY <1>2, MineFinite
    <3> QED
      BY <3>1, <3>2, <3>3
  <2>2. CASE n = s
    <3>1. Cardinality(Mine(n, next + 1)) = Cardinality(Mine(n, next)) + 1
      BY <1>2, <2>2, MineGrows
    <3>2. Len(inbox'[n]) = Len(inbox[n]) + 1
      BY <1>4, <2>2
    <3> QED
      BY <2>1, <3>1, <3>2
  <2>3. CASE n # s
    <3>1. Cardinality(Mine(n, next + 1)) = Cardinality(Mine(n, next)) + 0
      BY <1>2, <2>3, MineGrows
    <3>2. inbox'[n] = inbox[n]
      BY <1>5, <2>3
    <3> QED
      BY <2>1, <3>1, <3>2
  <2> QED
    BY <2>2, <2>3
<1>13. TookItsShare'
  BY <1>1 DEF TookItsShare
<1> QED
  BY <1>8, <1>9, <1>10, <1>11, <1>12, <1>13

LEMMA TakeChunkKeepsShares ==
    ASSUME ConversionsExact, SharesInv, Rows # {}, NEW n \in Client,
           pc[n] = "take", Receive(n),
           data' = [data EXCEPT ![n] = @ \union Head(inbox[n]).rows],
           received' = [received EXCEPT ![n] = @ + 1],
           UNCHANGED <<pc, text, next, selectedNode>>
    PROVE  Shares'
<1> USE ServerAndClients DEF SharesInv, Shares, TypeInv
<1>1. /\ Rows' = Rows /\ AllChunks' = AllChunks
      /\ \A m \in Node : Due(m)' = Due(m) /\ NumReceived(m)' = NumReceived(m)
  BY SameText
<1>2. /\ n \in Node /\ 1 \in Pending(n) /\ Carries(n, 1) = Head(inbox[n]).rows
      /\ inbox' = [inbox EXCEPT ![n] = Tail(@)] /\ inbox[n] # << >>
      /\ DOMAIN inbox = Node /\ inbox[n] \in Seq(Message(n))
  BY HeadCarries DEF Receive, TypeOK
<1>3. /\ data'[n] = data[n] \union Carries(n, 1)
      /\ \A m \in Node : m # n => data'[m] = data[m]
  BY <1>2 DEF TypeOK
<1>4. /\ inbox'[n] = Tail(inbox[n])
      /\ Len(inbox[n]) \in Nat /\ Len(inbox'[n]) = Len(inbox[n]) - 1
      /\ \A i \in 1 .. Len(inbox[n]) - 1 : inbox'[n][i] = inbox[n][i + 1]
  BY <1>2
<1>5. /\ \A i \in Pending(n)' : i + 1 \in Pending(n) /\ Carries(n, i)' = Carries(n, i + 1)
      /\ \A j \in Pending(n) : j # 1 =>
            j - 1 \in Pending(n)' /\ Carries(n, j - 1)' = Carries(n, j)
  <2>1. \A i \in Pending(n)' : i \in 1 .. Len(inbox[n]) - 1
    BY <1>4 DEF Pending
  <2>2. ASSUME NEW i \in 1 .. Len(inbox[n]) - 1
        PROVE  /\ i \in Pending(n)' /\ i + 1 \in Pending(n)
               /\ Carries(n, i)' = Carries(n, i + 1)
    BY <1>4 DEF Pending, Carries
  <2>3. ASSUME NEW j \in Pending(n), j # 1
        PROVE  j - 1 \in Pending(n)' /\ Carries(n, j - 1)' = Carries(n, j)
    <3>1. j - 1 \in 1 .. Len(inbox[n]) - 1 /\ (j - 1) + 1 = j
      BY <1>4, <2>3 DEF Pending
    <3> QED
      BY <2>2, <3>1
  <2> QED
    BY <2>1, <2>2, <2>3
<1>6. \A m \in Client : m # n =>
         /\ inbox'[m] = inbox[m] /\ Pending(m)' = Pending(m)
         /\ \A i \in Pending(m) : Carries(m, i)' = Carries(m, i)
         /\ \A r \in Rows : Has(m, r)' <=> Has(m, r)
  BY <1>2, <1>3 DEF Pending, Carries, Has
<1>7. \A r \in Rows : Has(n, r) => Has(n, r)'
  <2> SUFFICES ASSUME NEW r \in Rows, Has(n, r) PROVE Has(n, r)'
    OBVIOUS
  <2>1. CASE r \in data[n] \/ r \in Carries(n, 1)
    BY <1>3, <2>1 DEF Has
  <2>2. CASE \E j \in Pending(n) : j # 1 /\ r \in Carries(n, j)
    BY <1>5, <2>2 DEF Has
  <2> QED
    BY <2>1, <2>2 DEF Has
<1>8. DealInTurn'
  BY <1>1 DEF DealInTurn
<1>9. ServerKeeps'
  BY <1>1, <1>3 DEF ServerKeeps, Turn
<1>10. OnlyItsOwn'
  BY <1>1, <1>2, <1>3, <1>5, <1>6 DEF OnlyItsOwn
<1>11. AllOfItsOwn'
  BY <1>1, <1>6, <1>7 DEF AllOfItsOwn, Due
<1>12. OneMessageAChunk'
  <2> SUFFICES ASSUME NEW m \in Client, pc[m] # "failed"
               PROVE  received'[m] + Len(inbox'[m]) = Cardinality(Mine(m, next))
    BY DEF OneMessageAChunk, Mine
  <2>1. /\ received[m] \in Nat /\ DOMAIN received = Node
        /\ received[m] + Len(inbox[m]) = Cardinality(Mine(m, next))
    BY DEF OneMessageAChunk, TypeOK
  <2>2. CASE m = n
    <3>1. received'[m] = received[m] + 1
      BY <2>1, <2>2
    <3>2. Len(inbox[m]) \in Nat /\ Len(inbox'[m]) = Len(inbox[m]) - 1
      BY <1>4, <2>2
    <3>3. received'[m] + Len(inbox'[m]) = received[m] + Len(inbox[m])
      BY <2>1, <3>1, <3>2
    <3> QED
      BY <2>1, <3>3
  <2>3. CASE m # n
    BY <1>6, <2>1, <2>3
  <2> QED
    BY <2>2, <2>3
<1>13. TookItsShare'
  BY <1>1 DEF TookItsShare, Counted, TypeOK
<1> QED
  BY <1>8, <1>9, <1>10, <1>11, <1>12, <1>13

---------------------------------------------------------------------------
LEMMA InitShares ==
    ASSUME ConversionsExact, Init
    PROVE  SharesInv
<1>1. TypeInv
  BY InitTyped
<1>2. /\ next = 0 /\ selectedNode = 0
      /\ \A n \in Node : data[n] = {} /\ inbox[n] = << >> /\ received[n] = 0
      /\ \A n \in Client : pc[n] = "take"
  BY ServerAndClients DEF Init, Server
<1>3. ASSUME Rows # {}
      PROVE  Shares
  <2>1. /\ AllChunks \in Nat /\ NumNodes \in Nat \ {0} /\ RowsPerChunk \in Nat
        /\ Rows \subseteq Nat
    BY <1>1, <1>3, RowsInChunks DEF TypeInv
  <2>2. 0 % NumNodes = 0
    BY <2>1
  <2>3. \A r \in Rows : ~(r < next * RowsPerChunk)
    BY <1>2, <2>1
  <2>4. \A n \in Client : Mine(n, next) = {} /\ Pending(n) = {}
    BY <1>2, ServerAndClients DEF Mine, Pending
  <2>5. \A n \in Client : received[n] + Len(inbox[n]) = Cardinality(Mine(n, next))
    <3>1. Cardinality({}) = 0
      BY FS_EmptySet
    <3>2. \A n \in Client : received[n] = 0 /\ Len(inbox[n]) = 0
      BY <1>2, ServerAndClients
    <3>3. ASSUME NEW n \in Client
          PROVE  received[n] + Len(inbox[n]) = Cardinality(Mine(n, next))
      <4>1. Cardinality(Mine(n, next)) = 0
        BY <2>4, <3>1
      <4>2. received[n] = 0 /\ Len(inbox[n]) = 0
        BY <3>2
      <4>3. received[n] + Len(inbox[n]) = 0 + 0
        BY <4>2, Zenon
      <4>4. 0 + 0 = 0
        OBVIOUS
      <4> QED
        BY <4>1, <4>3, <4>4, Zenon
    <3> QED
      BY <3>3, Zenon
  <2>6. OnlyItsOwn
    BY <1>2, <2>4, ServerAndClients DEF OnlyItsOwn
  <2> QED
    BY <1>2, <2>1, <2>2, <2>3, <2>5, <2>6
       DEF Shares, DealInTurn, ServerKeeps, AllOfItsOwn, OneMessageAChunk,
           TookItsShare, Counted, Due
<1> QED
  BY <1>1, <1>3 DEF SharesInv

LEMMA NextShares ==
    ASSUME ConversionsExact, SharesInv, [Next]_vars
    PROVE  SharesInv'
<1>m. text' = text
  BY DEF Next, Finished, Step, ServerStep, ClientStep, DealKeep, DealSend,
         Collect, Reduce, TakeChunk, Report, LocalCount, Leave, MemoryFault,
         FaultInSend, TakesEmpty, Fail, Dies, vars
<1> SUFFICES ASSUME Rows # {} PROVE Shares'
  BY <1>m, NextTyped DEF SharesInv, Rows
<1>s. /\ Server \in Node /\ Client \subseteq Node /\ Server \notin Client
      /\ DOMAIN pc = Node /\ DOMAIN inbox = Node /\ DOMAIN received = Node
  BY ServerAndClients DEF SharesInv, TypeInv, TypeOK
<1>f. ASSUME NEW n \in Node, Dies(n)
      PROVE  Shares'
  BY <1>f, EndKeepsShares DEF Dies
<1>t. \A n \in Client : pc[n] \in Counted => received[n] >= NumReceived(n)
  BY DEF SharesInv, Shares, TookItsShare
<1>1. CASE DealKeep
  BY <1>1, <1>s, <1>f, DealKeepKeepsShares, FaultsEnd DEF DealKeep, netVars
<1>2. CASE DealSend
  BY <1>2, <1>s, <1>f, DealSendKeepsShares, FaultsEnd DEF DealSend
<1>3. ASSUME NEW n \in Client, TakeChunk(n)
      PROVE  Shares'
  BY <1>3, <1>s, <1>f, TakeChunkKeepsShares, FaultsEnd DEF TakeChunk
<1>4. ASSUME NEW n \in Node, LocalCount(n)
      PROVE  Shares'
  <2>1. CASE /\ Goto(n, IF n = Server THEN "collect" ELSE "report")
             /\ UNCHANGED <<inbox, text, next, selectedNode, received, data>>
    <3>1. n # Server => pc[n] = "take" /\ received[n] >= NumReceived(n)
      BY <1>4 DEF LocalCount
    <3>2. \A m \in Client :
             /\ pc'[m] = "failed" \/ pc[m] # "failed"
             /\ pc'[m] \in Counted => received[m] >= NumReceived(m)
      BY <1>s, <1>t, <2>1, <3>1 DEF Goto
    <3> QED
      BY <1>s, <2>1, <3>2, QuietKeepsShares
  <2> QED
    BY <1>4, <1>f, <2>1, FaultsEnd DEF LocalCount, netVars
<1>5. ASSUME NEW n \in Client, Report(n)
      PROVE  Shares'
  <2>1. CASE /\ \E counts \in Carried(kv[n][n]) :
                   Send(n, Server, [kind |-> "counts", sender |-> n,
                                    counts |-> counts])
             /\ Goto(n, "leave")
             /\ UNCHANGED <<text, next, selectedNode, received, data>>
    <3>1. \A m \in Client : inbox'[m] = inbox[m]
      BY <1>s, <2>1 DEF Send
    <3>2. \A m \in Client :
             /\ pc'[m] = "failed" \/ pc[m] # "failed"
             /\ pc'[m] \in Counted => received[m] >= NumReceived(m)
      BY <1>5, <1>s, <1>t, <2>1 DEF Goto, Report, Counted
    <3> QED
      BY <1>s, <2>1, <3>1, <3>2, QuietKeepsShares
  <2> QED
    BY <1>5, <1>s, <1>f, <2>1, FaultsEnd DEF Report
<1>6. ASSUME NEW n \in Node, Leave(n)
      PROVE  Shares'
  BY <1>6, <1>f, EndKeepsShares, FaultsEnd DEF Leave
<1>7. CASE Collect
  <2>1. CASE /\ Receive(Server) /\ received' = [received EXCEPT ![Server] = @ + 1]
             /\ UNCHANGED <<pc, text, next, selectedNode, data>>
    <3>1. \A m \in Client : inbox'[m] = inbox[m] /\ received'[m] = received[m]
      BY <1>s, <2>1 DEF Receive
    <3> QED
      BY <1>t, <2>1, <3>1, QuietKeepsShares
  <2> QED
    BY <1>7, <1>s, <1>f, <2>1, FaultsEnd DEF Collect
<1>8. CASE Reduce
  <2>1. CASE /\ Goto(Server, "leave")
             /\ UNCHANGED <<inbox, text, next, selectedNode, received, data>>
    <3>1. \A m \in Client : pc'[m] = pc[m]
      BY <1>s, <2>1 DEF Goto
    <3> QED
      BY <1>t, <2>1, <3>1, QuietKeepsShares
  <2>2. \/ /\ Goto(Server, "leave")
           /\ UNCHANGED <<inbox, text, next, selectedNode, received, data>>
        \/ Dies(Server)
    BY <1>8, <1>s, FaultsEnd DEF Reduce, netVars
  <2> QED
    BY <1>s, <1>f, <2>1, <2>2
<1>9. CASE UNCHANGED vars
  BY <1>9, <1>t, QuietKeepsShares DEF vars, netVars
<1> QED
  BY <1>1, <1>2, <1>3, <1>4, <1>5, <1>6, <1>7, <1>8, <1>9
     DEF Next, Step, ServerStep, ClientStep, Finished

(* While no process has failed, every row that WordCount::run_ has dealt is *)
(* in a store or on its way, but for what the encoding of a message drops:  *)
(* for any number of nodes, and chunks of any size.                         *)
THEOREM RowsArrive == ConversionsExact => (Spec => []NoRowLost)
<1>1. ASSUME ConversionsExact, SharesInv
      PROVE  NoRowLost
  <2> SUFFICES ASSUME NobodyFails, NEW r \in Rows, r < next * RowsPerChunk
               PROVE  \/ \E n \in Node : Has(n, r)
                      \/ Turn(r) # Server /\ ~Survives(r)
    BY DEF NoRowLost, Has
  <2>1. Turn(r) \in Node
    BY <1>1, RowsInChunks DEF SharesInv, TypeInv
  <2>2. CASE Turn(r) = Server
    BY <1>1, <2>1, <2>2 DEF SharesInv, Shares, ServerKeeps, Has
  <2>3. CASE Turn(r) # Server /\ Survives(r)
    <3>1. Turn(r) \in Client /\ r \in Due(Turn(r))
      BY <2>1, <2>3, ServerAndClients DEF Due
    <3> QED
      BY <1>1, <2>1, <3>1 DEF SharesInv, Shares, AllOfItsOwn, NobodyFails
  <2> QED
    BY <2>2, <2>3
<1> QED
  <2> SUFFICES ASSUME ConversionsExact PROVE Spec => []NoRowLost
    OBVIOUS
  <2>1. Init => SharesInv
    BY InitShares
  <2>2. SharesInv /\ [Next]_vars => SharesInv'
    BY NextShares
  <2>3. SharesInv => NoRowLost
    BY <1>1
  <2> QED
    BY <2>1, <2>2, <2>3, PTL DEF Spec

(* A client that has counted has counted its share: the chunks it worked    *)
(* out for itself are those node 0 dealt it, whoever else has failed        *)
(* (WordCount::run_ on a client).                                           *)
THEOREM ClientsCountTheirShare == ConversionsExact => (Spec => []CountsOwnShare)
<1>1. ASSUME ConversionsExact, SharesInv
      PROVE  CountsOwnShare
  <2> SUFFICES ASSUME NEW n \in Client, pc[n] \in Counted
               PROVE  data[n] = Due(n)
    BY DEF CountsOwnShare, Counted, Due
  <2>1. n \in Node /\ data[n] \subseteq Rows
    BY <1>1, ServerAndClients DEF SharesInv, TypeInv, TypeOK
  <2>2. CASE Rows = {}
    BY <2>1, <2>2 DEF Due
  <2>3. CASE Rows # {}
    <3>1. data[n] \subseteq Due(n)
      BY <1>1, <2>3 DEF SharesInv, Shares, OnlyItsOwn
    <3>2. ASSUME NEW r \in Due(n)
          PROVE  r \in data[n]
      <4>1. r \in Rows /\ Turn(r) = n
        BY DEF Due
      <4>2. inbox[n] = << >> /\ Mine(n, next) = Mine(n, AllChunks)
        BY <1>1, <2>3, CountedHasAll
      <4>3. r \div RowsPerChunk \in Mine(n, AllChunks)
        BY <1>1, <2>3, <4>1, RowsInChunks DEF Mine, Turn, SharesInv, TypeInv
      <4>4. next \in Nat /\ r \div RowsPerChunk < next
        BY <1>1, <4>2, <4>3 DEF Mine, SharesInv, TypeInv, TypeOK
      <4>5. r < next * RowsPerChunk
        BY <1>1, <2>3, <4>1, <4>4, BelowStart DEF SharesInv, TypeInv
      <4>6. Has(n, r)
        BY <1>1, <2>3, <4>5 DEF SharesInv, Shares, AllOfItsOwn, Counted
      <4>7. Pending(n) = {}
        BY <4>2 DEF Pending
      <4> QED
        BY <4>6, <4>7 DEF Has
    <3> QED
      BY <3>1, <3>2
  <2> QED
    BY <2>2, <2>3
<1> QED
  <2> SUFFICES ASSUME ConversionsExact PROVE Spec => []CountsOwnShare
    OBVIOUS
  <2>1. Init => SharesInv
    BY InitShares
  <2>2. SharesInv /\ [Next]_vars => SharesInv'
    BY NextShares
  <2>3. SharesInv => CountsOwnShare
    BY <1>1
  <2> QED
    BY <2>1, <2>2, <2>3, PTL DEF Spec

---------------------------------------------------------------------------
(* Who is where: a client counts only behind its last chunk, and node 0     *)
(* leaves only behind the counts of every client.                           *)
Roles ==
    /\ pc[Server] \in {"deal", "collect", "leave", "done", "failed"}
    /\ \A n \in Client : pc[n] \in {"take", "failed"} \union Counted
HeardAll == pc[Server] \in {"leave", "done"} => received[Server] >= NumNodes - 1
RolesInv == Roles /\ HeardAll

LEMMA NextKeepsRoles ==
    ASSUME CountsInv, RolesInv, [Next]_vars
    PROVE  RolesInv'
<1>s. /\ Server \in Node /\ Client \subseteq Node /\ Server \notin Client
      /\ DOMAIN pc = Node /\ DOMAIN received = Node
      /\ received[Server] \in Nat /\ NumNodes \in Nat
      /\ \A n \in Node : n # Server => n \in Client
  BY ServerAndClients, NumNodesAssumption DEF CountsInv, TypeInv, TypeOK
<1>f. ASSUME NEW n \in Node, Dies(n)
      PROVE  RolesInv'
  BY <1>s, <1>f DEF Dies, End, Goto, RolesInv, Roles, HeardAll, Counted
<1>k. ASSUME pc' = pc, received'[Server] \in {received[Server], received[Server] + 1}
      PROVE  RolesInv'
  BY <1>s, <1>k DEF RolesInv, Roles, HeardAll
<1>1. CASE DealKeep \/ DealSend \/ Collect
  BY <1>s, <1>f, <1>k, <1>1, FaultsEnd DEF DealKeep, DealSend, Collect
<1>2. ASSUME NEW n \in Client, TakeChunk(n)
      PROVE  RolesInv'
  <2>1. n \in Node /\ n # Server
    BY <1>s
  <2> QED
    BY <1>s, <1>f, <1>k, <1>2, <2>1, FaultsEnd DEF TakeChunk
<1>3. ASSUME NEW n \in Node, LocalCount(n)
      PROVE  RolesInv'
  <2>1. CASE Dies(n)
    BY <1>f, <2>1
  <2>2. CASE Goto(n, IF n = Server THEN "collect" ELSE "report") /\ received' = received
    BY <1>s, <2>2 DEF Goto, RolesInv, Roles, HeardAll, Counted
  <2> QED
    BY <1>3, <2>1, <2>2, FaultsEnd DEF LocalCount
<1>4. ASSUME NEW n \in Client, Report(n)
      PROVE  RolesInv'
  <2>1. CASE Dies(n)
    BY <1>s, <1>f, <2>1
  <2>2. CASE Goto(n, "leave") /\ received' = received
    BY <1>s, <2>2 DEF Goto, RolesInv, Roles, HeardAll, Counted
  <2> QED
    BY <1>4, <2>1, <2>2, <1>s, FaultsEnd DEF Report
<1>5. ASSUME NEW n \in Node, Leave(n)
      PROVE  RolesInv'
  <2>1. CASE Dies(n)
    BY <1>f, <2>1
  <2>2. CASE Goto(n, "done") /\ received' = received
    BY <1>s, <1>5, <2>2 DEF Leave, Goto, RolesInv, Roles, HeardAll, Counted
  <2> QED
    BY <1>5, <2>1, <2>2, FaultsEnd DEF Leave, End
<1>6. CASE Reduce
  <2>1. CASE Dies(Server)
    BY <1>s, <1>f, <2>1
  <2>2. CASE Goto(Server, "leave") /\ received' = received
    BY <1>s, <1>6, <2>2 DEF Reduce, Goto, RolesInv, Roles, HeardAll, Counted
  <2> QED
    BY <1>6, <2>1, <2>2, <1>s, FaultsEnd DEF Reduce
<1>7. CASE UNCHANGED vars
  BY <1>k, <1>7 DEF vars
<1> QED
  BY <1>s, <1>1, <1>2, <1>3, <1>4, <1>5, <1>6, <1>7
     DEF Next, Step, ServerStep, ClientStep, Finished

(* Node 0 deals no chunk to a client that has gone on to count.             *)
LEMMA TargetIsTaking ==
    ASSUME ConversionsExact, SharesInv, Rows # {}, Dealing, selectedNode # Server
    PROVE  pc[selectedNode] \notin Counted
<1> DEFINE t == selectedNode
<1>1. /\ t \in Client /\ t \in Node /\ Dealing
      /\ next \in Nat /\ t = next % NumNodes /\ next < AllChunks
  BY ServerAndClients, RowsInChunks
     DEF Dealing, AllChunks, SharesInv, TypeInv, TypeOK, Shares, DealInTurn
<1>2. ASSUME pc[t] \in Counted PROVE FALSE
  <2>1. Mine(t, next) = Mine(t, AllChunks)
    BY <1>1, <1>2, CountedHasAll
  <2>2. AllChunks \in Nat
    BY RowsInChunks DEF SharesInv, TypeInv
  <2>3. next \in Mine(t, AllChunks) /\ next \notin Mine(t, next)
    BY <1>1, <2>2 DEF Mine
  <2> QED
    BY <2>1, <2>3
<1> QED
  BY <1>2

(* Node 0 does not leave before the counts of every client have come.       *)
LEMMA ServerIsListening ==
    ASSUME CountsInv, RolesInv, NEW n \in Client, pc[n] = "report"
    PROVE  pc[Server] # "done"
<1> SUFFICES ASSUME pc[Server] = "done" PROVE FALSE
  OBVIOUS
<1>1. Cardinality(Collected) >= Cardinality(Client)
  BY ClientsFinite DEF CountsInv, RolesInv, HeardAll
<1>2. Collected \subseteq Client
  BY DEF Collected
<1>3. /\ Cardinality(Collected) <= Cardinality(Client)
      /\ Cardinality(Collected) = Cardinality(Client) => Collected = Client
      /\ Cardinality(Collected) \in Nat /\ Cardinality(Client) \in Nat
  BY <1>2, ClientsFinite, FS_Subset, FS_CardinalityType
<1>4. Collected = Client
  BY <1>1, <1>3
<1> QED
  BY <1>4 DEF Collected, CountsInv, CountsApart, NotYetSent

(* A process that has returned from main has closed its socket: nobody is   *)
(* ever about to send to one, whichever processes fail, and whatever the    *)
(* listeners and the freed words do meanwhile (WordCount::run_).            *)
THEOREM EndedAreNotSentTo == ConversionsExact => (Spec => []NoSendToEnded)
<1>1. ASSUME ConversionsExact, SharesInv, CountsInv, RolesInv
      PROVE  NoSendToEnded
  <2>1. ASSUME Rows # {}, Dealing, selectedNode # Server
        PROVE  pc[selectedNode] # "done"
    BY <1>1, <2>1, TargetIsTaking DEF Counted
  <2>2. \A n \in Client : pc[n] = "report" => pc[Server] # "done"
    BY <1>1, ServerIsListening
  <2> QED
    BY <2>1, <2>2 DEF NoSendToEnded
<1> QED
  <2> SUFFICES ASSUME ConversionsExact PROVE Spec => []NoSendToEnded
    OBVIOUS
  <2>1. Init => SharesInv
    BY InitShares
  <2>2. SharesInv /\ [Next]_vars => SharesInv'
    BY NextShares
  <2>3. Init => RolesInv
    BY ServerAndClients DEF Init, RolesInv, Roles, HeardAll
  <2>4. CountsInv /\ RolesInv /\ [Next]_vars => RolesInv'
    BY NextKeepsRoles
  <2>5. SharesInv /\ CountsInv /\ RolesInv => NoSendToEnded
    BY <1>1
  <2> QED
    BY <2>1, <2>2, <2>3, <2>4, <2>5, CountsInvAlways, PTL DEF Spec

---------------------------------------------------------------------------
(* The answer: reduce adds up what the nodes have counted.                  *)

(* What node n holds of the text when the deal is over, and counts.         *)
Held(n) == {r \in Rows : Turn(r) = n /\ (n = Server \/ text[r] # EmptyWord)}
HeldCounts(n) == [w \in Terms |-> Cardinality({r \in Held(n) : text[r] = w})]

(* Every line of a message has room for what is written to it: a chunk, and *)
(* the different words of a text.  (Where it has not, words are lost.)      *)
LinesHold ==
    /\ RowsPerChunk <= LineRows
    /\ \A t \in Texts : Cardinality({t[r] : r \in DOMAIN t} \ {EmptyWord}) <= LineRows

(* Whatever counts are in a store or on their way are those of all the rows *)
(* the node holds; and node 0 answers last of all.                          *)
ServerOnly == data[Server] \subseteq {r \in Rows : Turn(r) = Server}
CountsRight ==
    /\ \A n \in Node : kv[n][n] \in {NoFrame, HeldCounts(n)}
    /\ \A m \in Node : kv[Server][m] \in {NoFrame, HeldCounts(m)}
    /\ \A i \in Pending(Server) : inbox[Server][i].counts = HeldCounts(Sender(i))
AnsweredLast == all # NoFrame => pc[Server] \in {"leave", "done", "failed"}
AnswerInv == ServerOnly /\ CountsRight /\ AnsweredLast

LEMMA HeldFinite ==
    ASSUME TypeOK, NEW n \in Node
    PROVE  /\ Held(n) \subseteq Rows
           /\ \A w : IsFiniteSet({r \in Held(n) : text[r] = w})
           /\ HeldCounts(n) \in Frames
<1>1. Held(n) \subseteq Rows /\ IsFiniteSet(Rows)
  BY RowsOfText DEF Held, TypeOK
<1>2. ASSUME NEW w
      PROVE  IsFiniteSet({r \in Held(n) : text[r] = w})
  <2>1. {r \in Held(n) : text[r] = w} \subseteq Rows
    BY <1>1
  <2> QED
    BY <1>1, <2>1, FS_Subset
<1>3. HeldCounts(n) \in Frames
  BY <1>2, FS_CardinalityType DEF HeldCounts, Frames
<1> QED
  BY <1>1, <1>2, <1>3

(* The message that carries the chunk of a row cuts no word of it.          *)
LEMMA WholeWords ==
    ASSUME TypeOK, ConversionsExact, LinesHold, NEW r \in Rows
    PROVE  Sent(r) = text[r]
<1>1. r \in Nat /\ RowsPerChunk \in Nat \ {0} /\ LineRows \in Nat
  BY RowsInChunks, WordCountAssumption
<1>2. Place(r) < RowsPerChunk /\ Place(r) \in Int
  BY <1>1, DivRange DEF Place
<1>3. Place(r) < LineRows
  BY <1>1, <1>2 DEF LinesHold
<1> QED
  BY <1>3 DEF Sent

(* A row survives in the message with its chunk unless its word is empty.   *)
LEMMA DueIsHeld ==
    ASSUME TypeOK, ConversionsExact, LinesHold, NEW n \in Client
    PROVE  Due(n) = Held(n)
<1>1. \A r \in Rows : Survives(r) <=> text[r] # EmptyWord
  BY WholeWords DEF Survives
<1>2. n # Server
  BY ServerAndClients
<1> QED
  BY <1>1, <1>2 DEF Due, Held

(* What a client reports arrives as it was counted.                         *)
LEMMA CountsCarried ==
    ASSUME TypeOK, LinesHold, NEW n \in Client
    PROVE  Carried(HeldCounts(n)) = {HeldCounts(n)}
<1> DEFINE frame == HeldCounts(n)
           present == {w \in Terms : frame[w] > 0} \ {EmptyWord}
           words == {text[r] : r \in Rows} \ {EmptyWord}
<1>0. n \in Node /\ n # Server
  BY ServerAndClients
<1>1. frame \in Frames
  BY <1>0, HeldFinite
<1>2. ASSUME NEW w \in Terms, frame[w] > 0
      PROVE  \E r \in Held(n) : text[r] = w
  <2> SUFFICES ASSUME \A r \in Held(n) : text[r] # w PROVE FALSE
    OBVIOUS
  <2>1. {r \in Held(n) : text[r] = w} = {}
    OBVIOUS
  <2>2. frame[w] = 0
    BY <2>1, FS_EmptySet DEF HeldCounts
  <2> QED
    BY <1>2, <2>2
<1>3. present \subseteq words
  BY <1>2 DEF Held
<1>4. ~(frame[EmptyWord] > 0)
  <2>1. EmptyWord \in Terms
    BY WordCountAssumption DEF Terms
  <2> QED
    BY <1>0, <1>2, <2>1 DEF Held
<1>5. Cardinality(present) <= LineRows
  <2>1. text \in Texts /\ IsFiniteSet(Rows)
    BY RowsOfText DEF TypeOK
  <2>2. IsFiniteSet({text[r] : r \in Rows})
    BY <2>1, RowsOfText, ImageFinite
  <2>3. IsFiniteSet(words)
    BY <2>2, FS_Subset
  <2>4. Cardinality(words) <= LineRows
    BY <2>1 DEF LinesHold, Rows
  <2> HIDE DEF present, words
  <2>5. Cardinality(present) <= Cardinality(words)
        /\ Cardinality(present) \in Nat /\ Cardinality(words) \in Nat
    BY <1>3, <2>3, FS_Subset, FS_CardinalityType
  <2> QED
    BY <2>4, <2>5, WordCountAssumption
<1>6. [w \in Terms |-> IF w \in present THEN frame[w] ELSE 0] = frame
  <2>1. \A w \in Terms : frame[w] \in Nat
    BY <1>1 DEF Frames
  <2>2. \A w \in Terms : w \notin present => frame[w] = 0
    BY <1>4, <2>1
  <2>3. frame = [w \in Terms |-> frame[w]]
    BY DEF HeldCounts
  <2> HIDE DEF frame, present
  <2> QED
    BY <2>2, <2>3
<1> HIDE DEF frame
<1>7. Carried(frame) = {[w \in Terms |-> IF w \in present THEN frame[w] ELSE 0]}
  BY <1>5 DEF Carried
<1> QED
  BY <1>6, <1>7 DEF frame

(* What a node counts is what it holds.                                     *)
LEMMA CountsAreHeld ==
    ASSUME ConversionsExact, LinesHold, SharesInv, CountsOwnShare', ServerOnly,
           NEW n \in Node, LocalCount(n), pc'[n] # "failed"
    PROVE  CountOf(n) = HeldCounts(n)
<1>t. TypeOK /\ text' = text /\ data' = data
  BY DEF SharesInv, TypeInv, LocalCount, MemoryFault, Fail, Dies
<1>w. \A r \in Rows : WordAt(n, r) = text[r]
  BY <1>t, WholeWords DEF WordAt
<1>1. CASE n # Server
  <2>1. n \in Client /\ pc'[n] = "report"
    <3>1. Goto(n, "report") \/ Goto(n, "failed")
      BY <1>1, FaultsEnd DEF LocalCount, Dies, End
    <3> QED
      BY <1>1, <1>t, <3>1, ServerAndClients DEF Goto, TypeOK
  <2>2. data'[n] = Due(n)'
    BY <2>1 DEF CountsOwnShare, Due, Turn
  <2>3. data[n] = Due(n)
    BY <1>1, <1>t, <2>2, SameText
  <2> QED
    <3>1. data[n] = Held(n)
      BY <1>t, <2>1, <2>3, DueIsHeld
    <3>2. \A w : {r \in data[n] : WordAt(n, r) = w} = {r \in Held(n) : text[r] = w}
      BY <1>w, <3>1 DEF Held
    <3> QED
      BY <3>2 DEF CountOf, HeldCounts
<1>2. CASE n = Server
  <2>1. data[n] \subseteq Held(n)
    BY <1>2 DEF ServerOnly, Held
  <2>2. ASSUME NEW r \in Held(n)
        PROVE  r \in data[n]
    <3>1. r \in Rows /\ Turn(r) = Server /\ Rows # {}
      BY <1>2 DEF Held
    <3>2. ~Dealing /\ pc[Server] = "deal"
      BY <1>2 DEF LocalCount
    <3>3. /\ next \in 0 .. AllChunks /\ AllChunks \in Nat /\ AsSize(AllChunks) = AllChunks
          /\ r \div RowsPerChunk \in 0 .. AllChunks - 1
      BY <1>t, <3>1, RowsInChunks DEF SharesInv, Shares, DealInTurn
    <3>4. next \in Nat /\ r \div RowsPerChunk < next
      BY <3>2, <3>3 DEF Dealing, AllChunks
    <3>5. r < next * RowsPerChunk
      BY <1>t, <3>1, <3>4, BelowStart
    <3> QED
      BY <1>2, <3>1, <3>5 DEF SharesInv, Shares, ServerKeeps
  <2>3. data[n] = Held(n)
    BY <2>1, <2>2
  <2>4. \A w : {r \in data[n] : WordAt(n, r) = w} = {r \in Held(n) : text[r] = w}
    BY <1>w, <2>3 DEF Held
  <2> QED
    BY <2>4 DEF CountOf, HeldCounts
<1> QED
  BY <1>1, <1>2

---------------------------------------------------------------------------
(* What no step changes.                                                    *)
LEMMA SameHeld ==
    ASSUME text' = text
    PROVE  /\ Rows' = Rows
           /\ \A n \in Node : HeldCounts(n)' = HeldCounts(n)
BY DEF Rows, HeldCounts, Held, Turn

(* A step that puts no counts into a store and sends none.                  *)
LEMMA QuietKeepsAnswer ==
    ASSUME TypeOK, AnswerInv, UNCHANGED <<text, kv>>, ServerOnly', AnsweredLast',
           inbox'[Server] \in {inbox[Server], << >>}
    PROVE  AnswerInv'
<1>1. Pending(Server)' \subseteq Pending(Server)
  BY DEF Pending
<1>2. ASSUME NEW i \in Pending(Server)'
      PROVE  inbox'[Server][i].counts = HeldCounts(Sender(i)') /\ Sender(i)' = Sender(i)
             /\ Sender(i) \in Node
  <2>1. inbox'[Server] = inbox[Server] /\ i \in Pending(Server)
    BY <1>1 DEF Pending
  <2>2. Sender(i) \in Node
    BY <2>1, PendingTyped, ServerAndClients
  <2> QED
    BY <2>1, <2>2 DEF AnswerInv, CountsRight, Sender
<1>3. CountsRight'
  BY <1>2, SameHeld DEF AnswerInv, CountsRight
<1> QED
  BY <1>3 DEF AnswerInv

LEMMA EndKeepsAnswer ==
    ASSUME TypeOK, AnswerInv, NEW n \in Node, NEW label \in {"done", "failed"},
           End(n, label), UNCHANGED <<text, data, kv, all>>
    PROVE  AnswerInv'
<1>1. inbox'[Server] \in {inbox[Server], << >>}
  BY ServerAndClients DEF TypeOK, End, CloseSocket
<1>2. ServerOnly'
  BY SameHeld DEF AnswerInv, ServerOnly, Turn
<1>3. AnsweredLast'
  BY ServerAndClients DEF AnswerInv, AnsweredLast, TypeOK, End, Goto
<1> QED
  BY <1>1, <1>2, <1>3, QuietKeepsAnswer

LEMMA LocalCountKeepsAnswer ==
    ASSUME ConversionsExact, LinesHold, SharesInv, CountsOwnShare', AnswerInv,
           NEW n \in Node, LocalCount(n)
    PROVE  AnswerInv'
<1>t. TypeOK
  BY DEF SharesInv, TypeInv
<1>1. CASE Dies(n)
  BY <1>t, <1>1, EndKeepsAnswer DEF Dies
<1>2. CASE /\ kv' = [kv EXCEPT ![n][n] = CountOf(n)]
           /\ Goto(n, IF n = Server THEN "collect" ELSE "report")
           /\ UNCHANGED <<netVars, text, next, selectedNode, received, data, all>>
  <2>1. pc'[n] # "failed" /\ AnsweredLast'
    <3>1. n = Server => pc[Server] = "deal"
      BY DEF LocalCount
    <3> QED
      BY <1>t, <1>2, <3>1, ServerAndClients DEF Goto, TypeOK, AnswerInv, AnsweredLast
  <2>2. CountOf(n) = HeldCounts(n)
    BY <2>1, CountsAreHeld DEF AnswerInv
  <2>3. ServerOnly'
    BY <1>2, SameHeld DEF AnswerInv, ServerOnly, Turn
  <2>4. /\ Pending(Server)' = Pending(Server) /\ inbox' = inbox
        /\ \A i \in Pending(Server) : Sender(i)' = Sender(i) /\ Sender(i) \in Node
    BY <1>t, <1>2, PendingTyped, ServerAndClients DEF netVars, Pending, Sender
  <2>5. \A m \in Node : kv'[m][m] \in {kv[m][m], HeldCounts(m)}
    BY <1>t, <1>2, <2>2 DEF TypeOK
  <2>6. \A m \in Node : kv'[Server][m] \in {kv[Server][m], HeldCounts(m)}
    BY <1>t, <1>2, <2>2, ServerAndClients DEF TypeOK
  <2>7. text' = text
    BY <1>2
  <2>8. CountsRight'
    BY <2>4, <2>5, <2>6, <2>7, SameHeld DEF AnswerInv, CountsRight
  <2> QED
    BY <2>1, <2>3, <2>8 DEF AnswerInv
<1> QED
  BY <1>1, <1>2, FaultsEnd DEF LocalCount

LEMMA ReportKeepsAnswer ==
    ASSUME TypeInv, LinesHold, AnswerInv, NEW n \in Client, Report(n)
    PROVE  AnswerInv'
<1> USE ServerAndClients DEF TypeInv
<1>1. CASE Dies(n)
  BY <1>1, EndKeepsAnswer DEF Dies
<1>2. CASE /\ \E counts \in Carried(kv[n][n]) :
                 Send(n, Server, [kind |-> "counts", sender |-> n, counts |-> counts])
           /\ Goto(n, "leave")
           /\ UNCHANGED <<text, next, selectedNode, received, data, kv, all>>
  <2>1. kv[n][n] = HeldCounts(n)
    <3>1. kv[n][n] \in Frames
      BY DEF Report, Reporting
    <3> QED
      BY <3>1, FrameIsNotNull DEF AnswerInv, CountsRight
  <2> DEFINE msg == [kind |-> "counts", sender |-> n, counts |-> HeldCounts(n)]
  <2>2. Send(n, Server, msg)
    BY <1>2, <2>1, CountsCarried
  <2>3. inbox[Server] \in Seq(CountsMessage) /\ inbox'[Server] = Append(inbox[Server], msg)
    BY <2>2 DEF Send, TypeOK, Message
  <2>4. msg.sender = n /\ msg.counts = HeldCounts(n)
    OBVIOUS
  <2> HIDE DEF msg
  <2>5. ASSUME NEW i \in Pending(Server)'
        PROVE  Sender(i)' \in Node /\ inbox'[Server][i].counts = HeldCounts(Sender(i)')
    <3>1. CASE i \in Pending(Server)
      <4>1. inbox'[Server][i] = inbox[Server][i]
        BY <2>3, <3>1 DEF Pending
      <4> QED
        BY <3>1, <4>1, PendingTyped DEF AnswerInv, CountsRight, Sender
    <3>2. CASE i \notin Pending(Server)
      <4>1. inbox'[Server][i] = msg
        BY <2>3, <3>2 DEF Pending
      <4> QED
        BY <2>4, <4>1 DEF Sender
    <3> QED
      BY <3>1, <3>2
  <2>6. UNCHANGED <<text, kv, data, all>>
    BY <1>2
  <2>7. CountsRight'
    BY <2>5, <2>6, SameHeld DEF AnswerInv, CountsRight
  <2>8. ServerOnly' /\ AnsweredLast'
    <3>1. pc'[Server] = pc[Server]
      BY <1>2 DEF Goto, TypeOK
    <3> QED
      BY <2>6, <3>1, SameHeld DEF AnswerInv, ServerOnly, Turn, AnsweredLast
  <2> QED
    BY <2>7, <2>8 DEF AnswerInv
<1> QED
  BY <1>1, <1>2, FaultsEnd DEF Report

LEMMA CollectKeepsAnswer ==
    ASSUME TypeOK, AnswerInv, Collect
    PROVE  AnswerInv'
<1> USE ServerAndClients
<1>1. CASE Dies(Server)
  BY <1>1, EndKeepsAnswer DEF Dies
<1>2. CASE /\ Receive(Server)
           /\ LET msg == Head(inbox[Server])
              IN  kv' = [kv EXCEPT ![Server][msg.sender] = msg.counts]
           /\ UNCHANGED <<pc, text, next, selectedNode, data, all>>
  <2> DEFINE s == Head(inbox[Server]).sender
             counts == Head(inbox[Server]).counts
  <2>1. inbox[Server] \in Seq(CountsMessage)
    BY DEF TypeOK, Message
  <2>2. inbox[Server] # << >> /\ inbox'[Server] = Tail(inbox[Server])
    BY <1>2, <2>1 DEF Receive, TypeOK
  <2>3. 1 \in Pending(Server) /\ Head(inbox[Server]) = inbox[Server][1]
    BY <2>1, <2>2 DEF Pending
  <2>4. s \in Client /\ counts = HeldCounts(s)
    BY <2>3, PendingTyped DEF Sender, AnswerInv, CountsRight
  <2>5. kv' = [kv EXCEPT ![Server][s] = counts]
    BY <1>2
  <2> HIDE DEF s, counts
  <2>6. /\ \A m \in Node : kv'[m][m] = kv[m][m]
        /\ \A m \in Node : kv'[Server][m] \in {kv[Server][m], HeldCounts(m)}
    BY <2>4, <2>5 DEF TypeOK
  <2>7. ASSUME NEW i \in Pending(Server)'
        PROVE  Sender(i)' \in Node /\ inbox'[Server][i].counts = HeldCounts(Sender(i)')
    <3>1. i + 1 \in Pending(Server) /\ inbox'[Server][i] = inbox[Server][i + 1]
      BY <2>1, <2>2 DEF Pending
    <3> QED
      BY <3>1, PendingTyped DEF AnswerInv, CountsRight, Sender
  <2>8. UNCHANGED <<text, data, all, pc>>
    BY <1>2
  <2>9. CountsRight'
    BY <2>6, <2>7, <2>8, SameHeld DEF AnswerInv, CountsRight
  <2> QED
    BY <2>8, <2>9, SameHeld DEF AnswerInv, ServerOnly, Turn, AnsweredLast
<1> QED
  BY <1>1, <1>2, FaultsEnd DEF Collect

LEMMA NextKeepsAnswer ==
    ASSUME ConversionsExact, LinesHold, SharesInv, CountsOwnShare', AnswerInv, [Next]_vars
    PROVE  AnswerInv'
<1> USE ServerAndClients DEF SharesInv, TypeInv
<1>f. ASSUME NEW n \in Node, Dies(n)
      PROVE  AnswerInv'
  BY <1>f, EndKeepsAnswer DEF Dies
<1>q. ASSUME inbox'[Server] = inbox[Server], UNCHANGED <<pc, text, kv, all>>, ServerOnly'
      PROVE  AnswerInv'
  BY <1>q, QuietKeepsAnswer DEF AnswerInv, AnsweredLast
<1>o. ASSUME UNCHANGED text, data'[Server] = data[Server]
      PROVE  ServerOnly'
  BY <1>o, SameHeld DEF AnswerInv, ServerOnly, Turn
<1>1. CASE DealKeep
  <2>1. CASE /\ data' = [data EXCEPT ![Server] = @ \union Chunk(next, Rows)]
             /\ UNCHANGED <<netVars, pc, text, kv, all>>
    <3>1. ASSUME NEW r \in Chunk(next, Rows)
          PROVE  r \in Rows /\ Turn(r) = Server
      <4>1. r \in Rows /\ Rows # {}
        BY DEF Chunk
      <4>2. Turn(r) = next % NumNodes /\ selectedNode = next % NumNodes
        BY <4>1, ChunkIsQuotient DEF Shares, DealInTurn, TypeOK
      <4> QED
        BY <1>1, <4>1, <4>2 DEF DealKeep
    <3>2. data'[Server] = data[Server] \union Chunk(next, Rows)
      BY <2>1 DEF TypeOK
    <3>3. ServerOnly'
      BY <2>1, <3>1, <3>2, SameHeld DEF AnswerInv, ServerOnly, Turn
    <3> QED
      BY <1>q, <2>1, <3>3 DEF netVars
  <2> QED
    BY <1>1, <1>f, <2>1, FaultsEnd DEF DealKeep
<1>2. CASE DealSend
  <2>1. CASE Send(Server, selectedNode, ChunkMsg(next)) /\ UNCHANGED <<pc, text, data, kv, all>>
    <3>1. inbox'[Server] = inbox[Server]
      BY <1>2, <2>1 DEF Send, DealSend, TypeOK
    <3> QED
      BY <1>o, <1>q, <2>1, <3>1
  <2> QED
    BY <1>2, <1>f, <2>1, FaultsEnd DEF DealSend
<1>3. ASSUME NEW n \in Client, TakeChunk(n)
      PROVE  AnswerInv'
  <2>1. CASE /\ Receive(n) /\ data' = [data EXCEPT ![n] = @ \union Head(inbox[n]).rows]
             /\ UNCHANGED <<pc, text, kv, all>>
    <3>1. inbox'[Server] = inbox[Server] /\ data'[Server] = data[Server]
      BY <2>1 DEF Receive, TypeOK
    <3> QED
      BY <1>o, <1>q, <2>1, <3>1
  <2> QED
    BY <1>3, <1>f, <2>1, FaultsEnd DEF TakeChunk
<1>4. ASSUME NEW n \in Node, LocalCount(n)
      PROVE  AnswerInv'
  BY <1>4, LocalCountKeepsAnswer
<1>5. ASSUME NEW n \in Client, Report(n)
      PROVE  AnswerInv'
  BY <1>5, ReportKeepsAnswer
<1>6. ASSUME NEW n \in Node, Leave(n)
      PROVE  AnswerInv'
  BY <1>6, <1>f, EndKeepsAnswer, FaultsEnd DEF Leave
<1>7. CASE Collect
  BY <1>7, CollectKeepsAnswer
<1>8. CASE Reduce
  <2>1. CASE /\ Goto(Server, "leave")
             /\ UNCHANGED <<netVars, text, next, selectedNode, received, data, kv>>
    <3>1. AnsweredLast'
      BY <2>1 DEF Goto, TypeOK, AnsweredLast
    <3>2. ServerOnly'
      BY <1>o, <2>1
    <3> QED
      BY <2>1, <3>1, <3>2, QuietKeepsAnswer DEF netVars
  <2> QED
    BY <1>8, <1>f, <2>1, FaultsEnd DEF Reduce
<1>9. CASE UNCHANGED vars
  BY <1>9, <1>o, <1>q DEF vars, netVars
<1> QED
  BY <1>1, <1>2, <1>3, <1>4, <1>5, <1>6, <1>7, <1>8, <1>9
     DEF Next, Step, ServerStep, ClientStep, Finished

LEMMA InitAnswer == Init => AnswerInv
<1> SUFFICES ASSUME Init PROVE AnswerInv
  OBVIOUS
<1>1. /\ data[Server] = {} /\ all = NoFrame /\ Pending(Server) = {}
      /\ \A n, m \in Node : kv[n][m] = NoFrame
  BY ServerAndClients DEF Init, Pending
<1> QED
  BY <1>1, ServerAndClients DEF AnswerInv, ServerOnly, CountsRight, AnsweredLast

---------------------------------------------------------------------------
(* The rows of which reduce counts the word w: all of them, but for the     *)
(* empty rows that were sent to a client.                                   *)
Found(w) == {r \in Rows : text[r] = w /\ (w # EmptyWord \/ Turn(r) = Server)}

LEMMA ReduceAdds ==
    ASSUME TypeOK, ConversionsExact, NEW w \in Terms,
           \A m \in Node : kv[Server][m] = HeldCounts(m)
    PROVE  MapThenSumSet(LAMBDA m : kv[Server][m][w], Node) = Cardinality(Found(w))
<1> DEFINE Q == Found(w)
           place == [r \in Q |-> Turn(r)]
           At(x) == PlacedAt(Q, place, x)
           In(s) == {r \in Q : place[r] \in s}
           any(s) == CHOOSE x \in s : TRUE
           Is(f) == f = [s \in SUBSET Node |->
                           IF s = {} THEN 0
                           ELSE kv[Server][any(s)][w] + f[s \ {any(s)}]]
           f == CHOOSE f : Is(f)
<1>1. MapThenSumSet(LAMBDA m : kv[Server][m][w], Node) = f[Node]
  BY DEF MapThenSumSet, MapThenFoldSet
<1>2. IsFiniteSet(Q) /\ place \in [Q -> Node]
  <2>1. Q \subseteq Rows /\ IsFiniteSet(Rows)
    BY RowsOfText DEF Found, TypeOK
  <2>2. \A r \in Rows : Turn(r) \in Node
    BY RowsInChunks
  <2> QED
    BY <2>1, <2>2, FS_Subset
<1>3. IsFiniteSet(Node)
  <2>1. 0 \in Int /\ NumNodes - 1 \in Int
    BY NumNodesAssumption
  <2> QED
    BY <2>1, FS_Interval DEF Node
<1>4. ASSUME NEW x \in Node
      PROVE  kv[Server][x][w] = Cardinality(At(x))
  <2>1. {r \in Held(x) : text[r] = w} = At(x)
    BY DEF Held, Found, PlacedAt
  <2>2. kv[Server][x][w] = Cardinality({r \in Held(x) : text[r] = w})
    BY DEF HeldCounts
  <2> QED
    BY <2>1, <2>2
<1> HIDE DEF Q, place
<1>5. \A s \in SUBSET Node : s # {} => any(s) \in s /\ any(s) \in Node
  OBVIOUS
<1> HIDE DEF any
<1>6. \E it : Is(it)
  <2> DEFINE it == [s \in SUBSET Node |-> Cardinality(In(s))]
  <2>1. ASSUME NEW s \in SUBSET Node
        PROVE  it[s] = IF s = {} THEN 0 ELSE kv[Server][any(s)][w] + it[s \ {any(s)}]
    <3>1. CASE s = {}
      <4>1. In(s) = {}
        BY <3>1
      <4> QED
        BY <3>1, <4>1, FS_EmptySet
    <3>2. CASE s # {}
      <4>1. any(s) \in s /\ any(s) \in Node
        BY <1>5, <3>2
      <4>2. Cardinality(In(s)) = Cardinality(At(any(s))) + Cardinality(In(s \ {any(s)}))
        BY <1>2, <4>1, OnePlaceLess
      <4>3. kv[Server][any(s)][w] = Cardinality(At(any(s)))
        BY <1>4, <4>1
      <4> HIDE DEF In, At
      <4> QED
        BY <3>2, <4>2, <4>3
    <3> QED
      BY <3>1, <3>2
  <2>2. it = [s \in SUBSET Node |-> it[s]]
    OBVIOUS
  <2> HIDE DEF it
  <2>3. Is(it)
    BY <2>1, <2>2
  <2> QED
    BY <2>3
<1>7. Is(f)
  BY <1>6
<1> HIDE DEF f
<1>8. ASSUME NEW s \in SUBSET Node
      PROVE  f[s] = IF s = {} THEN 0 ELSE Cardinality(At(any(s))) + f[s \ {any(s)}]
  BY <1>4, <1>5, <1>7
<1>9. f[Node] = Cardinality(Q)
  <2>1. f[{}] = 0
    BY <1>8
  <2>2. \A s \in SUBSET Node : s # {} =>
           \E x \in s : f[s] = Cardinality(PlacedAt(Q, place, x)) + f[s \ {x}]
    BY <1>5, <1>8
  <2>3. AddsUp(f, Node, Q, place)
    BY <2>1, <2>2 DEF AddsUp
  <2> HIDE DEF At, In, Is
  <2> QED
    BY <1>2, <1>3, <2>3, PartsAdd
<1> QED
  BY <1>1, <1>9 DEF Q

(* Reduce gives the tally of DistinctWords.                                 *)
LEMMA ReduceAnswers ==
    ASSUME TypeOK, ConversionsExact, CountsInv, ReduceHasEveryFrame, AnswerInv, Reduce,
           all' # all
    PROVE  Promise!Publish
<1>1. \A m \in Node : kv[Server][m] = HeldCounts(m)
  <2>1. \A m \in Node : kv[Server][m] # NoFrame
    BY DEF Reduce, ReduceHasEveryFrame
  <2> QED
    BY <2>1 DEF AnswerInv, CountsRight
<1>2. /\ all' = [w \in Terms |-> MapThenSumSet(LAMBDA m : kv[Server][m][w], Node)]
      /\ text' = text /\ pc[Server] = "collect"
  BY DEF Reduce, MemoryFault, Fail, Dies
<1>3. all = NoFrame
  BY <1>2 DEF AnswerInv, AnsweredLast
<1>4. all' = [w \in Terms |-> Cardinality(Found(w))]
  BY <1>1, <1>2, ReduceAdds
<1> DEFINE e == Cardinality(Found(EmptyWord))
<1>5. \A w \in Terms : w # EmptyWord => Cardinality(Found(w)) = Promise!Occurrences(w)
  BY DEF Found, Promise!Occurrences, Rows, Promise!Cardinality, Cardinality
<1>6. e \in 0 .. Promise!Occurrences(EmptyWord)
  <2> DEFINE A == {r \in Rows : text[r] = EmptyWord}
  <2>1. Found(EmptyWord) \subseteq A /\ A \subseteq Rows /\ IsFiniteSet(Rows)
    BY RowsOfText DEF Found, TypeOK
  <2>2. Promise!Occurrences(EmptyWord) = Cardinality(A)
    BY DEF Promise!Occurrences, Rows, Promise!Cardinality, Cardinality
  <2> HIDE DEF A
  <2>3. IsFiniteSet(A) /\ IsFiniteSet(Found(EmptyWord))
    BY <2>1, FS_Subset
  <2>4. /\ e \in Nat /\ Cardinality(A) \in Nat /\ e <= Cardinality(A)
    BY <2>1, <2>3, FS_Subset, FS_CardinalityType
  <2> QED
    BY <2>2, <2>4
<1>7. all' = Promise!TallyWith(e)
  BY <1>4, <1>5 DEF Promise!TallyWith
<1> QED
  BY <1>2, <1>3, <1>6, <1>7 DEF Promise!Publish

(* The cluster implements DistinctWords, whichever of its processes fail    *)
(* and in whatever order their counts arrive (run_, local_count, merge and  *)
(* reduce of wordcount.h): node 0 prints the one right answer for the whole *)
(* text, or none.  The number of chunks has to fit its types and the lines  *)
(* of the messages to have room for the words.                              *)
THEOREM AnswerCorrectAlways ==
    ASSUME ConversionsExact, LinesHold
    PROVE  Spec => AnswerCorrect
<1>1. Init => SharesInv
  BY InitShares
<1>2. SharesInv /\ [Next]_vars => SharesInv'
  BY NextShares
<1>3. SharesInv /\ CountsOwnShare' /\ AnswerInv /\ [Next]_vars => AnswerInv'
  BY NextKeepsAnswer
<1>4. Init => Promise!Init
  BY DEF Init, Promise!Init
<1>5. SharesInv /\ CountsInv /\ ReduceHasEveryFrame /\ AnswerInv /\ [Next]_vars
         => [Promise!Publish]_(Promise!vars)
  <2> SUFFICES ASSUME SharesInv, CountsInv, ReduceHasEveryFrame, AnswerInv, [Next]_vars
               PROVE  [Promise!Publish]_(Promise!vars)
    OBVIOUS
  <2>1. CASE Reduce /\ all' # all
    <3>1. Promise!Publish
      BY <2>1, ReduceAnswers DEF SharesInv, TypeInv
    <3> QED
      BY <3>1
  <2>2. text' = text /\ (all' # all => Reduce)
    BY DEF Next, Step, ServerStep, ClientStep, DealKeep, DealSend, Collect, Reduce, TakeChunk,
           Report, LocalCount, Leave, MemoryFault, FaultInSend, TakesEmpty, Fail, Dies,
           Finished, vars
  <2> QED
    BY <2>1, <2>2 DEF Promise!vars
<1>6. ConversionsExact
  OBVIOUS
<1> QED
  BY <1>1, <1>2, <1>3, <1>4, <1>5, <1>6, InitAnswer, CountsInvAlways, EveryFrameCollected,
     ClientsCountTheirShare, PTL DEF Spec, AnswerCorrect, Promise!Spec

============================================================================
