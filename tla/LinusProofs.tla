---------------------------- MODULE LinusProofs ----------------------------
(* Proofs about Linus, for any number of nodes, degrees and commits, and    *)
(* whatever the network and the freed memory do to the processes; and, for  *)
(* the two nodes it is right for, that its answer is the circle.            *)
EXTENDS Linus, NumberLemmas

---------------------------------------------------------------------------
(* The stage of node 0 is the one the cluster is in.  While node 0 is in    *)
(* it, every client has been told a number of chunks or not yet, is due so  *)
(* many, and has been given so many.                                        *)
Round == stage[Server]
InStage == pc[Server] \in {"counts", "deal", "projects", "users"}
Told(n) == pc[Server] = "counts" => n < next
Due(n) == Share(n, DealtChunks, NumNodes)
Given(n) == IF pc[Server] = "counts" THEN 0 ELSE Share(n, next, NumNodes)

ChunksOnly(n, first) == \A i \in first .. Len(inbox[n]) : inbox[n][i].kind = "chunk"

(* A process that has ended receives nothing; one that has left the last    *)
(* stage has been through all.                                              *)
EndedIsClosed(n) ==
    pc[n] \in {"done", "failed"} => ~listening[n] /\ inbox[n] = << >>
LeavesLast(n) ==
    /\ pc[n] \in {"leave", "done"} => stage[n] = DEGREES
    /\ pc[n] \notin {"leave", "done", "failed"} => stage[n] < DEGREES
Role(n) == IF n = Server THEN pc[n] \notin {"quota", "take"}
                         ELSE pc[n] \notin {"counts", "deal"}

(* A client that waits for its number of chunks; one that takes chunks; one *)
(* that tags and sends; one that is a stage ahead.                          *)
Waits(n) ==
    pc[n] = "quota" =>
        IF inbox[n] = << >>
        THEN InStage /\ stage[n] = Round => ~Told(n)
        ELSE /\ stage[n] = Round
             /\ inbox[n][1].kind = "count" /\ ChunksOnly(n, 2)
             /\ Len(inbox[n]) - 1 <= inbox[n][1].count
             /\ InStage => /\ Told(n)
                           /\ inbox[n][1].count = Due(n)
                           /\ Len(inbox[n]) - 1 = Given(n)
Takes(n) ==
    pc[n] = "take" =>
        /\ stage[n] = Round /\ ChunksOnly(n, 1)
        /\ Len(inbox[n]) <= quota[n] - received[n]
        /\ InStage => /\ Told(n)
                      /\ quota[n] = Due(n)
                      /\ received[n] + Len(inbox[n]) = Given(n)
Sends(n) ==
    /\ pc[n] \notin {"quota", "take"} => inbox[n] = << >>
    /\ pc[n] \in {"projects", "users"} =>
          stage[n] = Round /\ (InStage => Told(n) /\ Given(n) = Due(n))
Ahead(n) ==
    /\ stage[n] \in {Round, Round + 1}
    /\ stage[n] = Round + 1 =>
          /\ pc[n] \in {"quota", "leave", "done", "failed"}
          /\ InStage /\ pc[n] # "failed" => Told(n) /\ Given(n) = Due(n)

ClientInv(n) == Waits(n) /\ Takes(n) /\ Sends(n) /\ Ahead(n)

(* Where node 0 is in its loops.                                            *)
ServerInv ==
    /\ <<"users", Round>> \in DOMAIN kv[Server] /\ IsFiniteSet(Dealt)
    /\ pc[Server] = "counts" => next \in 1 .. NumNodes
    /\ pc[Server] = "deal" => next \in 0 .. DealtChunks /\ round2 = next % NumNodes
    /\ pc[Server] \in {"projects", "users"} => next = DealtChunks

(* What node 0 has merged of the deltas of the stage, and the clients that  *)
(* have sent both of theirs, or one at least.                               *)
Merged == CASE pc[Server] = "projects" -> received[Server]
            [] pc[Server] = "users" -> NumNodes - 1 + received[Server]
            [] OTHER -> 0
SentBoth == {n \in Client : stage[n] = Round + 1}
SentOne == {n \in Client : stage[n] = Round + 1 \/ pc[n] \in {"users", "failed"}}
DeltasCounted ==
    InStage => Merged + Len(inbox[Server]) <= Cardinality(SentBoth) + Cardinality(SentOne)
DeltasOfStage ==
    /\ \A i \in Pending(Server) : /\ inbox[Server][i].kind = "delta"
                                  /\ inbox[Server][i].stage = Round
    /\ ~InStage => inbox[Server] = << >>

LinusInv ==
    /\ TypeOK
    /\ \A n \in Node : EndedIsClosed(n) /\ LeavesLast(n) /\ Role(n)
    /\ \A n \in Client : ClientInv(n)
    /\ ServerInv
    /\ DeltasCounted
    /\ DeltasOfStage

---------------------------------------------------------------------------
(* Node 0 and the others.                                                   *)
LEMMA ServerAndClients ==
    /\ NumNodes \in Nat \ {0}
    /\ Server \in Node
    /\ Client \subseteq Node
    /\ Server \notin Client
    /\ \A n \in Node : n # Server => n \in Client
    /\ \A n \in Client : n \in 1 .. NumNodes - 1
BY NumNodesAssumption DEF Server, Client, Node

LEMMA ClientsFinite ==
    IsFiniteSet(Client) /\ Cardinality(Client) = NumNodes - 1
<1>1. NumNodes \in Nat \ {0}
  BY NumNodesAssumption
<1>2. Client = 1 .. NumNodes - 1
  BY <1>1 DEF Client, Node, Server
<1>3. 1 \in Int /\ NumNodes - 1 \in Int
  BY <1>1
<1>4. /\ IsFiniteSet(1 .. NumNodes - 1)
      /\ Cardinality(1 .. NumNodes - 1)
            = IF 1 > NumNodes - 1 THEN 0 ELSE (NumNodes - 1) - 1 + 1
  BY <1>3, FS_Interval
<1> QED
  BY <1>1, <1>2, <1>4

(* The number of chunks of a frame is a natural number, whatever the        *)
(* conversions make of it, and so are the shares.                           *)
LEMMA DealtChunksTyped ==
    ASSUME ServerInv
    PROVE  DealtChunks \in Nat
<1> DEFINE rows == Cardinality(Dealt)
           low == (1 + (AsSize(rows - 1) \div RowsPerChunk)) % 2^IntBits
<1>1. rows \in Nat
  BY FS_CardinalityType DEF ServerInv
<1>2. /\ 2^SizeBits \in Nat \ {0} /\ 2^IntBits \in Nat \ {0}
      /\ RowsPerChunk \in Nat \ {0}
  BY ChunksAssumption
<1>3. AsSize(rows - 1) \in Nat
  BY <1>1, <1>2 DEF AsSize
<1>4. AsSize(rows - 1) \div RowsPerChunk \in Nat
  BY <1>2, <1>3, DivRange
<1>5. low \in Int
  BY <1>2, <1>4
<1>6. NumChunks(rows) \in Int
  BY <1>2, <1>5 DEF NumChunks, AsInt
<1> QED
  BY <1>6 DEF DealtChunks

LEMMA ShareTyped ==
    ASSUME NEW n, NEW b \in Nat
    PROVE  Share(n, b, NumNodes) \in Nat
BY TurnsFinite DEF Share

LEMMA SharesTyped ==
    ASSUME TypeOK, ServerInv, NEW n
    PROVE  Due(n) \in Nat /\ Given(n) \in Nat
<1>1. DealtChunks \in Nat /\ next \in Nat
  BY DealtChunksTyped DEF TypeOK
<1> QED
  BY <1>1, ShareTyped DEF Due, Given

(* The turn stays within the nodes.                                         *)
LEMMA NextNodeTyped ==
    ASSUME NEW m \in Node
    PROVE  NextNode(m, NumNodes) \in Node
BY NumNodesAssumption DEF NextNode, Node

(* Sending and receiving keep the mailboxes well typed.                     *)
LEMMA SendTyped ==
    ASSUME TypeOK, NEW n \in Node, NEW to \in Node, NEW msg \in Message,
           Send(n, to, msg)
    PROVE  /\ inbox' \in [Node -> Seq(Message)]
           /\ fds' \in [Node -> Nat]
           /\ listening' \in [Node -> BOOLEAN]
<1>1. inbox \in [Node -> Seq(Message)] /\ fds \in [Node -> Nat]
      /\ listening \in [Node -> BOOLEAN]
  BY DEF TypeOK
<1>2. Append(inbox[to], msg) \in Seq(Message)
  BY <1>1
<1> QED
  BY <1>1, <1>2 DEF Send

LEMMA ReceiveTyped ==
    ASSUME TypeOK, NEW n \in Node, Receive(n)
    PROVE  /\ Head(inbox[n]) \in Message /\ Head(inbox[n]) = inbox[n][1]
           /\ 1 \in Pending(n)
           /\ inbox' \in [Node -> Seq(Message)]
           /\ fds' \in [Node -> Nat]
           /\ listening' \in [Node -> BOOLEAN]
BY DEF TypeOK, Receive, Pending

(* A frame put into a store.                                                *)
StoreOK ==
    /\ DOMAIN kv = Node
    /\ \A n \in Node : /\ DOMAIN kv[n] \subseteq Key
                       /\ \A k \in DOMAIN kv[n] : kv[n][k] \in Ids
LEMMA PutTyped ==
    ASSUME StoreOK, NEW n \in Node, NEW key \in Key, NEW ids \in Ids,
           Put(n, key, ids)
    PROVE  StoreOK'
BY DEF StoreOK, Put

(* What arrives of a column: all of it if it fits, and always ids.          *)
LEMMA CarriedTyped ==
    ASSUME NEW ids \in Ids
    PROVE  Carried(ids) \subseteq Ids
<1> DEFINE whole == InRows(ids, 0 .. LineRows - 1)
           cut == UNION {FirstDigits(id) : id \in InRows(ids, {LineRows})}
<1>1. ids \subseteq Nat /\ whole \in Ids
  BY DEF InRows, Ids
<1>2. \A id \in Nat : FirstDigits(id) \subseteq Nat
  BY DEF FirstDigits
<1>3. cut \subseteq Nat
  BY <1>1, <1>2 DEF InRows
<1>4. Carried(ids) = IF Cardinality(ids) <= LineRows THEN {ids}
                     ELSE {whole} \union {whole \union {p} : p \in cut}
  BY DEF Carried
<1> HIDE DEF whole, cut
<1>5. {ids} \subseteq Ids /\ {whole} \subseteq Ids
  BY <1>1 DEF Ids
<1>6. \A p \in cut : whole \union {p} \in Ids
  BY <1>1, <1>3 DEF Ids
<1>7. {whole \union {p} : p \in cut} \subseteq Ids
  BY <1>6
<1> QED
  BY <1>4, <1>5, <1>7

LEMMA AllCarried ==
    ASSUME NEW ids, Cardinality(ids) <= LineRows
    PROVE  Carried(ids) = {ids}
BY DEF Carried

LEMMA DealtChunkTyped ==
    ASSUME TypeOK, ServerInv, NEW j
    PROVE  DealtChunk(j) \in Ids
BY ServerAndClients DEF TypeOK, ServerInv, DealtChunk, InRows, Ids, Dealt, Round

LEMMA IdsTyped ==
    /\ SUBSET UserIds \subseteq Ids
    /\ SUBSET ProjectIds \subseteq Ids
BY LinusAssumption DEF UserIds, ProjectIds, Ids

LEMMA MessagesTyped ==
    /\ \A count \in Nat : CountMsg(count) \in Message
    /\ \A ids \in Ids : ChunkMsg(ids) \in Message
    /\ \A n, of, ids : stage[n] \in Nat /\ of \in {"projects", "users"} /\ ids \in Ids
          => DeltaMsg(n, of, ids) \in Message
BY DEF CountMsg, ChunkMsg, DeltaMsg, Message

---------------------------------------------------------------------------
(* Every step keeps the types, given the protocol.                          *)
LEMMA EndTyped ==
    ASSUME TypeOK, NEW n \in Node, NEW label \in {"done", "failed"}, End(n, label)
    PROVE  TypeOK'
<1>1. /\ listening' = [listening EXCEPT ![n] = FALSE]
      /\ inbox' = [inbox EXCEPT ![n] = << >>]
      /\ pc' = [pc EXCEPT ![n] = label]
      /\ UNCHANGED <<fds, commits, stage, received, dealVars, setVars, kv>>
  BY DEF End, Goto, CloseSocket
<1>2. /\ listening' \in [Node -> BOOLEAN]
      /\ inbox' \in [Node -> Seq(Message)]
      /\ pc' \in [Node -> Labels]
  BY <1>1 DEF TypeOK, Labels
<1> QED
  BY <1>1, <1>2 DEF TypeOK, dealVars, setVars

LEMMA FailTyped ==
    ASSUME TypeOK, NEW n \in Node, Fail(n)
    PROVE  TypeOK'
BY EndTyped DEF Fail

LEMMA SendCountTyped ==
    ASSUME LinusInv, SendCount
    PROVE  TypeOK'
<1>1. CASE Fail(Server)
  BY <1>1, FailTyped, ServerAndClients DEF LinusInv
<1>2. CASE /\ Send(Server, next, CountMsg(Share(next, DealtChunks, NumNodes)))
           /\ next' = next + 1
           /\ UNCHANGED <<commits, pc, stage, received, round2, quota,
                          chunkSoFar, setVars, kv>>
  <2>1. next \in Node
    BY ServerAndClients DEF SendCount, LinusInv, ServerInv, Node
  <2>2. CountMsg(Share(next, DealtChunks, NumNodes)) \in Message
    BY DealtChunksTyped, ShareTyped, MessagesTyped DEF LinusInv
  <2>3. /\ inbox' \in [Node -> Seq(Message)]
        /\ fds' \in [Node -> Nat]
        /\ listening' \in [Node -> BOOLEAN]
    BY <1>2, <2>1, <2>2, SendTyped, ServerAndClients DEF LinusInv
  <2> QED
    BY <1>2, <2>3 DEF LinusInv, TypeOK, setVars
<1> QED
  BY <1>1, <1>2 DEF SendCount

LEMMA DealTyped ==
    ASSUME LinusInv, CountsSent \/ DealKeep \/ DealSend
    PROVE  TypeOK'
<1>t. TypeOK /\ ServerInv
  BY DEF LinusInv
<1>s. Server \in Node
  BY ServerAndClients
<1>1. CASE CountsSent
  <2>1. pc' = [pc EXCEPT ![Server] = "deal"]
    BY <1>1 DEF CountsSent, Goto
  <2>2. pc' \in [Node -> Labels]
    BY <1>t, <2>1 DEF TypeOK, Labels
  <2> QED
    BY <1>t, <1>s, <1>1, <2>2 DEF CountsSent, TypeOK, setVars, netVars
<1>2. CASE DealKeep
  <2>1. DealtChunk(next) \in Ids
    BY <1>t, DealtChunkTyped
  <2>2. chunkSoFar' \in [Node -> Ids]
    BY <1>t, <1>s, <1>2, <2>1 DEF DealKeep, TypeOK, Ids
  <2>3. round2' \in Node
    BY <1>t, <1>2, NextNodeTyped DEF DealKeep, TypeOK
  <2>4. next' \in Nat
    BY <1>t, <1>2 DEF DealKeep, TypeOK
  <2> QED
    BY <1>t, <1>2, <2>2, <2>3, <2>4 DEF DealKeep, TypeOK, setVars, netVars
<1>3. CASE DealSend
  <2>1. CASE Fail(Server)
    BY <1>t, <1>s, <2>1, FailTyped
  <2>2. CASE /\ \E ids \in Carried(DealtChunk(next)) :
                   Send(Server, round2, ChunkMsg(ids))
             /\ next' = next + 1
             /\ round2' = NextNode(round2, NumNodes)
             /\ UNCHANGED <<commits, pc, stage, received, quota, chunkSoFar,
                            setVars, kv>>
    <3>0. PICK ids \in Carried(DealtChunk(next)) : Send(Server, round2, ChunkMsg(ids))
      BY <2>2
    <3>1. ChunkMsg(ids) \in Message /\ round2 \in Node
      BY <1>t, DealtChunkTyped, CarriedTyped, MessagesTyped DEF TypeOK
    <3>2. /\ inbox' \in [Node -> Seq(Message)]
          /\ fds' \in [Node -> Nat]
          /\ listening' \in [Node -> BOOLEAN]
      BY <1>t, <1>s, <3>0, <3>1, SendTyped
    <3>3. round2' \in Node
      BY <2>2, <3>1, NextNodeTyped
    <3>4. next' \in Nat
      BY <1>t, <2>2 DEF TypeOK
    <3> QED
      BY <1>t, <2>2, <3>2, <3>3, <3>4 DEF TypeOK, setVars
  <2> QED
    BY <1>3, <2>1, <2>2 DEF DealSend
<1> QED
  BY <1>1, <1>2, <1>3

LEMMA TakeTyped ==
    ASSUME LinusInv, NEW n \in Client, TakeQuota(n) \/ TakeChunk(n)
    PROVE  TypeOK'
<1>t. TypeOK /\ ClientInv(n) /\ n \in Node
  BY ServerAndClients DEF LinusInv
<1>f. CASE Fail(n)
  BY <1>t, <1>f, FailTyped
<1>1. CASE /\ pc[n] = "quota"
           /\ Receive(n)
           /\ quota' = [quota EXCEPT ![n] = Head(inbox[n]).count]
           /\ received' = [received EXCEPT ![n] = 0]
           /\ Goto(n, "take")
           /\ UNCHANGED <<commits, stage, next, round2, chunkSoFar, setVars, kv>>
  <2>1. /\ Head(inbox[n]) \in Message /\ Head(inbox[n]) = inbox[n][1]
        /\ inbox' \in [Node -> Seq(Message)]
        /\ fds' \in [Node -> Nat]
        /\ listening' \in [Node -> BOOLEAN]
    BY <1>t, <1>1, ReceiveTyped
  <2>2. Head(inbox[n]).kind = "count"
    BY <1>t, <1>1, <2>1 DEF ClientInv, Waits, Receive
  <2>3. Head(inbox[n]).count \in Nat
    BY <2>1, <2>2 DEF Message
  <2>4. pc' \in [Node -> Labels]
    BY <1>t, <1>1 DEF TypeOK, Goto, Labels
  <2>5. quota' \in [Node -> Nat] /\ received' \in [Node -> Nat]
    BY <1>t, <1>1, <2>3 DEF TypeOK
  <2> QED
    BY <1>t, <1>1, <2>1, <2>4, <2>5 DEF TypeOK, setVars
<1>2. CASE /\ pc[n] = "take"
           /\ Receive(n)
           /\ chunkSoFar' = [chunkSoFar EXCEPT ![n] = @ \union Head(inbox[n]).ids]
           /\ received' = [received EXCEPT ![n] = @ + 1]
           /\ UNCHANGED <<commits, pc, stage, next, round2, quota, setVars, kv>>
  <2>1. /\ Head(inbox[n]) \in Message /\ Head(inbox[n]) = inbox[n][1]
        /\ inbox' \in [Node -> Seq(Message)]
        /\ fds' \in [Node -> Nat]
        /\ listening' \in [Node -> BOOLEAN]
        /\ 1 \in 1 .. Len(inbox[n])
    BY <1>t, <1>2, ReceiveTyped DEF Pending
  <2>2. Head(inbox[n]).kind = "chunk"
    BY <1>t, <1>2, <2>1 DEF ClientInv, Takes, ChunksOnly
  <2>3. Head(inbox[n]).ids \in Ids
    BY <2>1, <2>2 DEF Message
  <2>4. chunkSoFar' \in [Node -> Ids] /\ received' \in [Node -> Nat]
    BY <1>t, <1>2, <2>3 DEF TypeOK, Ids
  <2> QED
    BY <1>t, <1>2, <2>1, <2>4 DEF TypeOK, setVars
<1> QED
  BY <1>f, <1>1, <1>2 DEF TakeQuota, TakeChunk

LEMMA TagProjectsTyped ==
    ASSUME TypeOK, NEW n \in Node, TagProjects(n)
    PROVE  TypeOK'
<1> DEFINE tagged == TaggedProjects(n, chunkSoFar[n] \intersect UserIds)
<1>1. tagged \in SUBSET ProjectIds
  BY DEF TaggedProjects
<1>2. /\ newProjects' = [newProjects EXCEPT ![n] = tagged]
      /\ pSet' = [pSet EXCEPT ![n] = @ \union tagged]
      /\ chunkSoFar' = [chunkSoFar EXCEPT ![n] = {}]
      /\ received' = [received EXCEPT ![n] = 0]
      /\ pc' = [pc EXCEPT ![n] = "projects"]
      /\ UNCHANGED <<netVars, commits, stage, next, round2, quota, uSet,
                     newUsers, kv>>
  BY DEF TagProjects, Goto
<1> HIDE DEF tagged
<1>3. /\ newProjects' \in [Node -> SUBSET ProjectIds]
      /\ pSet' \in [Node -> SUBSET ProjectIds]
      /\ chunkSoFar' \in [Node -> Ids]
      /\ received' \in [Node -> Nat]
      /\ pc' \in [Node -> Labels]
  BY <1>1, <1>2 DEF TypeOK, Labels, Ids
<1> QED
  BY <1>2, <1>3 DEF TypeOK, netVars

LEMMA TagUsersTyped ==
    ASSUME TypeOK, NEW n \in Node, NEW merged \in SUBSET ProjectIds, TagUsers(n, merged)
    PROVE  /\ pSet' \in [Node -> SUBSET ProjectIds]
           /\ newUsers' \in [Node -> SUBSET UserIds]
           /\ uSet' \in [Node -> SUBSET UserIds]
           /\ received' \in [Node -> Nat]
           /\ pc' \in [Node -> Labels]
<1>1. PICK set \in StaleSet :
         /\ newUsers' = [newUsers EXCEPT ![n] = TaggedUsers(n, merged, set)]
         /\ uSet' = [uSet EXCEPT ![n] = @ \union TaggedUsers(n, merged, set)]
  BY DEF TagUsers
<1>2. TaggedUsers(n, merged, set) \in SUBSET UserIds
  BY DEF TaggedUsers
<1>3. newUsers' \in [Node -> SUBSET UserIds] /\ uSet' \in [Node -> SUBSET UserIds]
  BY <1>1, <1>2 DEF TypeOK
<1> QED
  BY <1>3 DEF TagUsers, TypeOK, Goto, Labels

LEMMA EndStageTyped ==
    ASSUME TypeOK, NEW n \in Node, stage[n] < DEGREES, EndStage(n)
    PROVE  /\ uSet' \in [Node -> SUBSET UserIds]
           /\ stage' \in [Node -> 0 .. DEGREES]
           /\ pc' \in [Node -> Labels]
<1>1. stage[n] + 1 \in 0 .. DEGREES
  BY LinusAssumption DEF TypeOK
<1>2. After(n, stage[n] + 1 = DEGREES) \in Labels
  BY DEF After, Labels
<1> QED
  BY <1>1, <1>2 DEF EndStage, TypeOK, Goto

LEMMA SendProjectsTyped ==
    ASSUME LinusInv, NEW n \in Client, SendProjects(n)
    PROVE  TypeOK'
<1>t. TypeOK /\ n \in Node /\ Server \in Node
  BY ServerAndClients DEF LinusInv
<1>1. CASE Fail(n)
  BY <1>t, <1>1, FailTyped
<1>2. CASE /\ \E ids \in Carried(newProjects[n]) :
                Send(n, Server, DeltaMsg(n, "projects", ids))
           /\ Put(n, <<"projects", stage[n]>>, newProjects[n])
           /\ TagUsers(n, newProjects[n])
           /\ UNCHANGED <<commits, stage, dealVars, newProjects>>
  <2>1. stage[n] \in Nat /\ newProjects[n] \in SUBSET ProjectIds
    BY <1>t, LinusAssumption DEF TypeOK
  <2>2. newProjects[n] \in Ids /\ <<"projects", stage[n]>> \in Key
    BY <2>1, IdsTyped DEF Key
  <2>c. PICK ids \in Carried(newProjects[n]) : Send(n, Server, DeltaMsg(n, "projects", ids))
    BY <1>2
  <2>3. DeltaMsg(n, "projects", ids) \in Message
    BY <2>1, <2>2, CarriedTyped, MessagesTyped
  <2>4. /\ inbox' \in [Node -> Seq(Message)]
        /\ fds' \in [Node -> Nat]
        /\ listening' \in [Node -> BOOLEAN]
    BY <1>t, <2>c, <2>3, SendTyped
  <2>5. /\ pSet' \in [Node -> SUBSET ProjectIds]
        /\ newUsers' \in [Node -> SUBSET UserIds]
        /\ uSet' \in [Node -> SUBSET UserIds]
        /\ received' \in [Node -> Nat]
        /\ pc' \in [Node -> Labels]
    BY <1>t, <1>2, <2>1, TagUsersTyped
  <2>6. StoreOK'
    BY <1>t, <1>2, <2>2, PutTyped DEF TypeOK, StoreOK
  <2> QED
    BY <1>t, <1>2, <2>4, <2>5, <2>6 DEF TypeOK, StoreOK, dealVars
<1> QED
  BY <1>1, <1>2 DEF SendProjects

LEMMA SendUsersTyped ==
    ASSUME LinusInv, NEW n \in Client, SendUsers(n)
    PROVE  TypeOK'
<1>t. /\ TypeOK /\ n \in Node /\ Server \in Node
      /\ pc[n] = "users" /\ LeavesLast(n)
  BY ServerAndClients DEF LinusInv, SendUsers
<1>1. CASE Fail(n)
  BY <1>t, <1>1, FailTyped
<1>2. CASE /\ \E ids \in Carried(newUsers[n]) :
                Send(n, Server, DeltaMsg(n, "users", ids))
           /\ Put(n, <<"users", stage[n] + 1>>, newUsers[n])
           /\ EndStage(n)
           /\ UNCHANGED <<commits, received, dealVars, pSet, newProjects, newUsers>>
  <2>1. stage[n] \in Nat /\ newUsers[n] \in SUBSET UserIds /\ stage[n] < DEGREES
    BY <1>t, LinusAssumption DEF TypeOK, LeavesLast
  <2>2. newUsers[n] \in Ids /\ <<"users", stage[n] + 1>> \in Key
    BY <2>1, IdsTyped DEF Key
  <2>c. PICK ids \in Carried(newUsers[n]) : Send(n, Server, DeltaMsg(n, "users", ids))
    BY <1>2
  <2>3. DeltaMsg(n, "users", ids) \in Message
    BY <2>1, <2>2, CarriedTyped, MessagesTyped
  <2>4. /\ inbox' \in [Node -> Seq(Message)]
        /\ fds' \in [Node -> Nat]
        /\ listening' \in [Node -> BOOLEAN]
    BY <1>t, <2>c, <2>3, SendTyped
  <2>5. /\ uSet' \in [Node -> SUBSET UserIds]
        /\ stage' \in [Node -> 0 .. DEGREES]
        /\ pc' \in [Node -> Labels]
    BY <1>t, <1>2, <2>1, EndStageTyped
  <2>6. StoreOK'
    BY <1>t, <1>2, <2>2, PutTyped DEF TypeOK, StoreOK
  <2> QED
    BY <1>t, <1>2, <2>4, <2>5, <2>6 DEF TypeOK, StoreOK, dealVars
<1> QED
  BY <1>1, <1>2 DEF SendUsers

LEMMA MergeDeltaTyped ==
    ASSUME LinusInv, MergeDelta
    PROVE  TypeOK'
<1>t. TypeOK /\ Server \in Node
  BY ServerAndClients DEF LinusInv
<1>1. CASE Fail(Server)
  BY <1>t, <1>1, FailTyped
<1>2. CASE /\ Receive(Server)
           /\ LET ids == Head(inbox[Server]).ids
              IN  IF pc[Server] = "projects"
                  THEN /\ newProjects' = [newProjects EXCEPT
                             ![Server] = @ \union (ids \intersect ProjectIds)]
                       /\ UNCHANGED newUsers
                  ELSE /\ newUsers' = [newUsers EXCEPT
                             ![Server] = @ \union (ids \intersect UserIds)]
                       /\ UNCHANGED newProjects
           /\ received' = [received EXCEPT ![Server] = @ + 1]
           /\ UNCHANGED <<commits, pc, stage, dealVars, pSet, uSet, kv>>
  <2>1. /\ inbox' \in [Node -> Seq(Message)]
        /\ fds' \in [Node -> Nat]
        /\ listening' \in [Node -> BOOLEAN]
    BY <1>t, <1>2, ReceiveTyped
  <2>2. received' \in [Node -> Nat]
    BY <1>t, <1>2 DEF TypeOK
  <2>3. /\ newProjects' \in [Node -> SUBSET ProjectIds]
        /\ newUsers' \in [Node -> SUBSET UserIds]
    <3> DEFINE ids == Head(inbox[Server]).ids
               ps == newProjects[Server] \union (ids \intersect ProjectIds)
               us == newUsers[Server] \union (ids \intersect UserIds)
    <3>1. \/ newProjects' = [newProjects EXCEPT ![Server] = ps] /\ newUsers' = newUsers
          \/ newUsers' = [newUsers EXCEPT ![Server] = us] /\ newProjects' = newProjects
      BY <1>2
    <3>2. ps \in SUBSET ProjectIds /\ us \in SUBSET UserIds
      BY <1>t DEF TypeOK
    <3> HIDE DEF ps, us
    <3> QED
      BY <1>t, <3>1, <3>2 DEF TypeOK
  <2> QED
    BY <1>t, <1>2, <2>1, <2>2, <2>3 DEF TypeOK, dealVars
<1> QED
  BY <1>1, <1>2 DEF MergeDelta

LEMMA PublishTyped ==
    ASSUME LinusInv, PublishProjects \/ PublishUsers
    PROVE  TypeOK'
<1>t. TypeOK /\ Server \in Node /\ LeavesLast(Server)
  BY ServerAndClients DEF LinusInv
<1>s. stage[Server] \in Nat
  BY <1>t, LinusAssumption DEF TypeOK
<1>1. CASE PublishProjects
  <2>1. newProjects[Server] \in SUBSET ProjectIds
    BY <1>t DEF TypeOK
  <2>2. newProjects[Server] \in Ids /\ <<"projects", stage[Server]>> \in Key
    BY <1>s, <2>1, IdsTyped DEF Key
  <2>3. StoreOK'
    BY <1>t, <1>1, <2>2, PutTyped DEF PublishProjects, TypeOK, StoreOK
  <2>4. /\ pSet' \in [Node -> SUBSET ProjectIds]
        /\ newUsers' \in [Node -> SUBSET UserIds]
        /\ uSet' \in [Node -> SUBSET UserIds]
        /\ received' \in [Node -> Nat]
        /\ pc' \in [Node -> Labels]
    BY <1>t, <1>1, <2>1, TagUsersTyped DEF PublishProjects
  <2> QED
    BY <1>t, <1>1, <2>3, <2>4 DEF PublishProjects, TypeOK, StoreOK, dealVars, netVars
<1>2. CASE PublishUsers
  <2>1. newUsers[Server] \in SUBSET UserIds /\ stage[Server] < DEGREES
    BY <1>t, <1>2 DEF PublishUsers, TypeOK, LeavesLast
  <2>2. newUsers[Server] \in Ids /\ <<"users", stage[Server] + 1>> \in Key
    BY <1>s, <2>1, IdsTyped DEF Key
  <2>3. StoreOK'
    BY <1>t, <1>2, <2>2, PutTyped DEF PublishUsers, TypeOK, StoreOK
  <2>4. /\ uSet' \in [Node -> SUBSET UserIds]
        /\ stage' \in [Node -> 0 .. DEGREES]
        /\ pc' \in [Node -> Labels]
    BY <1>t, <1>2, <2>1, EndStageTyped DEF PublishUsers
  <2> QED
    BY <1>t, <1>2, <2>3, <2>4 DEF PublishUsers, TypeOK, StoreOK, netVars
<1> QED
  BY <1>1, <1>2

LEMMA NextTyped ==
    ASSUME LinusInv, [Next]_vars
    PROVE  TypeOK'
<1>t. TypeOK
  BY DEF LinusInv
<1>1. CASE UNCHANGED vars
  BY <1>t, <1>1 DEF TypeOK, vars, netVars, dealVars, setVars
<1>2. CASE Finished
  BY <1>1, <1>2 DEF Finished
<1>3. ASSUME NEW n \in Node, Leave(n)
      PROVE  TypeOK'
  BY <1>t, <1>3, EndTyped, FailTyped DEF Leave
<1>4. ASSUME NEW n \in Client, ClientStep(n)
      PROVE  TypeOK'
  BY <1>4, TakeTyped, SendProjectsTyped, SendUsersTyped DEF ClientStep
<1>5. CASE ServerStep
  BY <1>5, SendCountTyped, DealTyped, MergeDeltaTyped, PublishTyped DEF ServerStep
<1>6. ASSUME NEW n \in Node, TagProjects(n)
      PROVE  TypeOK'
  BY <1>t, <1>6, TagProjectsTyped
<1> QED
  BY <1>1, <1>2, <1>3, <1>4, <1>5, <1>6 DEF Next, Step

---------------------------------------------------------------------------
(* What the operations on a mailbox do to it.                               *)
LEMMA SendAppends ==
    ASSUME TypeOK, NEW n \in Node, NEW to \in Node, NEW msg, Send(n, to, msg)
    PROVE  /\ Len(inbox[to]) \in Nat
           /\ Len(inbox'[to]) = Len(inbox[to]) + 1
           /\ \A i \in 1 .. Len(inbox[to]) : inbox'[to][i] = inbox[to][i]
           /\ inbox'[to][Len(inbox[to]) + 1] = msg
           /\ inbox'[to] # << >>
           /\ \A m \in Node : m # to => inbox'[m] = inbox[m]
           /\ listening[to] /\ listening' = listening
<1>1. inbox[to] \in Seq(Message) /\ inbox \in [Node -> Seq(Message)]
  BY DEF TypeOK
<1>2. inbox'[to] = Append(inbox[to], msg)
  BY <1>1 DEF Send
<1> QED
  BY <1>1, <1>2 DEF Send, Connects

LEMMA ReceiveTakes ==
    ASSUME TypeOK, NEW n \in Node, Receive(n)
    PROVE  /\ Len(inbox[n]) \in Nat \ {0}
           /\ Len(inbox'[n]) = Len(inbox[n]) - 1
           /\ \A i \in 1 .. Len(inbox'[n]) : inbox'[n][i] = inbox[n][i + 1]
           /\ Head(inbox[n]) = inbox[n][1]
           /\ \A m \in Node : m # n => inbox'[m] = inbox[m]
           /\ listening' = listening
<1>1. inbox[n] \in Seq(Message) /\ inbox \in [Node -> Seq(Message)] /\ inbox[n] # << >>
  BY DEF TypeOK, Receive
<1>2. inbox'[n] = Tail(inbox[n])
  BY <1>1 DEF Receive
<1> QED
  BY <1>1, <1>2 DEF Receive

(* Nothing of the deal changes while node 0 stands still.                   *)
LEMMA SameDeal ==
    ASSUME pc'[Server] = pc[Server], next' = next, stage'[Server] = stage[Server],
           kv'[Server][<<"users", Round>>] = kv[Server][<<"users", Round>>]
    PROVE  /\ Round' = Round
           /\ InStage' <=> InStage
           /\ Dealt' = Dealt
           /\ DealtChunks' = DealtChunks
           /\ \A n : /\ Told(n)' <=> Told(n)
                     /\ Due(n)' = Due(n)
                     /\ Given(n)' = Given(n)
<1>1. Round' = Round
  BY DEF Round
<1>2. Dealt' = Dealt
  BY DEF Dealt, Round
<1>3. DealtChunks' = DealtChunks
  BY <1>2 DEF DealtChunks
<1> QED
  BY <1>1, <1>2, <1>3 DEF InStage, Told, Due, Given

(* A client keeps its place when neither it nor its share changes.          *)
LEMMA ClientStays ==
    ASSUME NEW m \in Client, ClientInv(m),
           pc'[m] = pc[m], stage'[m] = stage[m], quota'[m] = quota[m],
           received'[m] = received[m], inbox'[m] = inbox[m],
           Round' = Round,
           InStage' => /\ InStage
                       /\ Told(m)' <=> Told(m)
                       /\ Due(m)' = Due(m)
                       /\ Given(m)' = Given(m)
    PROVE  ClientInv(m)'
<1>1. \A i : ChunksOnly(m, i)' <=> ChunksOnly(m, i)
  BY DEF ChunksOnly
<1>2. Waits(m)'
  BY <1>1 DEF ClientInv, Waits
<1>3. Takes(m)'
  BY <1>1 DEF ClientInv, Takes
<1>4. Sends(m)'
  BY DEF ClientInv, Sends
<1>5. Ahead(m)'
  BY DEF ClientInv, Ahead
<1> QED
  BY <1>2, <1>3, <1>4, <1>5 DEF ClientInv

(* A client that has not been told its number of chunks waits for it; one   *)
(* that has not been given all of them has not left its loop.               *)
LEMMA Untold ==
    ASSUME LinusInv, InStage, NEW n \in Client, ~Told(n), pc[n] # "failed"
    PROVE  pc[n] = "quota" /\ stage[n] = Round /\ inbox[n] = << >>
<1>1. /\ ClientInv(n) /\ LeavesLast(n) /\ Role(n) /\ LeavesLast(Server)
      /\ pc[n] \in Labels /\ n # Server
  BY ServerAndClients DEF LinusInv, TypeOK
<1>2. Round < DEGREES
  BY <1>1 DEF InStage, LeavesLast, Round
<1>3. stage[n] = Round
  BY <1>1 DEF ClientInv, Ahead
<1>4. pc[n] \notin {"leave", "done"}
  BY <1>1, <1>2, <1>3, LinusAssumption DEF LeavesLast
<1>5. pc[n] \notin {"take", "projects", "users"}
  BY <1>1 DEF ClientInv, Takes, Sends
<1>6. pc[n] = "quota"
  BY <1>1, <1>4, <1>5 DEF Role, Labels
<1> QED
  BY <1>1, <1>3, <1>6 DEF ClientInv, Waits

LEMMA Owed ==
    ASSUME LinusInv, InStage, NEW n \in Client, Told(n), Given(n) # Due(n),
           pc[n] # "failed"
    PROVE  /\ stage[n] = Round
           /\ pc[n] \in {"quota", "take"}
           /\ pc[n] = "quota" => inbox[n] # << >>
<1>1. /\ ClientInv(n) /\ LeavesLast(n) /\ Role(n) /\ LeavesLast(Server)
      /\ pc[n] \in Labels /\ n # Server
  BY ServerAndClients DEF LinusInv, TypeOK
<1>2. Round < DEGREES
  BY <1>1 DEF InStage, LeavesLast, Round
<1>3. stage[n] = Round
  BY <1>1 DEF ClientInv, Ahead
<1>4. pc[n] \notin {"leave", "done"}
  BY <1>1, <1>2, <1>3, LinusAssumption DEF LeavesLast
<1>5. pc[n] \notin {"projects", "users"}
  BY <1>1 DEF ClientInv, Sends
<1> QED
  BY <1>1, <1>3, <1>4, <1>5 DEF Role, Labels, ClientInv, Waits

---------------------------------------------------------------------------
(* The deltas under way and merged, counted against the clients that sent.  *)
LEMMA ClientsCounted ==
    ASSUME NEW A, NEW B, A \subseteq B, B \subseteq Client
    PROVE  /\ IsFiniteSet(A) /\ IsFiniteSet(B)
           /\ Cardinality(A) \in Nat /\ Cardinality(B) \in Nat
           /\ Cardinality(A) <= Cardinality(B)
           /\ \A x \in B : x \notin A => Cardinality(A) + 1 <= Cardinality(B)
<1>1. IsFiniteSet(B)
  BY ClientsFinite, FS_Subset
<1>2. IsFiniteSet(A) /\ Cardinality(A) <= Cardinality(B)
  BY <1>1, FS_Subset
<1>3. Cardinality(A) \in Nat /\ Cardinality(B) \in Nat
  BY <1>1, <1>2, FS_CardinalityType
<1>4. ASSUME NEW x \in B, x \notin A
      PROVE  Cardinality(A) + 1 <= Cardinality(B)
  <2>1. Cardinality(A \union {x}) = Cardinality(A) + 1
    BY <1>2, <1>4, FS_AddElement
  <2>2. A \union {x} \subseteq B
    BY <1>4
  <2>3. Cardinality(A \union {x}) <= Cardinality(B)
    BY <1>1, <2>2, FS_Subset
  <2> QED
    BY <2>1, <2>3
<1> QED
  BY <1>1, <1>2, <1>3, <1>4

LEMMA MergedTyped ==
    ASSUME TypeOK
    PROVE  Merged \in Nat /\ Len(inbox[Server]) \in Nat
BY ServerAndClients DEF TypeOK, Merged

LEMMA DeltasHeld ==
    ASSUME TypeOK, TypeOK', DeltasCounted, InStage' => InStage,
           InStage' => Merged' + Len(inbox'[Server]) <= Merged + Len(inbox[Server]),
           SentBoth \subseteq SentBoth', SentOne \subseteq SentOne'
    PROVE  DeltasCounted'
<1> SUFFICES ASSUME InStage'
             PROVE  Merged' + Len(inbox'[Server])
                       <= Cardinality(SentBoth') + Cardinality(SentOne')
  BY DEF DeltasCounted
<1> DEFINE b == Cardinality(SentBoth)
           o == Cardinality(SentOne)
           nb == Cardinality(SentBoth')
           no == Cardinality(SentOne')
<1>1. SentBoth' \subseteq Client /\ SentOne' \subseteq Client
  BY DEF SentBoth, SentOne, Client, Node, Server
<1>2. /\ b \in Nat /\ o \in Nat /\ nb \in Nat /\ no \in Nat
      /\ b <= nb /\ o <= no
  BY <1>1, ClientsCounted
<1>3. Merged + Len(inbox[Server]) <= b + o
  BY DEF DeltasCounted
<1>4. /\ Merged \in Nat /\ Len(inbox[Server]) \in Nat
      /\ Merged' \in Nat /\ Len(inbox'[Server]) \in Nat
  <2>1. received'[Server] \in Nat /\ Len(inbox'[Server]) \in Nat /\ NumNodes - 1 \in Nat
    BY ServerAndClients DEF TypeOK
  <2>2. Merged' \in Nat
    BY <2>1 DEF Merged
  <2> QED
    BY <2>1, <2>2, MergedTyped
<1> SUFFICES Merged' + Len(inbox'[Server]) <= nb + no
  OBVIOUS
<1> HIDE DEF b, o, nb, no
<1> QED
  BY <1>2, <1>3, <1>4

(* A client that sends enters one of the two sets.                          *)
LEMMA DeltaAdded ==
    ASSUME TypeOK, TypeOK', DeltasCounted, InStage' => InStage,
           Merged' = Merged, Len(inbox'[Server]) = Len(inbox[Server]) + 1,
           SentBoth \subseteq SentBoth', SentOne \subseteq SentOne',
           SentBoth # SentBoth' \/ SentOne # SentOne'
    PROVE  DeltasCounted'
<1> SUFFICES ASSUME InStage'
             PROVE  Merged' + Len(inbox'[Server])
                       <= Cardinality(SentBoth') + Cardinality(SentOne')
  BY DEF DeltasCounted
<1> DEFINE b == Cardinality(SentBoth)
           o == Cardinality(SentOne)
           nb == Cardinality(SentBoth')
           no == Cardinality(SentOne')
<1>1. SentBoth' \subseteq Client /\ SentOne' \subseteq Client
  BY DEF SentBoth, SentOne, Client, Node, Server
<1>2. /\ b \in Nat /\ o \in Nat /\ nb \in Nat /\ no \in Nat
      /\ b <= nb /\ o <= no
  BY <1>1, ClientsCounted
<1>3. b + 1 <= nb \/ o + 1 <= no
  <2>1. CASE SentBoth # SentBoth'
    <3>1. PICK x \in SentBoth' : x \notin SentBoth
      BY <2>1
    <3> QED
      BY <1>1, <3>1, ClientsCounted
  <2>2. CASE SentOne # SentOne'
    <3>1. PICK x \in SentOne' : x \notin SentOne
      BY <2>2
    <3> QED
      BY <1>1, <3>1, ClientsCounted
  <2> QED
    BY <2>1, <2>2
<1>4. Merged + Len(inbox[Server]) <= b + o
  BY DEF DeltasCounted
<1>5. Merged \in Nat /\ Len(inbox[Server]) \in Nat
  BY MergedTyped
<1> SUFFICES Merged' + Len(inbox'[Server]) <= nb + no
  OBVIOUS
<1> HIDE DEF b, o, nb, no
<1> QED
  BY <1>2, <1>3, <1>4, <1>5

---------------------------------------------------------------------------
(* What a step of one client leaves as it is.                               *)
LEMMA OthersStay ==
    ASSUME LinusInv, NEW n \in Client,
           \A m \in Node : m # n =>
              /\ pc'[m] = pc[m] /\ stage'[m] = stage[m]
              /\ quota'[m] = quota[m] /\ received'[m] = received[m]
              /\ listening'[m] = listening[m],
           \A m \in Client : m # n => inbox'[m] = inbox[m],
           inbox'[Server] = inbox[Server] \/ listening[Server],
           next' = next, round2' = round2, kv'[Server] = kv[Server]
    PROVE  /\ Round' = Round
           /\ InStage' <=> InStage
           /\ \A m : /\ Told(m)' <=> Told(m)
                     /\ Due(m)' = Due(m)
                     /\ Given(m)' = Given(m)
           /\ ServerInv'
           /\ \A m \in Client : m # n => ClientInv(m)'
           /\ \A m \in Node : m # n => EndedIsClosed(m)' /\ LeavesLast(m)' /\ Role(m)'
           /\ Merged' = Merged
<1>t. /\ \A m \in Node : EndedIsClosed(m) /\ LeavesLast(m) /\ Role(m)
      /\ \A m \in Client : ClientInv(m)
      /\ ServerInv
  BY DEF LinusInv
<1>s. Server \in Node /\ Server # n /\ Client \subseteq Node /\ n \in Node
      /\ \A m \in Node : m # Server => m \in Client
  BY ServerAndClients
<1>1. /\ Round' = Round
      /\ InStage' <=> InStage
      /\ Dealt' = Dealt
      /\ DealtChunks' = DealtChunks
      /\ \A m : /\ Told(m)' <=> Told(m)
                /\ Due(m)' = Due(m)
                /\ Given(m)' = Given(m)
  BY <1>s, SameDeal
<1>2. ServerInv'
  BY <1>t, <1>s, <1>1 DEF ServerInv
<1>3. ASSUME NEW m \in Client, m # n
      PROVE  ClientInv(m)'
  BY <1>t, <1>s, <1>1, <1>3, ClientStays
<1>4. ASSUME NEW m \in Node, m # n
      PROVE  LeavesLast(m)' /\ Role(m)'
  BY <1>t, <1>4 DEF LeavesLast, Role
<1>5. ASSUME NEW m \in Node, m # n
      PROVE  EndedIsClosed(m)'
  <2>1. inbox'[m] = inbox[m] \/ listening[m]
    BY <1>s, <1>5
  <2> QED
    BY <1>t, <1>5, <2>1 DEF EndedIsClosed
<1>6. Merged' = Merged
  BY <1>s DEF Merged
<1> QED
  BY <1>1, <1>2, <1>3, <1>4, <1>5, <1>6

(* A process ends: it has left the last stage, or it fails.                 *)
LEMMA EndKept ==
    ASSUME LinusInv, TypeOK', NEW n \in Node, NEW label \in {"done", "failed"},
           label = "done" => pc[n] = "leave", End(n, label)
    PROVE  LinusInv'
<1>t. /\ TypeOK /\ ServerInv /\ DeltasCounted /\ DeltasOfStage
      /\ \A m \in Node : EndedIsClosed(m) /\ LeavesLast(m) /\ Role(m)
      /\ \A m \in Client : ClientInv(m)
  BY DEF LinusInv
<1>s. Server \in Node /\ Client \subseteq Node /\ Server \notin Client
      /\ \A m \in Node : m # Server => m \in Client
  BY ServerAndClients
<1>e. /\ pc'[n] = label /\ inbox'[n] = << >> /\ listening'[n] = FALSE
      /\ \A m \in Node : m # n => /\ pc'[m] = pc[m]
                                  /\ inbox'[m] = inbox[m]
                                  /\ listening'[m] = listening[m]
      /\ next' = next /\ round2' = round2 /\ kv' = kv /\ stage' = stage
      /\ quota' = quota /\ received' = received
  BY <1>t DEF End, CloseSocket, Goto, TypeOK, dealVars
<1>o. /\ EndedIsClosed(n)'
      /\ LeavesLast(n)'
      /\ Role(n)'
  BY <1>t, <1>e DEF EndedIsClosed, LeavesLast, Role
<1>1. CASE n = Server
  <2>1. Round' = Round /\ ~InStage' /\ Dealt' = Dealt
    BY <1>1, <1>e DEF Round, InStage, Dealt
  <2>2. ServerInv'
    BY <1>t, <1>1, <1>e, <2>1 DEF ServerInv
  <2>3. \A m \in Client : ClientInv(m)'
    BY <1>t, <1>1, <1>s, <1>e, <2>1, ClientStays
  <2>4. \A m \in Node : EndedIsClosed(m)' /\ LeavesLast(m)' /\ Role(m)'
    BY <1>t, <1>e, <1>o DEF EndedIsClosed, LeavesLast, Role
  <2>5. DeltasCounted' /\ DeltasOfStage'
    BY <1>1, <1>e, <2>1 DEF DeltasCounted, DeltasOfStage, Pending
  <2> QED
    BY <2>2, <2>3, <2>4, <2>5 DEF LinusInv
<1>2. CASE n \in Client
  <2>1. /\ Round' = Round
        /\ InStage' <=> InStage
        /\ \A m : /\ Told(m)' <=> Told(m)
                  /\ Due(m)' = Due(m)
                  /\ Given(m)' = Given(m)
        /\ ServerInv'
        /\ \A m \in Client : m # n => ClientInv(m)'
        /\ \A m \in Node : m # n => EndedIsClosed(m)' /\ LeavesLast(m)' /\ Role(m)'
        /\ Merged' = Merged
    BY <1>2, <1>s, <1>e, OthersStay
  <2>2. ClientInv(n)'
    BY <1>t, <1>2, <1>e, <2>1 DEF ClientInv, Waits, Takes, Sends, Ahead
  <2>3. DeltasCounted'
    <3>1. SentBoth \subseteq SentBoth' /\ SentOne \subseteq SentOne'
      BY <1>2, <1>s, <1>e, <2>1 DEF SentBoth, SentOne
    <3>2. inbox'[Server] = inbox[Server]
      BY <1>2, <1>s, <1>e
    <3>3. Merged + Len(inbox[Server]) \in Nat
      BY <1>t, MergedTyped
    <3> QED
      BY <1>t, <2>1, <3>1, <3>2, <3>3, DeltasHeld
  <2>4. DeltasOfStage'
    BY <1>t, <1>2, <1>s, <1>e, <2>1 DEF DeltasOfStage, Pending
  <2> QED
    BY <1>o, <2>1, <2>2, <2>3, <2>4 DEF LinusInv
<1> QED
  BY <1>1, <1>2, <1>s

(* A step of a client that sends nothing.                                   *)
LEMMA ClientKept ==
    ASSUME LinusInv, TypeOK', NEW n \in Client,
           \A m \in Node : m # n =>
              /\ pc'[m] = pc[m] /\ quota'[m] = quota[m]
              /\ received'[m] = received[m] /\ inbox'[m] = inbox[m],
           stage' = stage, listening' = listening,
           next' = next, round2' = round2, kv' = kv,
           pc[n] \in {"quota", "take"}, pc'[n] \in {"take", "projects"},
           stage[n] = Round,
           Waits(n)' /\ Takes(n)' /\ Sends(n)'
    PROVE  LinusInv'
<1>t. /\ TypeOK /\ DeltasCounted /\ DeltasOfStage
      /\ EndedIsClosed(n) /\ LeavesLast(n) /\ Role(n)
      /\ ClientInv(n)
  BY ServerAndClients DEF LinusInv
<1>s. Server \in Node /\ Client \subseteq Node /\ Server # n /\ n \in Node
  BY ServerAndClients
<1>1. /\ Round' = Round
      /\ InStage' <=> InStage
      /\ \A m : /\ Told(m)' <=> Told(m)
                /\ Due(m)' = Due(m)
                /\ Given(m)' = Given(m)
      /\ ServerInv'
      /\ \A m \in Client : m # n => ClientInv(m)'
      /\ \A m \in Node : m # n => EndedIsClosed(m)' /\ LeavesLast(m)' /\ Role(m)'
      /\ Merged' = Merged
  BY <1>s, OthersStay
<1>2. EndedIsClosed(n)' /\ LeavesLast(n)' /\ Role(n)'
  BY <1>t, <1>s DEF EndedIsClosed, LeavesLast, Role
<1>4. stage'[n] = Round' /\ Round \in Nat
  BY <1>1, <1>s, <1>t, LinusAssumption DEF Round, TypeOK
<1>5. ClientInv(n)'
  BY <1>4, <1>1 DEF ClientInv, Ahead
<1>6. DeltasCounted'
  <2>1. SentBoth \subseteq SentBoth' /\ SentOne \subseteq SentOne'
    BY <1>s, <1>1 DEF SentBoth, SentOne
  <2>2. inbox'[Server] = inbox[Server]
    BY <1>s
  <2>3. Merged + Len(inbox[Server]) \in Nat
    BY <1>t, MergedTyped
  <2> QED
    BY <1>t, <1>1, <2>1, <2>2, <2>3, DeltasHeld
<1>7. DeltasOfStage'
  BY <1>t, <1>s, <1>1 DEF DeltasOfStage, Pending
<1> QED
  BY <1>1, <1>2, <1>5, <1>6, <1>7 DEF LinusInv

LEMMA TakeKept ==
    ASSUME LinusInv, TypeOK', NEW n \in Client, TakeQuota(n) \/ TakeChunk(n)
    PROVE  LinusInv'
<1>t. /\ TypeOK /\ ClientInv(n) /\ n \in Node /\ n # Server /\ ServerInv
  BY ServerAndClients DEF LinusInv
<1>f. CASE Fail(n)
  BY <1>t, <1>f, EndKept DEF Fail
<1>1. CASE /\ pc[n] = "quota"
           /\ Receive(n)
           /\ quota' = [quota EXCEPT ![n] = Head(inbox[n]).count]
           /\ received' = [received EXCEPT ![n] = 0]
           /\ Goto(n, "take")
           /\ UNCHANGED <<commits, stage, next, round2, chunkSoFar, setVars, kv>>
  <2>1. /\ Len(inbox[n]) \in Nat \ {0}
        /\ Len(inbox'[n]) = Len(inbox[n]) - 1
        /\ \A i \in 1 .. Len(inbox'[n]) : inbox'[n][i] = inbox[n][i + 1]
        /\ Head(inbox[n]) = inbox[n][1]
        /\ \A m \in Node : m # n => inbox'[m] = inbox[m]
        /\ listening' = listening
    BY <1>t, <1>1, ReceiveTakes
  <2>2. /\ pc'[n] = "take" /\ pc'[Server] = pc[Server]
        /\ \A m \in Node : m # n => pc'[m] = pc[m] /\ quota'[m] = quota[m]
                                    /\ received'[m] = received[m]
        /\ quota'[n] = inbox[n][1].count /\ received'[n] = 0
        /\ stage' = stage /\ next' = next /\ round2' = round2 /\ kv' = kv
    BY <1>t, <1>1, <2>1, ServerAndClients DEF TypeOK, Goto
  <2>3. /\ Round' = Round
        /\ InStage' <=> InStage
        /\ \A m : /\ Told(m)' <=> Told(m)
                  /\ Due(m)' = Due(m)
                  /\ Given(m)' = Given(m)
    BY <2>2, SameDeal
  <2>4. /\ stage[n] = Round
        /\ ChunksOnly(n, 2)
        /\ Len(inbox[n]) - 1 <= inbox[n][1].count
        /\ InStage => /\ Told(n)
                      /\ inbox[n][1].count = Due(n)
                      /\ Len(inbox[n]) - 1 = Given(n)
    BY <1>t, <1>1 DEF ClientInv, Waits, Receive
  <2>5. ChunksOnly(n, 1)'
    BY <2>1, <2>4 DEF ChunksOnly
  <2>q. quota'[n] \in Nat
    BY <1>t DEF TypeOK
  <2>6. Len(inbox'[n]) <= quota'[n] - received'[n]
    BY <2>1, <2>2, <2>4, <2>q
  <2>7. InStage => received'[n] + Len(inbox'[n]) = Given(n)
    <3>1. received'[n] = 0 /\ Len(inbox'[n]) = Len(inbox[n]) - 1 /\ Len(inbox[n]) \in Nat
      BY <2>1, <2>2
    <3>2. received'[n] + Len(inbox'[n]) = Len(inbox[n]) - 1
      BY <3>1
    <3> QED
      BY <2>4, <3>2
  <2>8. Takes(n)'
    BY <2>2, <2>3, <2>4, <2>5, <2>6, <2>7 DEF Takes
  <2>9. Waits(n)' /\ Sends(n)'
    BY <2>2 DEF Waits, Sends
  <2> QED
    BY <1>1, <2>1, <2>2, <2>4, <2>8, <2>9, ClientKept
<1>2. CASE /\ pc[n] = "take"
           /\ Receive(n)
           /\ chunkSoFar' = [chunkSoFar EXCEPT ![n] = @ \union Head(inbox[n]).ids]
           /\ received' = [received EXCEPT ![n] = @ + 1]
           /\ UNCHANGED <<commits, pc, stage, next, round2, quota, setVars, kv>>
  <2>1. /\ Len(inbox[n]) \in Nat \ {0}
        /\ Len(inbox'[n]) = Len(inbox[n]) - 1
        /\ \A i \in 1 .. Len(inbox'[n]) : inbox'[n][i] = inbox[n][i + 1]
        /\ \A m \in Node : m # n => inbox'[m] = inbox[m]
        /\ listening' = listening
    BY <1>t, <1>2, ReceiveTakes
  <2>2. /\ \A m \in Node : m # n => received'[m] = received[m]
        /\ received'[n] = received[n] + 1
        /\ received[n] \in Nat /\ quota[n] \in Nat
    BY <1>t, <1>2 DEF TypeOK
  <2>3. /\ Round' = Round
        /\ InStage' <=> InStage
        /\ \A m : /\ Told(m)' <=> Told(m)
                  /\ Due(m)' = Due(m)
                  /\ Given(m)' = Given(m)
    BY <1>2, SameDeal
  <2>4. /\ stage[n] = Round
        /\ ChunksOnly(n, 1)
        /\ Len(inbox[n]) <= quota[n] - received[n]
        /\ InStage => /\ Told(n)
                      /\ quota[n] = Due(n)
                      /\ received[n] + Len(inbox[n]) = Given(n)
    BY <1>t, <1>2 DEF ClientInv, Takes
  <2>5. ChunksOnly(n, 1)'
    BY <2>1, <2>4 DEF ChunksOnly
  <2>6. Len(inbox'[n]) <= quota[n] - received'[n]
    BY <2>1, <2>2, <2>4
  <2>7. InStage => received'[n] + Len(inbox'[n]) = Given(n)
    <3>1. /\ received'[n] = received[n] + 1 /\ received[n] \in Nat
          /\ Len(inbox'[n]) = Len(inbox[n]) - 1 /\ Len(inbox[n]) \in Nat
      BY <2>1, <2>2
    <3>2. received'[n] + Len(inbox'[n]) = received[n] + Len(inbox[n])
      BY <3>1
    <3> QED
      BY <2>4, <3>2
  <2>8. Takes(n)'
    BY <1>2, <2>3, <2>4, <2>5, <2>6, <2>7 DEF Takes
  <2>9. Waits(n)' /\ Sends(n)'
    BY <1>2 DEF Waits, Sends
  <2> QED
    BY <1>2, <2>1, <2>2, <2>4, <2>8, <2>9, ClientKept
<1> QED
  BY <1>f, <1>1, <1>2 DEF TakeQuota, TakeChunk

(* Every node that has its chunks tags projects.                            *)
LEMMA ClientTagsKept ==
    ASSUME LinusInv, TypeOK', NEW n \in Client, TagProjects(n)
    PROVE  LinusInv'
<1>t. /\ TypeOK /\ ClientInv(n) /\ n \in Node /\ n # Server /\ ServerInv /\ Role(n)
  BY ServerAndClients DEF LinusInv
<1>1. /\ pc[n] = "take" /\ received[n] >= quota[n]
      /\ pc'[n] = "projects"
      /\ \A m \in Node : m # n => pc'[m] = pc[m] /\ received'[m] = received[m]
      /\ inbox' = inbox /\ listening' = listening
      /\ stage' = stage /\ next' = next /\ round2' = round2 /\ quota' = quota
      /\ kv' = kv
  BY <1>t DEF TagProjects, TypeOK, Goto, netVars
<1>2. /\ Round' = Round
      /\ InStage' <=> InStage
      /\ \A m : /\ Told(m)' <=> Told(m)
                /\ Due(m)' = Due(m)
                /\ Given(m)' = Given(m)
  BY <1>1, <1>t, ServerAndClients, SameDeal
<1>3. received[n] \in Nat /\ quota[n] \in Nat /\ Len(inbox[n]) \in Nat
  BY <1>t DEF TypeOK
<1>4. /\ stage[n] = Round
      /\ Len(inbox[n]) <= quota[n] - received[n]
      /\ InStage => /\ Told(n)
                    /\ quota[n] = Due(n)
                    /\ received[n] + Len(inbox[n]) = Given(n)
  BY <1>t, <1>1 DEF ClientInv, Takes
<1>5. Len(inbox[n]) = 0 /\ received[n] = quota[n]
  BY <1>1, <1>3, <1>4
<1>6. inbox[n] = << >>
  BY <1>t, <1>5 DEF TypeOK
<1>7. received[n] + Len(inbox[n]) = quota[n]
  BY <1>3, <1>5
<1>8. InStage => Given(n) = Due(n)
  BY <1>4, <1>7
<1>9. Waits(n)' /\ Takes(n)' /\ Sends(n)'
  BY <1>1, <1>2, <1>4, <1>6, <1>8 DEF Waits, Takes, Sends
<1> QED
  BY <1>1, <1>4, <1>9, ClientKept

(* A step of node 0 within a stage.  A client it sends nothing keeps its    *)
(* place.                                                                   *)
LEMMA ServerKept ==
    ASSUME LinusInv, TypeOK', InStage, InStage',
           \A m \in Client : /\ pc'[m] = pc[m]
                             /\ inbox'[m] = inbox[m] \/ listening[m]
                             /\ \/ ClientInv(m)'
                                \/ /\ quota'[m] = quota[m] /\ received'[m] = received[m]
                                   /\ inbox'[m] = inbox[m]
                                   /\ Told(m)' <=> Told(m)
                                   /\ Given(m)' = Given(m),
           stage' = stage, listening' = listening,
           kv'[Server][<<"users", Round>>] = Dealt,
           ServerInv', DeltasOfStage',
           Merged' + Len(inbox'[Server]) <= Merged + Len(inbox[Server])
    PROVE  LinusInv'
<1>t. /\ TypeOK /\ DeltasCounted
      /\ \A m \in Node : EndedIsClosed(m) /\ LeavesLast(m) /\ Role(m)
      /\ \A m \in Client : ClientInv(m)
  BY DEF LinusInv
<1>s. Server \in Node /\ Client \subseteq Node /\ Server \notin Client
      /\ \A m \in Node : m # Server => m \in Client
  BY ServerAndClients
<1>1. Round' = Round /\ Dealt' = Dealt
  BY DEF Round, Dealt
<1>2. \A m : Due(m)' = Due(m)
  BY <1>1 DEF Due, DealtChunks
<1>3. \A m \in Client : ClientInv(m)'
  BY <1>t, <1>1, <1>2, ClientStays
<1>4. \A m \in Client : EndedIsClosed(m)' /\ LeavesLast(m)' /\ Role(m)'
  BY <1>t, <1>s DEF EndedIsClosed, LeavesLast, Role
<1>5. EndedIsClosed(Server)' /\ LeavesLast(Server)' /\ Role(Server)'
  BY <1>t, <1>s DEF EndedIsClosed, LeavesLast, Role, InStage
<1>6. DeltasCounted'
  <2>1. SentBoth \subseteq SentBoth' /\ SentOne \subseteq SentOne'
    BY <1>s, <1>1 DEF SentBoth, SentOne
  <2> QED
    BY <1>t, <2>1, DeltasHeld
<1> QED
  BY <1>s, <1>3, <1>4, <1>5, <1>6 DEF LinusInv

LEMMA ServerTagsKept ==
    ASSUME LinusInv, TypeOK', TagProjects(Server)
    PROVE  LinusInv'
<1>t. /\ TypeOK /\ ServerInv /\ DeltasOfStage /\ Role(Server)
      /\ Server \in Node /\ Client \subseteq Node /\ Server \notin Client
  BY ServerAndClients DEF LinusInv
<1>1. /\ pc[Server] = "deal" /\ next >= DealtChunks
      /\ pc'[Server] = "projects" /\ received'[Server] = 0
      /\ \A m \in Client : pc'[m] = pc[m] /\ received'[m] = received[m]
      /\ inbox' = inbox /\ listening' = listening
      /\ stage' = stage /\ next' = next /\ round2' = round2 /\ quota' = quota
      /\ kv' = kv
  BY <1>t DEF TagProjects, TypeOK, Goto, netVars, Role
<1>2. InStage /\ InStage' /\ Round' = Round /\ Dealt' = Dealt
  BY <1>1 DEF InStage, Round, Dealt
<1>3. \A m \in Client : (Told(m)' <=> Told(m)) /\ Given(m)' = Given(m)
  BY <1>1 DEF Told, Given
<1>4. next \in 0 .. DealtChunks /\ DealtChunks \in Nat
  BY <1>t, <1>1, DealtChunksTyped DEF ServerInv
<1>5. next = DealtChunks
  BY <1>1, <1>4
<1>6. DealtChunks' = DealtChunks
  BY <1>2 DEF DealtChunks
<1>7. ServerInv'
  BY <1>t, <1>1, <1>2, <1>5, <1>6 DEF ServerInv
<1>8. DeltasOfStage'
  BY <1>t, <1>1, <1>2 DEF DeltasOfStage, Pending
<1>9. Merged' = 0 /\ Merged = 0
  BY <1>1 DEF Merged
<1>10. Merged' + Len(inbox'[Server]) <= Merged + Len(inbox[Server])
  BY <1>1, <1>9, MergedTyped, <1>t
<1>11. kv'[Server][<<"users", Round>>] = Dealt
  BY <1>1 DEF Dealt, Round
<1> QED
  BY <1>1, <1>2, <1>3, <1>7, <1>8, <1>10, <1>11, ServerKept

LEMMA CountsSentKept ==
    ASSUME LinusInv, TypeOK', CountsSent
    PROVE  LinusInv'
<1>t. /\ TypeOK /\ ServerInv /\ DeltasOfStage
      /\ Server \in Node /\ Client \subseteq Node /\ Server \notin Client
      /\ NumNodes \in Nat \ {0}
  BY ServerAndClients DEF LinusInv
<1>1. /\ pc[Server] = "counts" /\ next >= NumNodes
      /\ pc'[Server] = "deal" /\ next' = 0 /\ round2' = Server
      /\ \A m \in Client : pc'[m] = pc[m]
      /\ inbox' = inbox /\ listening' = listening /\ received' = received
      /\ stage' = stage /\ quota' = quota /\ kv' = kv
  BY <1>t DEF CountsSent, TypeOK, Goto, netVars
<1>2. InStage /\ InStage' /\ Round' = Round /\ Dealt' = Dealt
  BY <1>1 DEF InStage, Round, Dealt
<1>3. ASSUME NEW m \in Client
      PROVE  (Told(m)' <=> Told(m)) /\ Given(m)' = Given(m)
  <2>1. m < next
    BY <1>1, <1>t, ServerAndClients DEF TypeOK
  <2>2. Told(m) /\ Told(m)'
    BY <1>1, <2>1 DEF Told
  <2>3. {c \in 0 .. 0 - 1 : c % NumNodes = m} = {}
    OBVIOUS
  <2>4. Share(m, 0, NumNodes) = 0
    BY <2>3, FS_EmptySet DEF Share
  <2> QED
    BY <1>1, <2>2, <2>4 DEF Given
<1>4. DealtChunks' = DealtChunks /\ DealtChunks \in Nat
  BY <1>t, <1>2, DealtChunksTyped DEF DealtChunks
<1>5. next' \in 0 .. DealtChunks /\ round2' = next' % NumNodes
  BY <1>1, <1>t, <1>4 DEF Server
<1>6. ServerInv'
  BY <1>t, <1>1, <1>2, <1>4, <1>5 DEF ServerInv
<1>7. DeltasOfStage'
  BY <1>t, <1>1, <1>2 DEF DeltasOfStage, Pending
<1>8. Merged' = 0 /\ Merged = 0
  BY <1>1 DEF Merged
<1>9. Merged' + Len(inbox'[Server]) <= Merged + Len(inbox[Server])
  BY <1>1, <1>8, MergedTyped, <1>t
<1>10. kv'[Server][<<"users", Round>>] = Dealt
  BY <1>1 DEF Dealt, Round
<1> QED
  BY <1>1, <1>2, <1>3, <1>6, <1>7, <1>9, <1>10, ServerKept

---------------------------------------------------------------------------
(* What a deal in turn gives the nodes.                                     *)
LEMMA ShareGrows ==
    ASSUME NEW n, NEW b \in Nat
    PROVE  /\ Share(n, b, NumNodes) \in Nat
           /\ Share(n, b + 1, NumNodes) = Share(n, b, NumNodes)
                                             + (IF b % NumNodes = n THEN 1 ELSE 0)
<1>1. 0 .. (b + 1) - 1 = 0 .. b
  OBVIOUS
<1>2. Share(n, b + 1, NumNodes) = Cardinality({c \in 0 .. b : c % NumNodes = n})
  BY <1>1 DEF Share
<1> QED
  BY <1>2, ShareTyped, TurnsGrow DEF Share

LEMMA ShareMonotonic ==
    ASSUME NEW n, NEW a \in Nat, NEW b \in Nat, a <= b
    PROVE  Share(n, a, NumNodes) <= Share(n, b, NumNodes)
BY TurnsMonotonic DEF Share

(* The turn after chunk j is that of chunk j + 1.                           *)
LEMMA TurnFollows ==
    ASSUME NEW j \in Nat
    PROVE  /\ j % NumNodes \in Node
           /\ NextNode(j % NumNodes, NumNodes) = (j + 1) % NumNodes
<1>1. NumNodes \in Nat \ {0}
  BY NumNodesAssumption
<1> QED
  BY <1>1, DivRange, ModNext DEF NextNode, Node

LEMMA DealKeepKept ==
    ASSUME LinusInv, TypeOK', DealKeep
    PROVE  LinusInv'
<1>t. /\ TypeOK /\ ServerInv /\ DeltasOfStage
      /\ Server \in Node /\ Client \subseteq Node /\ Server \notin Client
  BY ServerAndClients DEF LinusInv
<1>1. /\ pc[Server] = "deal" /\ next < DealtChunks /\ round2 = Server
      /\ next' = next + 1 /\ round2' = NextNode(round2, NumNodes)
      /\ pc' = pc /\ inbox' = inbox /\ listening' = listening
      /\ received' = received /\ stage' = stage /\ quota' = quota /\ kv' = kv
  BY DEF DealKeep, netVars
<1>2. InStage /\ InStage' /\ Round' = Round /\ Dealt' = Dealt
  BY <1>1 DEF InStage, Round, Dealt
<1>3. next \in 0 .. DealtChunks /\ round2 = next % NumNodes /\ DealtChunks \in Nat
  BY <1>t, <1>1, DealtChunksTyped DEF ServerInv
<1>4. ASSUME NEW m \in Client
      PROVE  (Told(m)' <=> Told(m)) /\ Given(m)' = Given(m)
  <2>1. next % NumNodes # m
    BY <1>1, <1>3, <1>t
  <2>2. Share(m, next + 1, NumNodes) = Share(m, next, NumNodes) + 0
    BY <1>3, <2>1, ShareGrows
  <2>3. Share(m, next, NumNodes) \in Nat
    BY <1>3, ShareTyped
  <2> QED
    BY <1>1, <2>2, <2>3 DEF Given, Told
<1>5. DealtChunks' = DealtChunks
  BY <1>2 DEF DealtChunks
<1>6. next' \in 0 .. DealtChunks /\ round2' = next' % NumNodes
  <2>1. next \in Nat
    BY <1>3
  <2> QED
    BY <1>1, <1>3, <2>1, TurnFollows
<1>7. ServerInv'
  BY <1>t, <1>1, <1>2, <1>5, <1>6 DEF ServerInv
<1>8. DeltasOfStage'
  BY <1>t, <1>1, <1>2 DEF DeltasOfStage, Pending
<1>9. Merged' = Merged
  BY <1>1 DEF Merged
<1>10. Merged' + Len(inbox'[Server]) <= Merged + Len(inbox[Server])
  BY <1>1, <1>9, MergedTyped, <1>t
<1>11. kv'[Server][<<"users", Round>>] = Dealt
  BY <1>1 DEF Dealt, Round
<1> QED
  BY <1>1, <1>2, <1>4, <1>7, <1>8, <1>10, <1>11, ServerKept

LEMMA DealSendKept ==
    ASSUME LinusInv, TypeOK', DealSend
    PROVE  LinusInv'
<1>r. PICK t \in Client : t = round2
  BY ServerAndClients DEF LinusInv, DealSend, TypeOK
<1>t. /\ TypeOK /\ ServerInv /\ DeltasOfStage
      /\ Server \in Node /\ Client \subseteq Node /\ Server \notin Client
      /\ EndedIsClosed(t) /\ ClientInv(t)
  BY ServerAndClients DEF LinusInv
<1>f. CASE Fail(Server)
  BY <1>t, <1>f, EndKept DEF Fail
<1>1. ASSUME NEW ids, Send(Server, t, ChunkMsg(ids)),
             next' = next + 1,
             round2' = NextNode(round2, NumNodes),
             UNCHANGED <<commits, pc, stage, received, quota, chunkSoFar,
                         setVars, kv>>
      PROVE  LinusInv'
  <2>1. /\ pc[Server] = "deal" /\ next < DealtChunks
        /\ pc' = pc /\ received' = received /\ stage' = stage
        /\ quota' = quota /\ kv' = kv
    BY <1>1 DEF DealSend
  <2>2. InStage /\ InStage' /\ Round' = Round /\ Dealt' = Dealt
    BY <2>1 DEF InStage, Round, Dealt
  <2>3. next \in 0 .. DealtChunks /\ t = next % NumNodes /\ DealtChunks \in Nat
        /\ next \in Nat
    BY <1>r, <1>t, <2>1, DealtChunksTyped DEF ServerInv
  <2>4. DealtChunks' = DealtChunks
    BY <2>2 DEF DealtChunks
  <2>5. next' \in 0 .. DealtChunks /\ round2' = next' % NumNodes
    BY <1>r, <1>1, <2>1, <2>3, TurnFollows
  <2>6. ServerInv'
    BY <1>t, <2>1, <2>2, <2>4, <2>5 DEF ServerInv
  <2>7. \A m : /\ Given(m) \in Nat
               /\ Given(m)' = Given(m) + (IF m = t THEN 1 ELSE 0)
               /\ Told(m)' /\ Told(m) /\ Due(m)' = Due(m)
    BY <1>1, <2>1, <2>3, <2>4, ShareGrows DEF Given, Told, Due
  <2>8. Given(t) + 1 <= Due(t) /\ Due(t) \in Nat
    <3>1. Share(t, next + 1, NumNodes) <= Share(t, DealtChunks, NumNodes)
      BY <2>1, <2>3, ShareMonotonic
    <3>2. Share(t, next + 1, NumNodes) = Given(t) + 1
      BY <2>1, <2>3, ShareGrows DEF Given
    <3> QED
      BY <3>1, <3>2, <1>t, SharesTyped DEF Due
  <2>9. /\ Len(inbox[t]) \in Nat
        /\ Len(inbox'[t]) = Len(inbox[t]) + 1
        /\ \A i \in 1 .. Len(inbox[t]) : inbox'[t][i] = inbox[t][i]
        /\ inbox'[t][Len(inbox[t]) + 1].kind = "chunk"
        /\ inbox'[t] # << >>
        /\ \A m \in Node : m # t => inbox'[m] = inbox[m]
        /\ listening[t] /\ listening' = listening
    BY <1>t, <1>1, SendAppends DEF ChunkMsg
  <2>10. Given(t) # Due(t)
    BY <2>7, <2>8
  <2>11. /\ stage[t] = Round
         /\ pc[t] \in {"quota", "take"}
         /\ pc[t] = "quota" => inbox[t] # << >>
    BY <1>t, <2>2, <2>7, <2>9, <2>10, Owed DEF EndedIsClosed
  <2>12. \A first \in Nat \ {0} : ChunksOnly(t, first) => ChunksOnly(t, first)'
    <3>1. ASSUME NEW first \in Nat \ {0}, ChunksOnly(t, first),
                 NEW i \in first .. Len(inbox'[t])
          PROVE  inbox'[t][i].kind = "chunk"
      <4>1. CASE i = Len(inbox[t]) + 1
        BY <2>9, <4>1
      <4>2. CASE i # Len(inbox[t]) + 1
        <5>1. i \in 1 .. Len(inbox[t]) /\ i \in first .. Len(inbox[t])
          BY <2>9, <3>1, <4>2
        <5> QED
          BY <2>9, <3>1, <5>1 DEF ChunksOnly
      <4> QED
        BY <4>1, <4>2
    <3> QED
      BY <3>1 DEF ChunksOnly
  <2>13. ClientInv(t)'
    <3>a. Ahead(t)'
      <4>1. Round' \in Nat /\ stage'[t] = Round'
        BY <1>t, <2>1, <2>2, <2>11, LinusAssumption DEF TypeOK, Round
      <4> QED
        BY <4>1 DEF Ahead, Round
    <3>1. CASE pc[t] = "quota"
      <4>1. /\ inbox[t] # << >>
            /\ inbox[t][1].kind = "count" /\ ChunksOnly(t, 2)
            /\ inbox[t][1].count = Due(t)
            /\ Len(inbox[t]) - 1 = Given(t)
        BY <1>t, <2>2, <2>11, <3>1 DEF ClientInv, Waits
      <4>2. 1 \in 1 .. Len(inbox[t])
        BY <1>t, <4>1 DEF TypeOK
      <4>3. inbox'[t][1] = inbox[t][1]
        BY <2>9, <4>2
      <4>4. Len(inbox'[t]) - 1 = Given(t) + 1
        BY <2>9, <4>1
      <4>5. Waits(t)'
        BY <2>1, <2>2, <2>7, <2>8, <2>9, <2>11, <2>12, <4>1, <4>3, <4>4 DEF Waits
      <4> QED
        BY <2>1, <3>1, <3>a, <4>5 DEF ClientInv, Takes, Sends
    <3>2. CASE pc[t] = "take"
      <4>1. /\ ChunksOnly(t, 1)
            /\ quota[t] = Due(t)
            /\ received[t] + Len(inbox[t]) = Given(t)
            /\ received[t] \in Nat
        BY <1>t, <2>2, <2>11, <3>2 DEF ClientInv, Takes, TypeOK
      <4>2. received[t] + Len(inbox'[t]) = Given(t) + 1
        <5>1. received[t] \in Nat /\ Len(inbox[t]) \in Nat
              /\ Len(inbox'[t]) = Len(inbox[t]) + 1
          BY <2>9, <4>1
        <5>2. received[t] + Len(inbox'[t]) = (received[t] + Len(inbox[t])) + 1
          BY <5>1
        <5> QED
          BY <4>1, <5>2
      <4>3. Len(inbox'[t]) <= quota[t] - received[t]
        BY <2>7, <2>8, <2>9, <4>1, <4>2
      <4>4. Takes(t)'
        BY <2>1, <2>2, <2>7, <2>11, <2>12, <4>1, <4>2, <4>3 DEF Takes
      <4> QED
        BY <2>1, <3>2, <3>a, <4>4 DEF ClientInv, Waits, Sends
    <3> QED
      BY <2>11, <3>1, <3>2
  <2>14. DeltasOfStage'
    BY <1>t, <2>1, <2>2, <2>9 DEF DeltasOfStage, Pending
  <2>15. Merged' + Len(inbox'[Server]) <= Merged + Len(inbox[Server])
    <3>1. Merged' = Merged
      BY <2>1 DEF Merged
    <3> QED
      BY <1>t, <2>9, <3>1, MergedTyped
  <2>16. kv'[Server][<<"users", Round>>] = Dealt
    BY <2>1 DEF Dealt, Round
  <2>17. \A m \in Client : \/ m = t
                           \/ inbox'[m] = inbox[m] /\ Given(m)' = Given(m)
    BY <1>t, <2>7, <2>9
  <2> QED
    BY <1>t, <2>1, <2>2, <2>6, <2>7, <2>9, <2>13, <2>14, <2>15, <2>16, <2>17,
       ServerKept
<1> QED
  BY <1>r, <1>f, <1>1 DEF DealSend

LEMMA SendCountKept ==
    ASSUME LinusInv, TypeOK', SendCount
    PROVE  LinusInv'
<1>r. PICK t \in Client : t = next
  BY ServerAndClients DEF LinusInv, ServerInv, SendCount, Client, Node, Server
<1>t. /\ TypeOK /\ ServerInv /\ DeltasOfStage
      /\ Server \in Node /\ Client \subseteq Node /\ Server \notin Client
      /\ EndedIsClosed(t) /\ ClientInv(t)
  BY ServerAndClients DEF LinusInv
<1>f. CASE Fail(Server)
  BY <1>t, <1>f, EndKept DEF Fail
<1>1. CASE /\ Send(Server, t, CountMsg(Share(t, DealtChunks, NumNodes)))
           /\ next' = next + 1
           /\ UNCHANGED <<commits, pc, stage, received, round2, quota,
                          chunkSoFar, setVars, kv>>
  <2>1. /\ pc[Server] = "counts" /\ next < NumNodes
        /\ pc' = pc /\ received' = received /\ stage' = stage
        /\ quota' = quota /\ kv' = kv
    BY <1>1 DEF SendCount
  <2>2. InStage /\ InStage' /\ Round' = Round /\ Dealt' = Dealt
    BY <2>1 DEF InStage, Round, Dealt
  <2>3. next \in 1 .. NumNodes /\ NumNodes \in Nat
    BY <1>t, <2>1, ServerAndClients DEF ServerInv
  <2>4. DealtChunks' = DealtChunks
    BY <2>2 DEF DealtChunks
  <2>5. next' \in 1 .. NumNodes
    BY <1>1, <2>1, <2>3
  <2>6. ServerInv'
    BY <1>t, <2>1, <2>2, <2>4, <2>5 DEF ServerInv
  <2>7. /\ \A m : Given(m)' = Given(m) /\ Due(m)' = Due(m) /\ Given(m) = 0
        /\ ~Told(t) /\ Told(t)'
        /\ \A m \in Client : m # t => (Told(m)' <=> Told(m))
        /\ Due(t) \in Nat
    BY <1>r, <1>1, <1>t, <2>1, <2>3, <2>4, SharesTyped, ServerAndClients
       DEF Given, Told, Due
  <2>8. /\ Len(inbox[t]) \in Nat
        /\ Len(inbox'[t]) = Len(inbox[t]) + 1
        /\ inbox'[t][Len(inbox[t]) + 1] = CountMsg(Due(t))
        /\ inbox'[t] # << >>
        /\ \A m \in Node : m # t => inbox'[m] = inbox[m]
        /\ listening[t] /\ listening' = listening
    BY <1>t, <1>1, SendAppends DEF Due
  <2>9. pc[t] = "quota" /\ stage[t] = Round /\ inbox[t] = << >>
    BY <1>t, <2>2, <2>7, <2>8, Untold DEF EndedIsClosed
  <2>10. Len(inbox[t]) = 0
    BY <2>9
  <2>11. Len(inbox'[t]) = 1 /\ inbox'[t][1] = CountMsg(Due(t))
    BY <2>8, <2>10
  <2>12. ClientInv(t)'
    <3>1. Round' \in Nat /\ stage'[t] = Round'
      BY <1>t, <2>1, <2>2, <2>9, LinusAssumption DEF TypeOK, Round
    <3>2. Ahead(t)'
      BY <3>1 DEF Ahead, Round
    <3>3. ChunksOnly(t, 2)'
      BY <2>11 DEF ChunksOnly
    <3>4. Waits(t)'
      BY <2>1, <2>2, <2>7, <2>8, <2>9, <2>11, <3>3 DEF Waits, CountMsg
    <3> QED
      BY <2>1, <2>9, <3>2, <3>4 DEF ClientInv, Takes, Sends
  <2>13. DeltasOfStage'
    BY <1>t, <2>1, <2>2, <2>8 DEF DeltasOfStage, Pending
  <2>14. Merged' + Len(inbox'[Server]) <= Merged + Len(inbox[Server])
    <3>1. Merged' = Merged
      BY <2>1 DEF Merged
    <3> QED
      BY <1>t, <2>8, <3>1, MergedTyped
  <2>15. kv'[Server][<<"users", Round>>] = Dealt
    BY <2>1 DEF Dealt, Round
  <2>16. \A m \in Client : \/ m = t
                           \/ /\ inbox'[m] = inbox[m]
                              /\ Given(m)' = Given(m)
                              /\ Told(m)' <=> Told(m)
    BY <1>t, <2>7, <2>8
  <2> QED
    BY <1>t, <2>1, <2>2, <2>6, <2>8, <2>12, <2>13, <2>14, <2>15, <2>16, ServerKept
<1> QED
  BY <1>r, <1>f, <1>1 DEF SendCount

LEMMA MergeDeltaKept ==
    ASSUME LinusInv, TypeOK', MergeDelta
    PROVE  LinusInv'
<1>t. /\ TypeOK /\ ServerInv /\ DeltasOfStage
      /\ Server \in Node /\ Client \subseteq Node /\ Server \notin Client
  BY ServerAndClients DEF LinusInv
<1>f. CASE Fail(Server)
  BY <1>t, <1>f, EndKept DEF Fail
<1>1. CASE /\ Receive(Server)
           /\ received' = [received EXCEPT ![Server] = @ + 1]
           /\ UNCHANGED <<commits, pc, stage, dealVars, pSet, uSet, kv>>
  <2>1. /\ pc[Server] \in {"projects", "users"}
        /\ pc' = pc /\ stage' = stage /\ kv' = kv
        /\ next' = next /\ round2' = round2 /\ quota' = quota
        /\ \A m \in Client : received'[m] = received[m]
        /\ received'[Server] = received[Server] + 1 /\ received[Server] \in Nat
    BY <1>t, <1>1 DEF MergeDelta, Merging, dealVars, TypeOK
  <2>2. InStage /\ InStage' /\ Round' = Round /\ Dealt' = Dealt
    BY <2>1 DEF InStage, Round, Dealt
  <2>3. DealtChunks' = DealtChunks
    BY <2>2 DEF DealtChunks
  <2>4. ServerInv'
    BY <1>t, <2>1, <2>2, <2>3 DEF ServerInv
  <2>5. \A m : Given(m)' = Given(m) /\ (Told(m)' <=> Told(m))
    BY <2>1 DEF Given, Told
  <2>6. /\ Len(inbox[Server]) \in Nat \ {0}
        /\ Len(inbox'[Server]) = Len(inbox[Server]) - 1
        /\ \A i \in 1 .. Len(inbox'[Server]) : inbox'[Server][i] = inbox[Server][i + 1]
        /\ \A m \in Node : m # Server => inbox'[m] = inbox[m]
        /\ listening' = listening
    BY <1>t, <1>1, ReceiveTakes
  <2>7. DeltasOfStage'
    <3>1. ASSUME NEW i \in 1 .. Len(inbox'[Server])
          PROVE  inbox'[Server][i].kind = "delta" /\ inbox'[Server][i].stage = Round
      <4>1. i + 1 \in 1 .. Len(inbox[Server])
        BY <2>6, <3>1
      <4> QED
        BY <1>t, <2>6, <3>1, <4>1 DEF DeltasOfStage, Pending
    <3> QED
      BY <2>2, <3>1 DEF DeltasOfStage, Pending
  <2>8. Merged' + Len(inbox'[Server]) <= Merged + Len(inbox[Server])
    <3>1. Merged' = Merged + 1
      BY <2>1, ServerAndClients DEF Merged
    <3>2. Merged \in Nat /\ Len(inbox[Server]) \in Nat
          /\ Len(inbox'[Server]) = Len(inbox[Server]) - 1
      BY <1>t, <2>6, MergedTyped
    <3>3. \A a, b \in Nat : (a + 1) + (b - 1) <= a + b
      OBVIOUS
    <3> QED
      BY <3>1, <3>2, <3>3
  <2>9. kv'[Server][<<"users", Round>>] = Dealt
    BY <2>1 DEF Dealt, Round
  <2>10. \A m \in Client : inbox'[m] = inbox[m]
    BY <1>t, <2>6
  <2> QED
    BY <1>t, <2>1, <2>2, <2>4, <2>5, <2>6, <2>7, <2>8, <2>9, <2>10, ServerKept
<1> QED
  BY <1>f, <1>1 DEF MergeDelta

(* A frame put into the store of node 0 leaves the others there.            *)
LEMMA PutServer ==
    ASSUME TypeOK, NEW key, NEW ids, Put(Server, key, ids)
    PROVE  /\ DOMAIN kv'[Server] = DOMAIN kv[Server] \union {key}
           /\ kv'[Server][key] = ids
           /\ \A k \in DOMAIN kv[Server] : k # key => kv'[Server][k] = kv[Server][k]
           /\ \A m \in Client : kv'[m] = kv[m]
<1>1. Server \in DOMAIN kv /\ DOMAIN kv = Node
  BY ServerAndClients DEF TypeOK
<1>2. kv'[Server] = [k \in DOMAIN kv[Server] \union {key} |->
                        IF k = key THEN ids ELSE kv[Server][k]]
  BY <1>1 DEF Put
<1>3. \A m \in Client : kv'[m] = kv[m]
  BY <1>1, ServerAndClients DEF Put
<1> QED
  BY <1>2, <1>3

LEMMA PublishProjectsKept ==
    ASSUME LinusInv, TypeOK', PublishProjects
    PROVE  LinusInv'
<1>t. /\ TypeOK /\ ServerInv /\ DeltasOfStage
      /\ Server \in Node /\ Client \subseteq Node /\ Server \notin Client
  BY ServerAndClients DEF LinusInv
<1>1. /\ pc[Server] = "projects" /\ received[Server] >= NumNodes - 1
      /\ pc'[Server] = "users" /\ received'[Server] = 0
      /\ \A m \in Client : pc'[m] = pc[m] /\ received'[m] = received[m]
      /\ inbox' = inbox /\ listening' = listening
      /\ stage' = stage /\ next' = next /\ round2' = round2 /\ quota' = quota
      /\ Put(Server, <<"projects", Round>>, newProjects[Server])
  BY <1>t DEF PublishProjects, TagUsers, TypeOK, Goto, netVars, dealVars, Gathered, Round
<1>2. <<"users", Round>> # <<"projects", Round>>
  OBVIOUS
<1>3. /\ <<"users", Round>> \in DOMAIN kv[Server]
      /\ DOMAIN kv'[Server] = DOMAIN kv[Server] \union {<<"projects", Round>>}
      /\ kv'[Server][<<"users", Round>>] = Dealt
  BY <1>t, <1>1, <1>2, PutServer DEF ServerInv, Dealt, Round
<1>4. InStage /\ InStage' /\ Round' = Round /\ Dealt' = Dealt
  BY <1>1, <1>3 DEF InStage, Round, Dealt
<1>5. DealtChunks' = DealtChunks
  BY <1>4 DEF DealtChunks
<1>6. ServerInv'
  BY <1>t, <1>1, <1>3, <1>4, <1>5 DEF ServerInv
<1>7. \A m : Given(m)' = Given(m) /\ (Told(m)' <=> Told(m))
  BY <1>1 DEF Given, Told
<1>8. DeltasOfStage'
  BY <1>t, <1>1, <1>4 DEF DeltasOfStage, Pending
<1>9. Merged' + Len(inbox'[Server]) <= Merged + Len(inbox[Server])
  <2>1. Merged' = NumNodes - 1 /\ Merged = received[Server] /\ NumNodes \in Nat
    BY <1>1, ServerAndClients DEF Merged
  <2>2. Merged \in Nat /\ Len(inbox[Server]) \in Nat
    BY <1>t, MergedTyped
  <2> QED
    BY <1>1, <2>1, <2>2
<1> QED
  BY <1>1, <1>3, <1>4, <1>6, <1>7, <1>8, <1>9, ServerKept

(* When node 0 has merged two deltas per client, every client has sent both *)
(* of its own, and nothing is under way.                                    *)
LEMMA AllMerged ==
    ASSUME LinusInv, pc[Server] = "users", Gathered
    PROVE  /\ inbox[Server] = << >>
           /\ \A m \in Client : stage[m] = Round + 1
<1>t. TypeOK /\ DeltasCounted /\ InStage /\ Server \in Node /\ NumNodes \in Nat \ {0}
  BY ServerAndClients DEF LinusInv, InStage
<1> DEFINE b == Cardinality(SentBoth)
           o == Cardinality(SentOne)
           len == Len(inbox[Server])
<1>1. /\ b \in Nat /\ o \in Nat /\ IsFiniteSet(Client)
      /\ b <= NumNodes - 1 /\ o <= NumNodes - 1
  BY ClientsCounted, ClientsFinite DEF SentBoth, SentOne
<1>2. /\ received[Server] \in Nat /\ received[Server] >= NumNodes - 1
      /\ len \in Nat
      /\ NumNodes - 1 + received[Server] + len <= b + o
  BY <1>t DEF TypeOK, Gathered, DeltasCounted, Merged
<1> HIDE DEF b, o, len
<1>3. len = 0 /\ b = NumNodes - 1
  BY <1>1, <1>2, <1>t
<1>4. inbox[Server] = << >>
  BY <1>t, <1>3 DEF TypeOK, len
<1>5. SentBoth = Client
  <2>1. \A x \in Client : x \notin SentBoth => b + 1 <= NumNodes - 1
    BY ClientsCounted, ClientsFinite DEF SentBoth, b
  <2>2. \A x \in Client : x \in SentBoth
    BY <1>1, <1>3, <2>1
  <2> QED
    BY <2>2 DEF SentBoth
<1> QED
  BY <1>4, <1>5 DEF SentBoth

LEMMA PublishUsersKept ==
    ASSUME LinusInv, TypeOK', PublishUsers
    PROVE  LinusInv'
<1>t. /\ TypeOK /\ ServerInv
      /\ \A m \in Node : EndedIsClosed(m) /\ LeavesLast(m) /\ Role(m)
      /\ \A m \in Client : ClientInv(m)
      /\ Server \in Node /\ Client \subseteq Node /\ Server \notin Client
      /\ \A m \in Node : m # Server => m \in Client
      /\ NumNodes \in Nat \ {0}
  BY ServerAndClients DEF LinusInv
<1>1. /\ pc[Server] = "users" /\ Gathered
      /\ pc'[Server] = After(Server, Round + 1 = DEGREES)
      /\ stage'[Server] = Round + 1
      /\ \A m \in Client : pc'[m] = pc[m] /\ stage'[m] = stage[m]
      /\ next' = 1
      /\ inbox' = inbox /\ listening' = listening /\ received' = received
      /\ quota' = quota /\ round2' = round2
      /\ Put(Server, <<"users", Round + 1>>, newUsers[Server])
  BY <1>t DEF PublishUsers, EndStage, TypeOK, Goto, netVars, Round
<1>2. /\ inbox[Server] = << >>
      /\ \A m \in Client : stage[m] = Round + 1
  BY <1>1, AllMerged
<1>3. Round' = Round + 1 /\ Round \in Nat /\ Round < DEGREES /\ DEGREES \in Nat
  BY <1>1, <1>t, LinusAssumption DEF Round, TypeOK, LeavesLast
<1>4. pc'[Server] = IF Round' = DEGREES THEN "leave" ELSE "counts"
  BY <1>1, <1>3 DEF After
<1>5. EndedIsClosed(Server)' /\ LeavesLast(Server)' /\ Role(Server)'
  BY <1>1, <1>3, <1>4 DEF EndedIsClosed, LeavesLast, Role
<1>6. \A m \in Client : EndedIsClosed(m)' /\ LeavesLast(m)' /\ Role(m)'
  BY <1>1, <1>t DEF EndedIsClosed, LeavesLast, Role
<1>7. ASSUME NEW m \in Client
      PROVE  ClientInv(m)'
  <2>1. stage[m] = Round + 1 /\ stage[m] # Round
    BY <1>2, <1>3
  <2>2. /\ pc[m] \in {"quota", "leave", "done", "failed"}
        /\ inbox[m] = << >>
    BY <1>t, <2>1 DEF ClientInv, Ahead, Waits, Sends
  <2>3. InStage' => ~Told(m)'
    <3>1. ~(m < 1)
      BY ServerAndClients
    <3> QED
      BY <1>1, <1>4, <3>1 DEF InStage, Told
  <2>4. Waits(m)'
    BY <1>1, <2>2, <2>3 DEF Waits
  <2>5. Takes(m)' /\ Sends(m)'
    BY <1>1, <2>2 DEF Takes, Sends
  <2>6. Ahead(m)'
    <3>1. stage'[m] = stage'[Server] /\ stage'[Server] \in Nat
      BY <1>1, <1>3, <2>1 DEF Round
    <3> QED
      BY <3>1 DEF Ahead, Round
  <2> QED
    BY <2>4, <2>5, <2>6 DEF ClientInv
<1>8. ServerInv'
  <2>1. /\ <<"users", stage'[Server]>> \in DOMAIN kv'[Server]
        /\ kv'[Server][<<"users", stage'[Server]>>] = newUsers[Server]
    BY <1>1, <1>t, PutServer
  <2>2. IsFiniteSet(newUsers[Server])
    <3>1. newUsers[Server] \subseteq UserIds
      BY <1>t DEF TypeOK
    <3>2. IsFiniteSet(UserIds)
      BY FS_Interval, LinusAssumption DEF UserIds
    <3> QED
      BY <3>1, <3>2, FS_Subset
  <2>3. IsFiniteSet(Dealt)'
    BY <2>1, <2>2 DEF Dealt
  <2>4. next' \in 1 .. NumNodes
    BY <1>1, <1>t
  <2> QED
    BY <1>1, <1>4, <2>1, <2>3, <2>4 DEF ServerInv, Round
<1>9. DeltasCounted'
  <2>1. InStage' => pc'[Server] = "counts"
    BY <1>4 DEF InStage
  <2>2. InStage' => Merged' = 0
    BY <2>1 DEF Merged
  <2>3. Len(inbox'[Server]) = 0
    BY <1>1, <1>2
  <2>4. Cardinality(SentBoth') \in Nat /\ Cardinality(SentOne') \in Nat
    BY ClientsCounted DEF SentBoth, SentOne
  <2>5. InStage' => Merged' + Len(inbox'[Server]) = 0
    BY <2>2, <2>3
  <2>6. 0 <= Cardinality(SentBoth') + Cardinality(SentOne')
    BY <2>4
  <2> QED
    BY <2>5, <2>6 DEF DeltasCounted
<1>10. DeltasOfStage'
  BY <1>1, <1>2 DEF DeltasOfStage, Pending
<1> QED
  BY <1>t, <1>5, <1>6, <1>7, <1>8, <1>9, <1>10 DEF LinusInv

(* merge on a client.                                                       *)
LEMMA ClientSendsKept ==
    ASSUME LinusInv, TypeOK', NEW n \in Client,
           pc[n] \in {"projects", "users"},
           \A m \in Node : m # n =>
              /\ pc'[m] = pc[m] /\ stage'[m] = stage[m]
              /\ quota'[m] = quota[m] /\ received'[m] = received[m],
           NEW of, NEW ids, Send(n, Server, DeltaMsg(n, of, ids)),
           next' = next, round2' = round2, kv'[Server] = kv[Server],
           \/ pc[n] = "projects" /\ pc'[n] = "users" /\ stage'[n] = stage[n]
           \/ /\ pc[n] = "users" /\ stage'[n] = stage[n] + 1
              /\ pc'[n] = After(n, stage[n] + 1 = DEGREES)
    PROVE  LinusInv'
<1>t. /\ TypeOK /\ DeltasCounted /\ DeltasOfStage
      /\ \A m \in Node : EndedIsClosed(m) /\ LeavesLast(m) /\ Role(m)
      /\ ClientInv(n)
  BY DEF LinusInv
<1>s. /\ Server \in Node /\ Client \subseteq Node /\ Server # n /\ n \in Node
      /\ Server \notin Client
  BY ServerAndClients
<1>1. /\ Len(inbox[Server]) \in Nat
      /\ Len(inbox'[Server]) = Len(inbox[Server]) + 1
      /\ \A i \in 1 .. Len(inbox[Server]) : inbox'[Server][i] = inbox[Server][i]
      /\ inbox'[Server][Len(inbox[Server]) + 1] = DeltaMsg(n, of, ids)
      /\ \A m \in Node : m # Server => inbox'[m] = inbox[m]
      /\ listening[Server] /\ listening' = listening
  BY <1>t, <1>s, SendAppends
<1>2. /\ Round' = Round
      /\ InStage' <=> InStage
      /\ \A m : /\ Told(m)' <=> Told(m)
                /\ Due(m)' = Due(m)
                /\ Given(m)' = Given(m)
      /\ ServerInv'
      /\ \A m \in Client : m # n => ClientInv(m)'
      /\ \A m \in Node : m # n => EndedIsClosed(m)' /\ LeavesLast(m)' /\ Role(m)'
      /\ Merged' = Merged
  BY <1>s, <1>1, OthersStay
<1>3. /\ inbox[n] = << >> /\ stage[n] = Round /\ stage[n] < DEGREES
      /\ InStage => Told(n) /\ Given(n) = Due(n)
  BY <1>t, <1>s DEF ClientInv, Sends, LeavesLast
<1>4. Round \in Nat /\ Round < DEGREES /\ DEGREES \in Nat /\ stage[n] \in Nat
  BY <1>3, <1>t, <1>s, LinusAssumption DEF TypeOK, Round
<1>5. InStage
  <2>1. pc[Server] \in Labels
    BY <1>t, <1>s DEF TypeOK
  <2> QED
    BY <1>t, <1>s, <1>1, <1>4, <2>1
       DEF EndedIsClosed, LeavesLast, Role, Labels, InStage, Round
<1>6. pc'[n] \in {"users", "quota", "leave"}
  BY <1>s DEF After
<1>7. EndedIsClosed(n)' /\ Role(n)'
  BY <1>s, <1>6 DEF EndedIsClosed, Role
<1>8. LeavesLast(n)'
  BY <1>3, <1>4, <1>s DEF LeavesLast, After
<1>9. ClientInv(n)'
  <2>1. CASE pc[n] = "projects" /\ pc'[n] = "users" /\ stage'[n] = stage[n]
    <3>1. stage'[n] = Round' /\ Round' \in Nat
      BY <1>2, <1>3, <1>4, <2>1
    <3>2. Ahead(n)'
      BY <3>1 DEF Ahead
    <3>3. Sends(n)'
      BY <1>1, <1>2, <1>3, <1>s, <3>1 DEF Sends
    <3> QED
      BY <2>1, <3>2, <3>3 DEF ClientInv, Waits, Takes
  <2>2. CASE /\ pc[n] = "users" /\ stage'[n] = stage[n] + 1
             /\ pc'[n] = After(n, stage[n] + 1 = DEGREES)
    <3>1. stage'[n] = Round' + 1 /\ stage'[n] # Round'
      BY <1>2, <1>3, <1>4, <2>2
    <3>2. pc'[n] \in {"quota", "leave"} /\ inbox'[n] = << >>
      BY <1>1, <1>3, <1>s, <2>2 DEF After
    <3>3. Ahead(n)'
      BY <1>2, <1>3, <3>1, <3>2 DEF Ahead
    <3>4. Waits(n)'
      BY <3>1, <3>2 DEF Waits
    <3> QED
      BY <3>2, <3>3, <3>4 DEF ClientInv, Takes, Sends
  <2> QED
    BY <2>1, <2>2
<1>10. DeltasCounted'
  <2>1. SentBoth \subseteq SentBoth'
    BY <1>2, <1>3, <1>4, <1>s DEF SentBoth
  <2>2. SentOne \subseteq SentOne'
    <3>1. ASSUME NEW m \in SentOne PROVE m \in SentOne'
      <4>1. CASE m # n
        BY <1>2, <1>s, <4>1 DEF SentOne
      <4>2. CASE m = n
        BY <1>2, <1>3, <1>4, <4>2 DEF SentOne
      <4> QED
        BY <4>1, <4>2
    <3> QED
      BY <3>1
  <2>3. SentBoth # SentBoth' \/ SentOne # SentOne'
    <3>1. CASE pc[n] = "projects" /\ pc'[n] = "users" /\ stage'[n] = stage[n]
      <4>1. n \notin SentOne
        BY <1>3, <1>4, <3>1 DEF SentOne
      <4>2. n \in SentOne'
        BY <3>1 DEF SentOne
      <4> QED
        BY <4>1, <4>2
    <3>2. CASE stage'[n] = stage[n] + 1
      <4>1. n \notin SentBoth
        BY <1>3, <1>4 DEF SentBoth
      <4>2. n \in SentBoth'
        BY <1>2, <1>3, <3>2 DEF SentBoth
      <4> QED
        BY <4>1, <4>2
    <3> QED
      BY <3>1, <3>2
  <2> QED
    BY <1>t, <1>1, <1>2, <2>1, <2>2, <2>3, DeltaAdded
<1>11. DeltasOfStage'
  <2>1. ASSUME NEW i \in 1 .. Len(inbox'[Server])
        PROVE  inbox'[Server][i].kind = "delta" /\ inbox'[Server][i].stage = Round
    <3>1. CASE i = Len(inbox[Server]) + 1
      BY <1>1, <1>3, <3>1 DEF DeltaMsg
    <3>2. CASE i # Len(inbox[Server]) + 1
      <4>1. i \in 1 .. Len(inbox[Server])
        BY <1>1, <2>1, <3>2
      <4> QED
        BY <1>t, <1>1, <4>1 DEF DeltasOfStage, Pending
    <3> QED
      BY <3>1, <3>2
  <2> QED
    BY <1>2, <1>5, <2>1 DEF DeltasOfStage, Pending
<1> QED
  BY <1>2, <1>7, <1>8, <1>9, <1>10, <1>11 DEF LinusInv

LEMMA ClientMergesKept ==
    ASSUME LinusInv, TypeOK', NEW n \in Client, SendProjects(n) \/ SendUsers(n)
    PROVE  LinusInv'
<1>t. /\ TypeOK /\ n \in Node /\ n # Server /\ Server \in Node
  BY ServerAndClients DEF LinusInv
<1>f. CASE Fail(n)
  BY <1>t, <1>f, EndKept DEF Fail
<1>1. ASSUME pc[n] = "projects",
             NEW ids, Send(n, Server, DeltaMsg(n, "projects", ids)),
             Put(n, <<"projects", stage[n]>>, newProjects[n]),
             TagUsers(n, newProjects[n]),
             UNCHANGED <<commits, stage, dealVars, newProjects>>
      PROVE  LinusInv'
  <2>1. /\ \A m \in Node : m # n => pc'[m] = pc[m] /\ received'[m] = received[m]
        /\ pc'[n] = "users"
        /\ stage' = stage /\ quota' = quota /\ next' = next /\ round2' = round2
        /\ kv'[Server] = kv[Server]
    BY <1>t, <1>1 DEF TagUsers, Goto, Put, TypeOK, dealVars
  <2> QED
    BY <1>1, <2>1, ClientSendsKept
<1>2. ASSUME pc[n] = "users",
             NEW ids, Send(n, Server, DeltaMsg(n, "users", ids)),
             Put(n, <<"users", stage[n] + 1>>, newUsers[n]),
             EndStage(n),
             UNCHANGED <<commits, received, dealVars, pSet, newProjects, newUsers>>
      PROVE  LinusInv'
  <2>1. /\ \A m \in Node : m # n => pc'[m] = pc[m] /\ stage'[m] = stage[m]
        /\ pc'[n] = After(n, stage[n] + 1 = DEGREES)
        /\ stage'[n] = stage[n] + 1
        /\ received' = received /\ quota' = quota /\ next' = next /\ round2' = round2
        /\ kv'[Server] = kv[Server]
    BY <1>t, <1>2 DEF EndStage, Goto, Put, TypeOK, dealVars
  <2> QED
    BY <1>2, <2>1, ClientSendsKept
<1> QED
  BY <1>f, <1>1, <1>2 DEF SendProjects, SendUsers

---------------------------------------------------------------------------
(* LinusInv is an inductive invariant.                                      *)
LEMMA InitLinus ==
    ASSUME Init
    PROVE  LinusInv
<1>s. /\ Server \in Node /\ Client \subseteq Node /\ Server \notin Client
      /\ \A n \in Client : n \in 1 .. NumNodes - 1
      /\ NumNodes \in Nat \ {0} /\ DEGREES \in Nat
  BY ServerAndClients, LinusAssumption
<1>1. /\ \A n \in Node : /\ inbox[n] = << >> /\ stage[n] = 0
                         /\ pc[n] \in {"leave", "counts", "quota"}
                         /\ pc[n] = "leave" <=> DEGREES = 0
                         /\ n = Server => pc[n] # "quota"
                         /\ n # Server => pc[n] # "counts"
      /\ next = 1
      /\ kv[Server] = [k \in {<<"users", 0>>} |-> {LINUS}]
  BY <1>s DEF Init
<1>2. Round = 0 /\ <<"users", Round>> \in DOMAIN kv[Server] /\ Dealt = {LINUS}
  BY <1>1, <1>s DEF Round, Dealt
<1>3. TypeOK
  <2>1. DOMAIN kv = Node
    BY DEF Init
  <2>2. ASSUME NEW n \in Node
        PROVE  /\ DOMAIN kv[n] \subseteq Key
               /\ \A k \in DOMAIN kv[n] : kv[n][k] \in Ids
    <3>1. CASE n = Server
      BY <1>1, <3>1, LinusAssumption DEF Key, Ids
    <3>2. CASE n # Server
      <4>1. kv[n] = << >>
        BY <3>2 DEF Init
      <4>2. DOMAIN kv[n] = {}
        BY <4>1
      <4> QED
        BY <4>2
    <3> QED
      BY <3>1, <3>2
  <2>3. listening \in [Node -> BOOLEAN] /\ commits \in CommitSets
    BY LinusAssumption DEF Init
  <2>4. pc \in [Node -> Labels]
    BY DEF Init, Labels
  <2>5. stage \in [Node -> 0 .. DEGREES]
    BY <1>s DEF Init
  <2>6. next \in Nat /\ round2 \in Node
    BY <1>s DEF Init
  <2>7. /\ inbox \in [Node -> Seq(Message)] /\ fds \in [Node -> Nat]
        /\ quota \in [Node -> Nat] /\ received \in [Node -> Nat]
    BY DEF Init
  <2>8. /\ chunkSoFar \in [Node -> Ids]
        /\ pSet \in [Node -> SUBSET ProjectIds] /\ uSet \in [Node -> SUBSET UserIds]
        /\ newProjects \in [Node -> SUBSET ProjectIds]
        /\ newUsers \in [Node -> SUBSET UserIds]
    BY DEF Init, Ids
  <2> QED
    BY <2>1, <2>2, <2>3, <2>4, <2>5, <2>6, <2>7, <2>8 DEF TypeOK
<1>4. \A n \in Node : EndedIsClosed(n) /\ LeavesLast(n) /\ Role(n)
  BY <1>s, <1>1 DEF EndedIsClosed, LeavesLast, Role
<1>5. ASSUME NEW n \in Client
      PROVE  ClientInv(n)
  <2>1. InStage => ~Told(n)
    BY <1>s, <1>1 DEF InStage, Told
  <2> QED
    BY <1>s, <1>1, <1>2, <2>1 DEF ClientInv, Waits, Takes, Sends, Ahead
<1>6. ServerInv
  <2>1. IsFiniteSet(Dealt)
    BY <1>2, FS_Singleton
  <2>2. pc[Server] \in {"leave", "counts"} /\ next \in 1 .. NumNodes
    BY <1>1, <1>s
  <2> QED
    BY <1>2, <2>1, <2>2 DEF ServerInv
<1>7. DeltasCounted
  <2>1. InStage => Merged = 0
    BY <1>s, <1>1 DEF InStage, Merged
  <2>2. Len(inbox[Server]) = 0
    BY <1>s, <1>1
  <2>3. Cardinality(SentBoth) \in Nat /\ Cardinality(SentOne) \in Nat
    BY ClientsCounted DEF SentBoth, SentOne
  <2>4. InStage => Merged + Len(inbox[Server]) = 0
    BY <2>1, <2>2
  <2>5. 0 <= Cardinality(SentBoth) + Cardinality(SentOne)
    BY <2>3
  <2> QED
    BY <2>4, <2>5 DEF DeltasCounted
<1>8. DeltasOfStage
  BY <1>s, <1>1 DEF DeltasOfStage, Pending
<1> QED
  BY <1>3, <1>4, <1>5, <1>6, <1>7, <1>8 DEF LinusInv

LEMMA UnchangedLinus ==
    ASSUME LinusInv, UNCHANGED vars
    PROVE  LinusInv'
<1>1. /\ inbox' = inbox /\ listening' = listening /\ pc' = pc /\ stage' = stage
      /\ next' = next /\ round2' = round2 /\ kv' = kv
      /\ quota' = quota /\ received' = received
  BY DEF vars, netVars, dealVars
<1>2. /\ TypeOK /\ DeltasCounted
      /\ \A n \in Node : EndedIsClosed(n) /\ LeavesLast(n) /\ Role(n)
      /\ \A n \in Client : ClientInv(n)
      /\ ServerInv /\ DeltasOfStage
  BY DEF LinusInv
<1>3. TypeOK'
  BY NextTyped
<1>4. /\ Round' = Round /\ (InStage' <=> InStage) /\ Dealt' = Dealt
      /\ DealtChunks' = DealtChunks
      /\ \A n : (Told(n)' <=> Told(n)) /\ Due(n)' = Due(n) /\ Given(n)' = Given(n)
  BY <1>1, SameDeal
<1>5. \A n \in Node : EndedIsClosed(n)' /\ LeavesLast(n)' /\ Role(n)'
  BY <1>1, <1>2 DEF EndedIsClosed, LeavesLast, Role
<1>6. \A n \in Client : ClientInv(n)'
  BY <1>1, <1>2, <1>4, ClientStays
<1>7. ServerInv' /\ DeltasOfStage'
  BY <1>1, <1>2, <1>4 DEF ServerInv, DeltasOfStage, Pending
<1>8. Merged' = Merged /\ SentBoth' = SentBoth /\ SentOne' = SentOne
  BY <1>1, <1>4 DEF Merged, SentBoth, SentOne
<1>9. DeltasCounted'
  BY <1>1, <1>2, <1>4, <1>8 DEF DeltasCounted
<1> QED
  BY <1>3, <1>5, <1>6, <1>7, <1>9 DEF LinusInv

LEMMA NextKeepsLinus ==
    ASSUME LinusInv, [Next]_vars
    PROVE  LinusInv'
<1>t. TypeOK'
  BY NextTyped
<1>1. CASE UNCHANGED vars
  BY <1>1, UnchangedLinus
<1>2. CASE Finished
  BY <1>1, <1>2 DEF Finished
<1>3. ASSUME NEW n \in Node, Leave(n)
      PROVE  LinusInv'
  BY <1>t, <1>3, EndKept DEF Leave, Fail
<1>4. ASSUME NEW n \in Client, ClientStep(n)
      PROVE  LinusInv'
  BY <1>t, <1>4, TakeKept, ClientMergesKept DEF ClientStep
<1>5. CASE ServerStep
  BY <1>t, <1>5, SendCountKept, CountsSentKept, DealKeepKept, DealSendKept,
     MergeDeltaKept, PublishProjectsKept, PublishUsersKept DEF ServerStep
<1>6. ASSUME NEW n \in Node, TagProjects(n)
      PROVE  LinusInv'
  BY <1>t, <1>6, ServerTagsKept, ClientTagsKept, ServerAndClients
<1> QED
  BY <1>1, <1>2, <1>3, <1>4, <1>5, <1>6 DEF Next, Step

LEMMA LinusInvHolds == Spec => []LinusInv
<1>1. Init => LinusInv
  BY InitLinus
<1>2. LinusInv /\ [Next]_vars => LinusInv'
  BY NextKeepsLinus
<1> QED
  BY <1>1, <1>2, PTL DEF Spec

(* The state of the cluster keeps its shape, whatever the network and the   *)
(* freed memory do (linus.h:run_, step, merge).                             *)
THEOREM TypesKept == Spec => []TypeOK
<1>1. LinusInv => TypeOK
  BY DEF LinusInv
<1> QED
  BY <1>1, LinusInvHolds, PTL

(* Stages do not overlap at node 0: merge never takes a delta of another    *)
(* stage, although it takes what comes (linus.h:merge).                     *)
THEOREM StagesDoNotOverlap == Spec => []ServerInOrder
<1>1. LinusInv => ServerInOrder
  BY DEF LinusInv, ServerInOrder, DeltasOfStage, Round
<1> QED
  BY <1>1, LinusInvHolds, PTL

(* The clients agree with node 0 on what comes next: they never take a      *)
(* number of chunks for a chunk, or a chunk of the next stage for one of    *)
(* this (linus.h:step).                                                     *)
THEOREM ClientsAgree == Spec => []ClientInOrder
<1>1. ASSUME LinusInv
      PROVE  ClientInOrder
  <2>1. SUFFICES ASSUME NEW n \in Client, inbox[n] # << >>
                 PROVE  /\ pc[n] = "quota" => /\ Head(inbox[n]).kind = "count"
                                              /\ stage[n] = stage[Server]
                        /\ pc[n] = "take" => /\ Head(inbox[n]).kind = "chunk"
                                             /\ Len(inbox[n]) <= quota[n] - received[n]
                        /\ pc[n] \in {"quota", "take"}
    BY DEF ClientInOrder
  <2>2. ClientInv(n) /\ inbox[n] \in Seq(Message)
    BY <1>1, ServerAndClients DEF LinusInv, TypeOK
  <2>3. Head(inbox[n]) = inbox[n][1] /\ 1 \in 1 .. Len(inbox[n])
    BY <2>1, <2>2
  <2>4. pc[n] = "quota" => Head(inbox[n]).kind = "count" /\ stage[n] = stage[Server]
    BY <2>1, <2>2, <2>3 DEF ClientInv, Waits, Round
  <2>5. pc[n] = "take" => /\ Head(inbox[n]).kind = "chunk"
                          /\ Len(inbox[n]) <= quota[n] - received[n]
    BY <2>2, <2>3 DEF ClientInv, Takes, ChunksOnly
  <2>6. pc[n] \in {"quota", "take"}
    BY <2>1, <2>2 DEF ClientInv, Sends
  <2> QED
    BY <2>4, <2>5, <2>6
<1> QED
  BY <1>1, LinusInvHolds, PTL

---------------------------------------------------------------------------
(* What the chunks dealt so far hold: a node has, in its frame or on the    *)
(* way, users of the chunks of its turns, and none of them twice.           *)
DealtBefore(n, k) == UNION {DealtChunk(j) : j \in {i \in 0 .. k - 1 : i % NumNodes = n}}
OnTheWay(n, i) == Carries(n, i, "chunk")

HeldInTurn(n) ==
    /\ chunkSoFar[n] \subseteq DealtBefore(n, next)
    /\ \A i \in Pending(n) : /\ OnTheWay(n, i) \subseteq DealtBefore(n, next)
                             /\ OnTheWay(n, i) \intersect chunkSoFar[n] = {}
    /\ \A i, k \in Pending(n) : i # k => OnTheWay(n, i) \intersect OnTheWay(n, k) = {}

(* Nothing is left of a stage when the next is dealt.                       *)
ClientCleared ==
    \A n \in Client :
        pc[n] \notin {"take", "failed"} \/ stage[n] = Round + 1 => chunkSoFar[n] = {}
ServerCleared == pc[Server] \notin {"deal", "failed"} => chunkSoFar[Server] = {}
NothingDealt ==
    pc[Server] = "counts" =>
        \A n \in Client : /\ chunkSoFar[n] = {}
                          /\ \A i \in Pending(n) : OnTheWay(n, i) = {}

DealInv ==
    /\ \A n \in Node : HeldInTurn(n)
    /\ ClientCleared
    /\ ServerCleared
    /\ NothingDealt

(* Two chunks of a frame have no row in common.                             *)
LEMMA ChunksApart ==
    ASSUME ServerInv, NEW j \in Nat, NEW k \in Nat, j < k
    PROVE  DealtChunk(j) \intersect DealtChunk(k) = {}
<1> SUFFICES ASSUME NEW id \in DealtChunk(j), id \in DealtChunk(k)
             PROVE  FALSE
  OBVIOUS
<1> DEFINE row == RowOf(id, Dealt)
<1>1. RowsPerChunk \in Nat \ {0}
  BY ChunksAssumption
<1>2. row \in Chunk(j, 0 .. Cardinality(Dealt) - 1)
      /\ row \in Chunk(k, 0 .. Cardinality(Dealt) - 1)
  BY DEF DealtChunk, InRows
<1>3. Cardinality(Dealt) \in Nat
  BY FS_CardinalityType DEF ServerInv
<1> HIDE DEF row
<1>4. row \in Nat /\ row < (j + 1) * RowsPerChunk /\ k * RowsPerChunk <= row
  BY <1>2, <1>3 DEF Chunk
<1>5. (j + 1) * RowsPerChunk <= k * RowsPerChunk
  BY <1>1, Times
<1>6. (j + 1) * RowsPerChunk \in Nat /\ k * RowsPerChunk \in Nat
  BY <1>1
<1> QED
  BY <1>4, <1>5, <1>6

LEMMA ChunkIsFresh ==
    ASSUME ServerInv, NEW n, NEW k \in Nat
    PROVE  DealtChunk(k) \intersect DealtBefore(n, k) = {}
<1> SUFFICES ASSUME NEW id \in DealtChunk(k), id \in DealtBefore(n, k)
             PROVE  FALSE
  OBVIOUS
<1>1. PICK j \in 0 .. k - 1 : id \in DealtChunk(j)
  BY DEF DealtBefore
<1> QED
  BY <1>1, ChunksApart

LEMMA DealtGrows ==
    ASSUME NEW n, NEW k \in Nat
    PROVE  /\ DealtBefore(n, k) \subseteq DealtBefore(n, k + 1)
           /\ k % NumNodes = n => DealtChunk(k) \subseteq DealtBefore(n, k + 1)
<1>1. (0 .. (k + 1) - 1) = (0 .. k - 1) \union {k}
  OBVIOUS
<1> QED
  BY <1>1 DEF DealtBefore

(* What different nodes hold comes from different chunks.                   *)
LEMMA TurnsApart ==
    ASSUME ServerInv, NEW m, NEW n, m # n, NEW k \in Nat
    PROVE  DealtBefore(m, k) \intersect DealtBefore(n, k) = {}
<1> SUFFICES ASSUME NEW id \in DealtBefore(m, k), id \in DealtBefore(n, k)
             PROVE  FALSE
  OBVIOUS
<1>1. PICK i \in 0 .. k - 1 : i % NumNodes = m /\ id \in DealtChunk(i)
  BY DEF DealtBefore
<1>2. PICK j \in 0 .. k - 1 : j % NumNodes = n /\ id \in DealtChunk(j)
  BY DEF DealtBefore
<1>3. i # j /\ i \in Nat /\ j \in Nat
  BY <1>1, <1>2
<1>4. i < j \/ j < i
  BY <1>3
<1> QED
  BY <1>1, <1>2, <1>3, <1>4, ChunksApart

LEMMA DealtStays ==
    ASSUME Dealt' = Dealt
    PROVE  /\ \A j : DealtChunk(j)' = DealtChunk(j)
           /\ \A n, k : DealtBefore(n, k)' = DealtBefore(n, k)
BY DEF DealtBefore, DealtChunk

(* Messages with chunks are taken in turn and no others are sent: those in  *)
(* the mailbox of m were there before, d places further on.                 *)
MailMoves(m, d) ==
    \A i \in 1 .. Len(inbox'[m]) :
        \/ OnTheWay(m, i)' = {}
        \/ i + d \in Pending(m) /\ OnTheWay(m, i)' = OnTheWay(m, i + d)

LEMMA MailAsBefore ==
    ASSUME NEW m, inbox'[m] = inbox[m], Len(inbox[m]) \in Nat
    PROVE  MailMoves(m, 0)
BY DEF MailMoves, OnTheWay, Carries, Pending

LEMMA MailAppended ==
    ASSUME TypeOK, NEW n \in Node, NEW to \in Node, NEW msg, msg.kind # "chunk",
           Send(n, to, msg), NEW m \in Node
    PROVE  MailMoves(m, 0)
<1>1. /\ Len(inbox[to]) \in Nat
      /\ Len(inbox'[to]) = Len(inbox[to]) + 1
      /\ \A i \in 1 .. Len(inbox[to]) : inbox'[to][i] = inbox[to][i]
      /\ inbox'[to][Len(inbox[to]) + 1] = msg
      /\ \A k \in Node : k # to => inbox'[k] = inbox[k]
  BY SendAppends
<1>2. Len(inbox[m]) \in Nat
  BY DEF TypeOK
<1>3. CASE m # to
  BY <1>1, <1>2, <1>3, MailAsBefore
<1>4. CASE m = to
  <2>1. ASSUME NEW i \in 1 .. Len(inbox'[to])
        PROVE  \/ OnTheWay(to, i)' = {}
               \/ i + 0 \in Pending(to) /\ OnTheWay(to, i)' = OnTheWay(to, i + 0)
    <3>1. CASE i = Len(inbox[to]) + 1
      BY <1>1, <3>1 DEF OnTheWay, Carries
    <3>2. CASE i # Len(inbox[to]) + 1
      <4>1. i \in 1 .. Len(inbox[to]) /\ i + 0 = i
        BY <1>1, <2>1, <3>2
      <4>2. inbox'[to][i] = inbox[to][i]
        BY <1>1, <4>1
      <4>3. OnTheWay(to, i)' = OnTheWay(to, i)
        BY <4>2 DEF OnTheWay, Carries
      <4> QED
        BY <4>1, <4>3 DEF Pending
    <3> QED
      BY <3>1, <3>2
  <2> QED
    BY <1>4, <2>1 DEF MailMoves
<1> QED
  BY <1>3, <1>4

LEMMA MailTaken ==
    ASSUME TypeOK, NEW n \in Node, Receive(n)
    PROVE  /\ MailMoves(n, 1)
           /\ \A m \in Node : m # n => MailMoves(m, 0)
<1>1. /\ Len(inbox[n]) \in Nat \ {0}
      /\ Len(inbox'[n]) = Len(inbox[n]) - 1
      /\ \A i \in 1 .. Len(inbox'[n]) : inbox'[n][i] = inbox[n][i + 1]
      /\ \A m \in Node : m # n => inbox'[m] = inbox[m]
  BY ReceiveTakes
<1>2. \A m \in Node : Len(inbox[m]) \in Nat
  BY DEF TypeOK
<1>3. MailMoves(n, 1)
  <2>1. ASSUME NEW i \in 1 .. Len(inbox'[n])
        PROVE  i + 1 \in Pending(n) /\ OnTheWay(n, i)' = OnTheWay(n, i + 1)
    BY <1>1, <2>1 DEF Pending, OnTheWay, Carries
  <2> QED
    BY <2>1 DEF MailMoves
<1> QED
  BY <1>1, <1>2, <1>3, MailAsBefore

(* A node keeps no more than it held.                                       *)
LEMMA HeldStays ==
    ASSUME NEW n, HeldInTurn(n), NEW d \in {0, 1}, MailMoves(n, d),
           Dealt' = Dealt, next' = next, chunkSoFar'[n] \subseteq chunkSoFar[n],
           Len(inbox[n]) \in Nat, Len(inbox'[n]) \in Nat
    PROVE  HeldInTurn(n)'
<1>1. DealtBefore(n, next)' = DealtBefore(n, next)
  BY DEF DealtBefore, DealtChunk
<1>2. chunkSoFar'[n] \subseteq DealtBefore(n, next)
  BY DEF HeldInTurn
<1>3. ASSUME NEW i \in 1 .. Len(inbox'[n])
      PROVE  /\ OnTheWay(n, i)' \subseteq DealtBefore(n, next)
             /\ OnTheWay(n, i)' \intersect chunkSoFar'[n] = {}
  BY <1>3 DEF MailMoves, HeldInTurn
<1>4. ASSUME NEW i \in 1 .. Len(inbox'[n]), NEW k \in 1 .. Len(inbox'[n]), i # k
      PROVE  OnTheWay(n, i)' \intersect OnTheWay(n, k)' = {}
  <2>1. i + d # k + d
    BY <1>4
  <2> QED
    BY <1>4, <2>1 DEF MailMoves, HeldInTurn
<1> QED
  BY <1>1, <1>2, <1>3, <1>4 DEF HeldInTurn, Pending

(* A step that deals nothing and takes no chunk.                            *)
LEMMA DealHeld ==
    ASSUME LinusInv, DealInv, TypeOK',
           next' = next, Dealt' = Dealt, Round' = Round,
           \A m \in Node : \E d \in {0, 1} : MailMoves(m, d),
           \A m \in Node : chunkSoFar'[m] = chunkSoFar[m] \/ chunkSoFar'[m] = {},
           \A m \in Client :
              \/ pc'[m] = pc[m] /\ stage'[m] = stage[m]
              \/ chunkSoFar[m] = {} \/ chunkSoFar'[m] = {}
              \/ pc'[m] = "failed" /\ stage'[m] = stage[m],
           \/ pc'[Server] = pc[Server] \/ pc'[Server] = "failed"
           \/ chunkSoFar[Server] = {} \/ chunkSoFar'[Server] = {},
           pc'[Server] = "counts" => pc[Server] = "counts"
    PROVE  DealInv'
<1>s. Server \in Node /\ Client \subseteq Node
  BY ServerAndClients
<1>1. ASSUME NEW m \in Node
      PROVE  HeldInTurn(m)'
  <2>t. TypeOK
    BY DEF LinusInv
  <2>a. Len(inbox[m]) \in Nat
    BY <2>t DEF TypeOK
  <2>b. Len(inbox'[m]) \in Nat
    BY DEF TypeOK
  <2>2. HeldInTurn(m) /\ chunkSoFar'[m] \subseteq chunkSoFar[m]
    BY DEF DealInv
  <2>3. PICK d \in {0, 1} : MailMoves(m, d)
    OBVIOUS
  <2> QED
    BY <2>a, <2>b, <2>2, <2>3, HeldStays
<1>2. ClientCleared'
  <2>1. ASSUME NEW m \in Client,
               pc'[m] \notin {"take", "failed"} \/ stage'[m] = Round + 1
        PROVE  chunkSoFar'[m] = {}
    BY <1>s, <2>1 DEF DealInv, ClientCleared
  <2> QED
    BY <2>1 DEF ClientCleared
<1>3. ServerCleared'
  BY <1>s DEF DealInv, ServerCleared
<1>4. NothingDealt'
  <2>1. ASSUME pc'[Server] = "counts", NEW m \in Client
        PROVE  /\ chunkSoFar'[m] = {}
               /\ \A i \in 1 .. Len(inbox'[m]) : OnTheWay(m, i)' = {}
    <3>1. /\ chunkSoFar[m] = {}
          /\ \A i \in Pending(m) : OnTheWay(m, i) = {}
      BY <2>1 DEF DealInv, NothingDealt
    <3>2. PICK d \in {0, 1} : MailMoves(m, d)
      BY <1>s
    <3> QED
      BY <1>s, <3>1, <3>2 DEF MailMoves
  <2> QED
    BY <2>1 DEF NothingDealt, Pending
<1> QED
  BY <1>1, <1>2, <1>3, <1>4 DEF DealInv

LEMMA MailStays ==
    ASSUME TypeOK, inbox' = inbox
    PROVE  \A m \in Node : \E d \in {0, 1} : MailMoves(m, d)
<1>1. \A m \in Node : Len(inbox[m]) \in Nat /\ inbox'[m] = inbox[m]
  BY DEF TypeOK
<1>2. \A m \in Node : MailMoves(m, 0)
  BY <1>1, MailAsBefore
<1> QED
  BY <1>2

LEMMA EndDeal ==
    ASSUME LinusInv, DealInv, TypeOK', NEW n \in Node, NEW label \in {"done", "failed"},
           label = "done" => pc[n] = "leave", End(n, label)
    PROVE  DealInv'
<1>t. TypeOK /\ Server \in Node /\ Client \subseteq Node
  BY ServerAndClients DEF LinusInv
<1>1. /\ pc'[n] = label /\ inbox'[n] = << >>
      /\ \A m \in Node : m # n => pc'[m] = pc[m] /\ inbox'[m] = inbox[m]
      /\ next' = next /\ kv' = kv /\ stage' = stage /\ chunkSoFar' = chunkSoFar
  BY <1>t DEF End, CloseSocket, Goto, TypeOK, dealVars
<1>2. ASSUME NEW m \in Node PROVE MailMoves(m, 0)
  <2>1. CASE m = n
    BY <1>1, <2>1 DEF MailMoves
  <2>2. CASE m # n
    <3>1. Len(inbox[m]) \in Nat
      BY <1>t DEF TypeOK
    <3> QED
      BY <1>1, <2>2, <3>1, MailAsBefore
  <2> QED
    BY <2>1, <2>2
<1>3. Dealt' = Dealt /\ Round' = Round
  BY <1>1 DEF Dealt, Round
<1>4. label = "done" => chunkSoFar[n] = {}
  <2>1. CASE n = Server
    BY <2>1 DEF DealInv, ServerCleared
  <2>2. CASE n # Server
    BY <2>2, ServerAndClients DEF DealInv, ClientCleared
  <2> QED
    BY <2>1, <2>2
<1>5. label = "failed" \/ label = "done"
  OBVIOUS
<1>6. \A m \in Node : \E d \in {0, 1} : MailMoves(m, d)
  BY <1>2
<1>7. pc'[Server] = "counts" => pc[Server] = "counts"
  BY <1>1, <1>5, <1>t
<1>8. \/ pc'[Server] = pc[Server] \/ pc'[Server] = "failed"
      \/ chunkSoFar[Server] = {} \/ chunkSoFar'[Server] = {}
  BY <1>1, <1>4, <1>5, <1>t
<1>9. \A m \in Client :
              \/ pc'[m] = pc[m] /\ stage'[m] = stage[m]
              \/ chunkSoFar[m] = {} \/ chunkSoFar'[m] = {}
              \/ pc'[m] = "failed" /\ stage'[m] = stage[m]
  BY <1>1, <1>4, <1>5, <1>t
<1>10. \A m \in Node : chunkSoFar'[m] = chunkSoFar[m] \/ chunkSoFar'[m] = {}
  BY <1>1
<1> QED
  BY <1>1, <1>3, <1>6, <1>7, <1>8, <1>9, <1>10, DealHeld

LEMMA ClientDeal ==
    ASSUME LinusInv, DealInv, TypeOK', NEW n \in Client,
           TakeQuota(n) \/ SendProjects(n) \/ SendUsers(n)
    PROVE  DealInv'
<1>t. TypeOK /\ Server \in Node /\ Client \subseteq Node /\ n # Server /\ n \in Node
  BY ServerAndClients DEF LinusInv
<1>f. CASE Fail(n)
  BY <1>f, <1>t, EndDeal DEF Fail
<1>1. CASE ~Fail(n)
  <2>1. /\ \A m \in Node : m # n => pc'[m] = pc[m] /\ stage'[m] = stage[m]
        /\ kv'[Server] = kv[Server] /\ next' = next /\ chunkSoFar' = chunkSoFar
        /\ pc[n] \in {"quota", "projects", "users"}
    BY <1>t, <1>1 DEF TakeQuota, SendProjects, SendUsers, TagUsers, EndStage, Goto, Put,
                      dealVars, TypeOK
  <2>2. chunkSoFar[n] = {}
    BY <2>1 DEF DealInv, ClientCleared
  <2>3. Dealt' = Dealt /\ Round' = Round
    BY <1>t, <2>1 DEF Dealt, Round
  <2>4. \/ Receive(n)
        \/ \E of, ids : Send(n, Server, DeltaMsg(n, of, ids))
    BY <1>1 DEF TakeQuota, SendProjects, SendUsers
  <2>5. \A of, ids : DeltaMsg(n, of, ids).kind # "chunk"
    BY DEF DeltaMsg
  <2>6. \A m \in Node : \E d \in {0, 1} : MailMoves(m, d)
    <3>1. CASE Receive(n)
      <4>1. MailMoves(n, 1) /\ \A m \in Node : m # n => MailMoves(m, 0)
        BY <1>t, <3>1, MailTaken
      <4> QED
        BY <4>1
    <3>2. ASSUME NEW of, NEW ids, Send(n, Server, DeltaMsg(n, of, ids))
          PROVE  \A m \in Node : MailMoves(m, 0)
      BY <1>t, <2>5, <3>2, MailAppended
    <3> QED
      BY <2>4, <3>1, <3>2
  <2> QED
    BY <1>t, <2>1, <2>2, <2>3, <2>6, DealHeld
<1> QED
  BY <1>f, <1>1

LEMMA TagDeal ==
    ASSUME LinusInv, DealInv, TypeOK', NEW n \in Node, TagProjects(n)
    PROVE  DealInv'
<1>t. TypeOK /\ Server \in Node /\ Client \subseteq Node
  BY ServerAndClients DEF LinusInv
<1>1. /\ \A m \in Node : m # n => pc'[m] = pc[m] /\ chunkSoFar'[m] = chunkSoFar[m]
      /\ pc'[n] = "projects" /\ chunkSoFar'[n] = {}
      /\ stage' = stage /\ kv' = kv /\ next' = next /\ inbox' = inbox
  BY <1>t DEF TagProjects, Goto, netVars, TypeOK
<1>2. Dealt' = Dealt /\ Round' = Round
  BY <1>1 DEF Dealt, Round
<1>3. \A m \in Node : \E d \in {0, 1} : MailMoves(m, d)
  BY <1>t, <1>1, MailStays
<1> QED
  BY <1>t, <1>1, <1>2, <1>3, DealHeld

LEMMA ServerDeal ==
    ASSUME LinusInv, DealInv, TypeOK', SendCount \/ MergeDelta \/ PublishProjects
    PROVE  DealInv'
<1>t. TypeOK /\ ServerInv /\ Server \in Node /\ Client \subseteq Node /\ Server \notin Client
  BY ServerAndClients DEF LinusInv
<1>f. CASE Fail(Server)
  BY <1>f, <1>t, EndDeal DEF Fail
<1>1. CASE SendCount /\ ~Fail(Server)
  <2>r. PICK t \in Client : t = next
    BY <1>1, ServerAndClients DEF LinusInv, ServerInv, SendCount, Client, Node, Server
  <2>1. /\ Send(Server, t, CountMsg(Share(t, DealtChunks, NumNodes)))
        /\ pc[Server] = "counts" /\ next' = next + 1
        /\ pc' = pc /\ stage' = stage /\ kv' = kv /\ chunkSoFar' = chunkSoFar
    BY <1>1, <2>r DEF SendCount
  <2>2. CountMsg(Share(t, DealtChunks, NumNodes)).kind # "chunk"
    BY DEF CountMsg
  <2>3. \A m \in Node : MailMoves(m, 0)
    BY <1>t, <2>1, <2>2, MailAppended
  <2>4. Dealt' = Dealt /\ Round' = Round
    BY <2>1 DEF Dealt, Round
  <2>5. \A m \in Node : chunkSoFar'[m] = {}
    BY <1>t, <2>1, ServerAndClients DEF DealInv, NothingDealt, ServerCleared
  <2>6. \A m \in Client : \A i \in 1 .. Len(inbox'[m]) : OnTheWay(m, i)' = {}
    BY <1>t, <2>1, <2>3 DEF DealInv, NothingDealt, MailMoves
  <2>7. \A i \in 1 .. Len(inbox'[Server]) : OnTheWay(Server, i)' = {}
    <3>1. inbox'[Server] = inbox[Server]
      BY <1>t, <2>1, SendAppends
    <3> QED
      BY <3>1 DEF LinusInv, DeltasOfStage, OnTheWay, Carries, Pending
  <2>8. \A m \in Node : HeldInTurn(m)'
    BY <1>t, <2>5, <2>6, <2>7, ServerAndClients DEF HeldInTurn, Pending
  <2> QED
    BY <1>t, <2>5, <2>6, <2>8 DEF DealInv, ClientCleared, ServerCleared, NothingDealt, Pending
<1>2. CASE MergeDelta /\ ~Fail(Server)
  <2>1. /\ Receive(Server)
        /\ pc' = pc /\ stage' = stage /\ kv' = kv /\ chunkSoFar' = chunkSoFar
        /\ next' = next
    BY <1>2 DEF MergeDelta, dealVars
  <2>2. Dealt' = Dealt /\ Round' = Round
    BY <2>1 DEF Dealt, Round
  <2>3. MailMoves(Server, 1) /\ \A m \in Node : m # Server => MailMoves(m, 0)
    BY <1>t, <2>1, MailTaken
  <2>4. \A m \in Node : \E d \in {0, 1} : MailMoves(m, d)
    BY <2>3
  <2> QED
    BY <1>t, <2>1, <2>2, <2>4, DealHeld
<1>3. CASE PublishProjects
  <2>1. /\ pc[Server] = "projects" /\ pc'[Server] = "users"
        /\ \A m \in Client : pc'[m] = pc[m]
        /\ inbox' = inbox /\ stage' = stage /\ next' = next /\ chunkSoFar' = chunkSoFar
        /\ Put(Server, <<"projects", Round>>, newProjects[Server])
    BY <1>t, <1>3 DEF PublishProjects, TagUsers, TypeOK, Goto, netVars, dealVars, Round
  <2>2. Dealt' = Dealt /\ Round' = Round
    <3>1. <<"users", Round>> # <<"projects", Round>>
      OBVIOUS
    <3> QED
      BY <1>t, <2>1, <3>1, PutServer DEF ServerInv, Dealt, Round
  <2>3. \A m \in Node : \E d \in {0, 1} : MailMoves(m, d)
    BY <1>t, <2>1, MailStays
  <2>4. chunkSoFar[Server] = {}
    BY <2>1 DEF DealInv, ServerCleared
  <2> QED
    BY <1>t, <2>1, <2>2, <2>3, <2>4, DealHeld
<1> QED
  BY <1>f, <1>1, <1>2, <1>3

(* A frame without chunks, or with nothing on the way.                      *)
LEMMA NothingHeld ==
    ASSUME NEW n, chunkSoFar[n] = {}, \A i \in Pending(n) : OnTheWay(n, i) = {}
    PROVE  HeldInTurn(n)
BY DEF HeldInTurn

LEMMA RoundDeal ==
    ASSUME LinusInv, DealInv, TypeOK', CountsSent \/ PublishUsers
    PROVE  DealInv'
<1>t. /\ TypeOK /\ Server \in Node /\ Client \subseteq Node /\ Server \notin Client
      /\ \A m \in Node : m # Server => m \in Client
      /\ DeltasOfStage /\ \A m \in Client : ClientInv(m)
  BY ServerAndClients DEF LinusInv
<1>1. /\ inbox' = inbox /\ chunkSoFar' = chunkSoFar
      /\ \A m \in Client : pc'[m] = pc[m] /\ stage'[m] = stage[m]
  BY <1>t DEF CountsSent, PublishUsers, EndStage, Goto, netVars, TypeOK
<1>2. /\ \A m \in Client : /\ chunkSoFar[m] = {}
                           /\ \A i \in Pending(m) : OnTheWay(m, i) = {}
      /\ chunkSoFar[Server] = {}
  <2>1. CASE CountsSent
    BY <2>1 DEF CountsSent, DealInv, NothingDealt, ServerCleared
  <2>2. CASE PublishUsers
    <3>1. \A m \in Client : stage[m] = Round + 1
      BY <2>2, AllMerged DEF PublishUsers
    <3>2. \A m \in Client : chunkSoFar[m] = {}
      BY <3>1 DEF DealInv, ClientCleared
    <3>3. Round \in Nat
      BY <1>t, LinusAssumption DEF Round, TypeOK
    <3>4. \A m \in Client : inbox[m] = << >>
      BY <1>t, <3>1, <3>3 DEF ClientInv, Waits, Sends, Ahead
    <3>5. \A m \in Client : Pending(m) = {}
      BY <3>4 DEF Pending
    <3>6. chunkSoFar[Server] = {}
      BY <2>2 DEF PublishUsers, DealInv, ServerCleared
    <3> QED
      BY <3>2, <3>5, <3>6
  <2> QED
    BY <2>1, <2>2
<1>3. \A i \in Pending(Server) : OnTheWay(Server, i) = {}
  BY <1>t DEF DeltasOfStage, OnTheWay, Carries, Pending
<1>4. \A m \in Node : /\ chunkSoFar'[m] = {}
                      /\ \A i \in 1 .. Len(inbox'[m]) : OnTheWay(m, i)' = {}
  BY <1>t, <1>1, <1>2, <1>3 DEF OnTheWay, Carries, Pending
<1>5. \A m \in Node : HeldInTurn(m)'
  BY <1>4 DEF HeldInTurn, Pending
<1> QED
  BY <1>t, <1>4, <1>5 DEF DealInv, ClientCleared, ServerCleared, NothingDealt, Pending

LEMMA TakeChunkDeal ==
    ASSUME LinusInv, DealInv, TypeOK', NEW n \in Client, TakeChunk(n)
    PROVE  DealInv'
<1>t. /\ TypeOK /\ Server \in Node /\ Client \subseteq Node /\ n # Server /\ n \in Node
      /\ ClientInv(n) /\ HeldInTurn(n)
  BY ServerAndClients DEF LinusInv, DealInv
<1>f. CASE Fail(n)
  BY <1>f, <1>t, EndDeal DEF Fail
<1>1. CASE /\ pc[n] = "take"
           /\ Receive(n)
           /\ chunkSoFar' = [chunkSoFar EXCEPT ![n] = @ \union Head(inbox[n]).ids]
           /\ received' = [received EXCEPT ![n] = @ + 1]
           /\ UNCHANGED <<commits, pc, stage, next, round2, quota, setVars, kv>>
  <2>1. /\ Len(inbox[n]) \in Nat \ {0}
        /\ Len(inbox'[n]) = Len(inbox[n]) - 1
        /\ \A i \in 1 .. Len(inbox'[n]) : inbox'[n][i] = inbox[n][i + 1]
        /\ Head(inbox[n]) = inbox[n][1]
        /\ \A m \in Node : m # n => inbox'[m] = inbox[m]
    BY <1>t, <1>1, ReceiveTakes
  <2>2. /\ 1 \in Pending(n) /\ inbox[n][1].kind = "chunk"
        /\ stage[n] = Round
    BY <1>t, <1>1, <2>1 DEF ClientInv, Takes, ChunksOnly, Pending
  <2>3. /\ chunkSoFar'[n] = chunkSoFar[n] \union OnTheWay(n, 1)
        /\ \A m \in Node : m # n => chunkSoFar'[m] = chunkSoFar[m]
    BY <1>t, <1>1, <2>1, <2>2 DEF TypeOK, OnTheWay, Carries
  <2>4. Dealt' = Dealt /\ Round' = Round
    BY <1>1 DEF Dealt, Round
  <2>5. HeldInTurn(n)'
    <3>1. DealtBefore(n, next)' = DealtBefore(n, next)
      BY <1>1, <2>4 DEF DealtBefore, DealtChunk
    <3>2. chunkSoFar'[n] \subseteq DealtBefore(n, next)
      BY <1>t, <2>2, <2>3 DEF HeldInTurn
    <3>3. ASSUME NEW i \in 1 .. Len(inbox'[n])
          PROVE  /\ i + 1 \in Pending(n) /\ i + 1 # 1
                 /\ OnTheWay(n, i)' = OnTheWay(n, i + 1)
      BY <2>1, <3>3 DEF Pending, OnTheWay, Carries
    <3>4. ASSUME NEW i \in 1 .. Len(inbox'[n])
          PROVE  /\ OnTheWay(n, i)' \subseteq DealtBefore(n, next)
                 /\ OnTheWay(n, i)' \intersect chunkSoFar'[n] = {}
      BY <1>t, <2>2, <2>3, <3>3 DEF HeldInTurn
    <3>5. ASSUME NEW i \in 1 .. Len(inbox'[n]), NEW k \in 1 .. Len(inbox'[n]), i # k
          PROVE  OnTheWay(n, i)' \intersect OnTheWay(n, k)' = {}
      <4>1. i + 1 # k + 1
        BY <3>5
      <4> QED
        BY <1>t, <3>3, <4>1 DEF HeldInTurn
    <3> QED
      BY <3>1, <3>2, <3>4, <3>5 DEF HeldInTurn, Pending
  <2>6. ASSUME NEW m \in Node, m # n
        PROVE  HeldInTurn(m)'
    <3>1. Len(inbox[m]) \in Nat /\ inbox'[m] = inbox[m] /\ HeldInTurn(m)
      BY <1>t, <2>1, <2>6 DEF TypeOK, DealInv
    <3>2. MailMoves(m, 0)
      BY <3>1, MailAsBefore
    <3> QED
      BY <1>1, <2>3, <2>4, <2>6, <3>1, <3>2, HeldStays
  <2>7. ClientCleared'
    <3>a. Round \in Nat
      BY <1>t, LinusAssumption DEF TypeOK, Round
    <3>1. Round # Round + 1
      BY <3>a
    <3> QED
      BY <1>t, <1>1, <2>2, <2>3, <2>4, <3>1 DEF DealInv, ClientCleared
  <2>8. ServerCleared'
    BY <1>t, <1>1, <2>3 DEF DealInv, ServerCleared
  <2>9. NothingDealt'
    <3>1. ASSUME pc[Server] = "counts", NEW m \in Client
          PROVE  /\ chunkSoFar'[m] = {}
                 /\ \A i \in 1 .. Len(inbox'[m]) : OnTheWay(m, i)' = {}
      <4>1. /\ chunkSoFar[m] = {}
            /\ \A i \in Pending(m) : OnTheWay(m, i) = {}
        BY <3>1 DEF DealInv, NothingDealt
      <4>2. chunkSoFar'[m] = {}
        BY <1>t, <2>2, <2>3, <4>1
      <4>3. \E d \in {0, 1} : MailMoves(m, d)
        BY <1>t, <1>1, MailTaken
      <4> QED
        BY <4>1, <4>2, <4>3 DEF MailMoves
    <3> QED
      BY <1>1, <3>1 DEF NothingDealt, Pending
  <2> QED
    BY <2>5, <2>6, <2>7, <2>8, <2>9 DEF DealInv
<1> QED
  BY <1>f, <1>1 DEF TakeChunk

(* The chunk node 0 is about to send fits in the line buffer.               *)
ChunkFits ==
    pc[Server] = "deal" /\ next < DealtChunks /\ round2 # Server =>
        Cardinality(DealtChunk(next)) <= LineRows

(* Node 0 deals chunk `next`, which nobody holds a user of.                 *)
LEMMA DealStepDeal ==
    ASSUME LinusInv, DealInv, ChunkFits, TypeOK', DealKeep \/ DealSend
    PROVE  DealInv'
<1>r. PICK t \in Node : t = round2
  BY DEF LinusInv, TypeOK
<1>t. /\ TypeOK /\ Server \in Node /\ Client \subseteq Node /\ Server \notin Client
      /\ ServerInv /\ DeltasOfStage /\ pc[Server] = "deal"
      /\ \A m \in Node : HeldInTurn(m)
  BY ServerAndClients DEF LinusInv, DealInv, DealKeep, DealSend
<1>f. CASE Fail(Server)
  BY <1>f, <1>t, EndDeal DEF Fail
<1>1. CASE ~Fail(Server)
  <2>1. /\ pc' = pc /\ stage' = stage /\ kv' = kv /\ next' = next + 1
        /\ \A m \in Client : chunkSoFar'[m] = chunkSoFar[m]
    BY <1>t, <1>1 DEF DealKeep, DealSend, TypeOK
  <2>2. Dealt' = Dealt /\ Round' = Round
    BY <2>1 DEF Dealt, Round
  <2>3. next \in Nat /\ t = next % NumNodes
    BY <1>r, <1>t, DealtChunksTyped DEF ServerInv
  <2>4. /\ \A m : DealtBefore(m, next) \subseteq DealtBefore(m, next + 1)
        /\ DealtChunk(next) \subseteq DealtBefore(t, next + 1)
        /\ DealtChunk(next) \intersect DealtBefore(t, next) = {}
    BY <1>t, <2>3, DealtGrows, ChunkIsFresh
  <2>5. \A m : DealtBefore(m, next)' = DealtBefore(m, next + 1)
    BY <2>1, <2>2 DEF DealtBefore, DealtChunk
  <2>6. ASSUME NEW m \in Node, chunkSoFar'[m] = chunkSoFar[m], inbox'[m] = inbox[m]
        PROVE  HeldInTurn(m)'
    BY <1>t, <2>4, <2>5, <2>6 DEF HeldInTurn, Pending, OnTheWay, Carries
  <2>7. CASE DealKeep
    <3>1. /\ chunkSoFar'[Server] = chunkSoFar[Server] \union DealtChunk(next)
          /\ inbox' = inbox /\ t = Server
      BY <1>r, <1>t, <2>7 DEF DealKeep, netVars, TypeOK
    <3>2. Pending(Server)' = Pending(Server)
      BY <3>1 DEF Pending
    <3>3. \A i \in Pending(Server) : OnTheWay(Server, i)' = {}
      BY <1>t, <3>1 DEF DeltasOfStage, OnTheWay, Carries
    <3>4. HeldInTurn(Server)'
      BY <1>t, <2>4, <2>5, <3>1, <3>2, <3>3 DEF HeldInTurn
    <3>5. \A m \in Node : HeldInTurn(m)'
      BY <2>1, <2>6, <3>1, <3>4, ServerAndClients
    <3> QED
      BY <1>t, <2>1, <2>2, <3>5 DEF DealInv, ClientCleared, ServerCleared, NothingDealt
  <2>8. CASE DealSend
    <3>0. Carried(DealtChunk(next)) = {DealtChunk(next)}
      BY <2>8, AllCarried DEF DealSend, ChunkFits
    <3>1. Send(Server, t, ChunkMsg(DealtChunk(next))) /\ chunkSoFar' = chunkSoFar
          /\ t # Server
      BY <1>r, <1>1, <2>8, <3>0 DEF DealSend
    <3>2. /\ Len(inbox[t]) \in Nat
          /\ Len(inbox'[t]) = Len(inbox[t]) + 1
          /\ \A i \in 1 .. Len(inbox[t]) : inbox'[t][i] = inbox[t][i]
          /\ inbox'[t][Len(inbox[t]) + 1] = ChunkMsg(DealtChunk(next))
          /\ \A m \in Node : m # t => inbox'[m] = inbox[m]
      BY <1>t, <3>1, SendAppends
    <3>3. HeldInTurn(t)'
      <4>l. PICK last \in Nat : last = Len(inbox[t]) + 1
        BY <3>2
      <4>1. OnTheWay(t, last)' = DealtChunk(next)
        BY <3>2, <4>l DEF OnTheWay, Carries, ChunkMsg
      <4>2. \A i \in 1 .. Len(inbox'[t]) :
               i = last \/ (i \in Pending(t) /\ OnTheWay(t, i)' = OnTheWay(t, i))
        <5>1. ASSUME NEW i \in 1 .. Len(inbox'[t]), i # last
              PROVE  i \in Pending(t) /\ OnTheWay(t, i)' = OnTheWay(t, i)
          <6>1. i \in 1 .. Len(inbox[t])
            BY <3>2, <4>l, <5>1
          <6> QED
            BY <3>2, <6>1 DEF Pending, OnTheWay, Carries
        <5> QED
          BY <5>1
      <4>3. chunkSoFar'[t] = chunkSoFar[t]
        BY <3>1
      <4>4. ASSUME NEW i \in 1 .. Len(inbox'[t])
            PROVE  /\ OnTheWay(t, i)' \subseteq DealtBefore(t, next + 1)
                   /\ OnTheWay(t, i)' \intersect chunkSoFar[t] = {}
        BY <1>t, <2>4, <4>1, <4>2, <4>4 DEF HeldInTurn
      <4>5. ASSUME NEW i \in 1 .. Len(inbox'[t]), NEW k \in 1 .. Len(inbox'[t]), i # k
            PROVE  OnTheWay(t, i)' \intersect OnTheWay(t, k)' = {}
        BY <1>t, <2>4, <4>1, <4>2, <4>5 DEF HeldInTurn
      <4>6. chunkSoFar[t] \subseteq DealtBefore(t, next + 1)
        BY <1>t, <2>4 DEF HeldInTurn
      <4> QED
        BY <2>5, <4>3, <4>4, <4>5, <4>6 DEF HeldInTurn, Pending
    <3>4. \A m \in Node : HeldInTurn(m)'
      BY <2>6, <3>1, <3>2, <3>3
    <3> QED
      BY <1>t, <2>1, <2>2, <3>1, <3>4 DEF DealInv, ClientCleared, ServerCleared, NothingDealt
  <2> QED
    BY <2>7, <2>8
<1> QED
  BY <1>f, <1>1

LEMMA InitDeal ==
    ASSUME Init
    PROVE  DealInv
<1>1. \A n \in Node : chunkSoFar[n] = {} /\ inbox[n] = << >>
  BY DEF Init
<1>2. \A n \in Node : Pending(n) = {}
  BY <1>1 DEF Pending
<1> QED
  BY <1>1, <1>2, ServerAndClients
     DEF DealInv, HeldInTurn, ClientCleared, ServerCleared, NothingDealt

LEMMA UnchangedDeal ==
    ASSUME LinusInv, DealInv, UNCHANGED vars
    PROVE  DealInv'
<1>1. /\ inbox' = inbox /\ pc' = pc /\ stage' = stage /\ next' = next /\ kv' = kv
      /\ chunkSoFar' = chunkSoFar
  BY DEF vars, netVars, dealVars
<1>2. TypeOK /\ TypeOK'
  BY NextTyped DEF LinusInv
<1>3. Dealt' = Dealt /\ Round' = Round
  BY <1>1 DEF Dealt, Round
<1> QED
  BY <1>1, <1>2, <1>3, MailStays, DealHeld

LEMMA NextKeepsDeal ==
    ASSUME LinusInv, DealInv, ChunkFits, [Next]_vars
    PROVE  DealInv'
<1>t. TypeOK'
  BY NextTyped
<1>1. CASE UNCHANGED vars
  BY <1>1, UnchangedDeal
<1>2. CASE Finished
  BY <1>1, <1>2 DEF Finished
<1>3. ASSUME NEW n \in Node, Leave(n)
      PROVE  DealInv'
  BY <1>t, <1>3, EndDeal DEF Leave, Fail
<1>4. ASSUME NEW n \in Client, ClientStep(n)
      PROVE  DealInv'
  BY <1>t, <1>4, ClientDeal, TakeChunkDeal DEF ClientStep
<1>5. CASE ServerStep
  BY <1>t, <1>5, ServerDeal, RoundDeal, DealStepDeal DEF ServerStep
<1>6. ASSUME NEW n \in Node, TagProjects(n)
      PROVE  DealInv'
  BY <1>t, <1>6, TagDeal
<1> QED
  BY <1>1, <1>2, <1>3, <1>4, <1>5, <1>6 DEF Next, Step

(* As long as the chunks node 0 sends fit in the line buffer of a column    *)
(* (serial.h:189), no user is dealt twice however they travel: no id is in  *)
(* the frames of two nodes, or in a frame and on its way (linus.h:step).    *)
(* A chunk that does not fit may end in digits that are the id of a user in *)
(* the frame of another node.                                               *)
THEOREM DealsApart == Spec /\ []ChunkFits => []NoUserTwice
<1>1. LinusInv /\ [Next]_vars => LinusInv'
  BY NextKeepsLinus
<1>2. Init => DealInv
  BY InitDeal
<1>3. LinusInv /\ DealInv /\ ChunkFits /\ [Next]_vars => DealInv'
  BY NextKeepsDeal
<1>4. ASSUME LinusInv, DealInv
      PROVE  NoUserTwice
  <2>1. next \in Nat /\ ServerInv
    BY <1>4 DEF LinusInv, TypeOK
  <2>2. \A n \in Node : HeldInTurn(n)
    BY <1>4 DEF DealInv
  <2>3. \A m, n \in Node : m # n => DealtBefore(m, next) \intersect DealtBefore(n, next) = {}
    BY <2>1, TurnsApart
  <2>4. ASSUME NEW m \in Node, NEW n \in Node, m # n
        PROVE  chunkSoFar[m] \intersect chunkSoFar[n] = {}
    BY <2>2, <2>3, <2>4 DEF HeldInTurn
  <2>5. ASSUME NEW m \in Node, NEW n \in Node, NEW i \in Pending(n)
        PROVE  Carries(n, i, "chunk") \intersect chunkSoFar[m] = {}
    <3>1. CASE m = n
      BY <2>2, <2>5, <3>1 DEF HeldInTurn, OnTheWay
    <3>2. CASE m # n
      BY <2>2, <2>3, <2>5, <3>2 DEF HeldInTurn, OnTheWay
    <3> QED
      BY <3>1, <3>2
  <2> QED
    BY <2>4, <2>5 DEF NoUserTwice
<1> QED
  BY <1>2, <1>3, <1>4, LinusInvHolds, PTL DEF Spec

---------------------------------------------------------------------------
(* Between two stages the sets of node 0 are what it has published; within  *)
(* one they are that and part of what it is about to publish.               *)
Latest == ProjectsFrame(Round)

SetsInv ==
    /\ \A s \in 0 .. Round : <<"users", s>> \in DOMAIN kv[Server]
    /\ \A s \in 0 .. Round - 1 : <<"projects", s>> \in DOMAIN kv[Server]
    /\ pc[Server] \in {"counts", "deal", "leave", "done"} =>
          uSet[Server] = PublishedUsers /\ pSet[Server] = PublishedProjects
    /\ pc[Server] = "projects" =>
          /\ uSet[Server] = PublishedUsers
          /\ PublishedProjects \subseteq pSet[Server]
          /\ pSet[Server] \subseteq PublishedProjects \union newProjects[Server]
    /\ pc[Server] = "users" =>
          /\ <<"projects", Round>> \in DOMAIN kv[Server]
          /\ pSet[Server] = PublishedProjects \union ProjectsFrame(Round)
          /\ PublishedUsers \subseteq uSet[Server]
          /\ uSet[Server] \subseteq PublishedUsers \union newUsers[Server]

(* The steps that publish nothing and tag nothing on node 0.                *)
LEMMA SetsStay ==
    ASSUME SetsInv, kv'[Server] = kv[Server], stage'[Server] = stage[Server],
           \/ pc'[Server] = "failed"
           \/ /\ uSet'[Server] = uSet[Server] /\ pSet'[Server] = pSet[Server]
              /\ newUsers[Server] \subseteq newUsers'[Server]
              /\ newProjects[Server] \subseteq newProjects'[Server]
              /\ \/ pc'[Server] = pc[Server]
                 \/ {pc[Server], pc'[Server]} \subseteq {"counts", "deal", "leave", "done"}
    PROVE  SetsInv'
<1>1. /\ Round' = Round
      /\ PublishedUsers' = PublishedUsers
      /\ PublishedProjects' = PublishedProjects
      /\ ProjectsFrame(Round)' = ProjectsFrame(Round)
  BY DEF Round, PublishedUsers, PublishedProjects, UsersOf, ProjectsFrame
<1>2. CASE pc'[Server] = "failed"
  BY <1>1, <1>2 DEF SetsInv
<1>3. CASE /\ uSet'[Server] = uSet[Server] /\ pSet'[Server] = pSet[Server]
           /\ newUsers[Server] \subseteq newUsers'[Server]
           /\ newProjects[Server] \subseteq newProjects'[Server]
           /\ \/ pc'[Server] = pc[Server]
              \/ {pc[Server], pc'[Server]} \subseteq {"counts", "deal", "leave", "done"}
  BY <1>1, <1>3 DEF SetsInv
<1> QED
  BY <1>2, <1>3

LEMMA TagSets ==
    ASSUME LinusInv, SetsInv, TagProjects(Server)
    PROVE  SetsInv'
<1>t. TypeOK /\ Server \in Node /\ Role(Server)
  BY ServerAndClients DEF LinusInv
<1>1. PICK tagged : /\ newProjects'[Server] = tagged
                    /\ pSet'[Server] = pSet[Server] \union tagged
  BY <1>t DEF TagProjects, TypeOK
<1>2. /\ pc[Server] = "deal" /\ pc'[Server] = "projects"
      /\ stage' = stage /\ kv' = kv /\ uSet' = uSet
  BY <1>t DEF TagProjects, TypeOK, Goto, Role
<1>3. /\ Round' = Round
      /\ PublishedUsers' = PublishedUsers
      /\ PublishedProjects' = PublishedProjects
  BY <1>2 DEF Round, PublishedUsers, PublishedProjects, UsersOf, ProjectsFrame
<1> QED
  BY <1>1, <1>2, <1>3 DEF SetsInv

LEMMA RoundTyped ==
    ASSUME TypeOK
    PROVE  Round \in Nat /\ Round # Round + 1
BY ServerAndClients, LinusAssumption DEF TypeOK, Round

(* What the frames of node 0 hold when it has published a set.              *)
LEMMA ProjectsPublished ==
    ASSUME LinusInv, SetsInv, PublishProjects
    PROVE  /\ Round' = Round /\ Dealt' = Dealt
           /\ PublishedUsers' = PublishedUsers /\ PublishedProjects' = PublishedProjects
           /\ Latest' = newProjects[Server]
<1>t. TypeOK /\ Server \in Node /\ Round \in Nat
  BY ServerAndClients, RoundTyped DEF LinusInv
<1>1. stage' = stage /\ Put(Server, <<"projects", Round>>, newProjects[Server])
  BY DEF PublishProjects, Round
<1>2. /\ kv'[Server][<<"projects", Round>>] = newProjects[Server]
      /\ \A k \in DOMAIN kv[Server] :
            k # <<"projects", Round>> => kv'[Server][k] = kv[Server][k]
  BY <1>t, <1>1, PutServer
<1>3. Round' = Round
  BY <1>1 DEF Round
<1>4. \A s \in 0 .. Round : UsersOf(s)' = UsersOf(s)
  <2>1. \A s : <<"users", s>> # <<"projects", Round>>
    OBVIOUS
  <2> QED
    BY <1>2, <2>1 DEF SetsInv, UsersOf
<1>5. \A s \in 0 .. Round - 1 : ProjectsFrame(s)' = ProjectsFrame(s)
  <2>1. \A s \in 0 .. Round - 1 : <<"projects", s>> # <<"projects", Round>>
    BY <1>t
  <2> QED
    BY <1>2, <2>1 DEF SetsInv, ProjectsFrame
<1>6. PublishedUsers' = PublishedUsers /\ Dealt' = Dealt
  <2>1. 1 .. Round \subseteq 0 .. Round /\ Round \in 0 .. Round
    BY <1>t
  <2>2. {UsersOf(s)' : s \in 1 .. Round} = {UsersOf(s) : s \in 1 .. Round}
    BY <1>4, <2>1
  <2>3. Dealt = UsersOf(Round) /\ Dealt' = UsersOf(Round)'
    BY DEF Dealt, UsersOf, Round
  <2>4. UsersOf(Round)' = kv'[Server][<<"users", Round>>]
    BY <1>3 DEF UsersOf
  <2>5. kv'[Server][<<"users", Round>>] = kv[Server][<<"users", Round>>]
    BY <1>4, <2>1 DEF UsersOf
  <2> QED
    BY <1>3, <2>2, <2>3, <2>4, <2>5 DEF PublishedUsers, Round, UsersOf
<1>7. PublishedProjects' = PublishedProjects
  <2>1. {ProjectsFrame(s)' : s \in 0 .. Round - 1}
           = {ProjectsFrame(s) : s \in 0 .. Round - 1}
    BY <1>5
  <2> QED
    BY <1>3, <2>1 DEF PublishedProjects, Round
<1>8. Latest' = newProjects[Server]
  BY <1>2, <1>3 DEF Latest, ProjectsFrame
<1> QED
  BY <1>3, <1>6, <1>7, <1>8

LEMMA UsersPublished ==
    ASSUME LinusInv, SetsInv, PublishUsers
    PROVE  /\ Round' = Round + 1 /\ Dealt' = newUsers[Server]
           /\ PublishedUsers' = PublishedUsers \union newUsers[Server]
           /\ PublishedProjects' = PublishedProjects \union Latest
<1>t. TypeOK /\ Server \in Node /\ Round \in Nat
  BY ServerAndClients, RoundTyped DEF LinusInv
<1>1. /\ pc[Server] = "users" /\ stage'[Server] = Round + 1
      /\ Put(Server, <<"users", Round + 1>>, newUsers[Server])
  BY <1>t DEF PublishUsers, EndStage, TypeOK, Round
<1>2. /\ kv'[Server][<<"users", Round + 1>>] = newUsers[Server]
      /\ \A k \in DOMAIN kv[Server] :
            k # <<"users", Round + 1>> => kv'[Server][k] = kv[Server][k]
  BY <1>t, <1>1, PutServer
<1>3. /\ \A s \in 0 .. Round : <<"users", s>> \in DOMAIN kv[Server]
      /\ \A s \in 0 .. Round : <<"projects", s>> \in DOMAIN kv[Server]
  <2>1. 0 .. Round = (0 .. Round - 1) \union {Round}
    BY <1>t
  <2> QED
    BY <1>1, <2>1 DEF SetsInv
<1>4. \A s \in 0 .. Round : /\ <<"users", s>> # <<"users", Round + 1>>
                            /\ <<"projects", s>> # <<"users", Round + 1>>
  <2>1. \A s \in 0 .. Round : s # Round + 1
    BY <1>t
  <2> QED
    BY <2>1
<1>5. \A s \in 0 .. Round :
         /\ kv'[Server][<<"users", s>>] = kv[Server][<<"users", s>>]
         /\ kv'[Server][<<"projects", s>>] = kv[Server][<<"projects", s>>]
  BY <1>2, <1>3, <1>4
<1>6. PublishedUsers' = PublishedUsers \union newUsers[Server]
  <2>1. 1 .. Round + 1 = (1 .. Round) \union {Round + 1}
    BY <1>t
  <2>2. PublishedUsers' = UNION {kv'[Server][<<"users", s>>] : s \in 1 .. Round + 1}
    BY <1>1 DEF PublishedUsers, UsersOf
  <2>3. PublishedUsers = UNION {kv[Server][<<"users", s>>] : s \in 1 .. Round}
    BY DEF PublishedUsers, UsersOf, Round
  <2>4. \A s \in 1 .. Round : s \in 0 .. Round
    BY <1>t
  <2>5. UNION {kv'[Server][<<"users", s>>] : s \in (1 .. Round) \union {Round + 1}}
           = (UNION {kv'[Server][<<"users", s>>] : s \in 1 .. Round})
                \union kv'[Server][<<"users", Round + 1>>]
    OBVIOUS
  <2>6. UNION {kv'[Server][<<"users", s>>] : s \in 1 .. Round} = PublishedUsers
    BY <1>5, <2>3, <2>4
  <2> QED
    BY <1>2, <2>1, <2>2, <2>5, <2>6
<1>7. PublishedProjects' = PublishedProjects \union Latest
  <2>1. 0 .. (Round + 1) - 1 = (0 .. Round - 1) \union {Round}
    BY <1>t
  <2>2. PublishedProjects'
           = UNION {kv'[Server][<<"projects", s>>] : s \in 0 .. (Round + 1) - 1}
    BY <1>1 DEF PublishedProjects, ProjectsFrame
  <2>3. PublishedProjects = UNION {kv[Server][<<"projects", s>>] : s \in 0 .. Round - 1}
    BY DEF PublishedProjects, ProjectsFrame, Round
  <2>4. \A s \in 0 .. (Round + 1) - 1 : s \in 0 .. Round
    BY <1>t
  <2>5. \A s \in 0 .. (Round + 1) - 1 :
           kv'[Server][<<"projects", s>>] = kv[Server][<<"projects", s>>]
    BY <1>5, <2>4
  <2>6. PublishedProjects'
           = UNION {kv[Server][<<"projects", s>>] : s \in (0 .. Round - 1) \union {Round}}
    BY <2>1, <2>2, <2>5
  <2> QED
    BY <2>3, <2>6 DEF ProjectsFrame, Latest
<1>8. Dealt' = newUsers[Server] /\ Round' = Round + 1
  BY <1>1, <1>2 DEF Dealt, Round
<1> QED
  BY <1>6, <1>7, <1>8

LEMMA PublishProjectsSets ==
    ASSUME LinusInv, SetsInv, PublishProjects
    PROVE  SetsInv'
<1>t. TypeOK /\ Server \in Node
  BY ServerAndClients DEF LinusInv
<1>1. PICK tagged : /\ newUsers'[Server] = tagged
                    /\ uSet'[Server] = uSet[Server] \union tagged
  BY <1>t DEF PublishProjects, TagUsers, TypeOK
<1>2. /\ pc[Server] = "projects" /\ pc'[Server] = "users"
      /\ pSet'[Server] = pSet[Server] \union newProjects[Server]
      /\ Put(Server, <<"projects", Round>>, newProjects[Server])
  BY <1>t DEF PublishProjects, TagUsers, TypeOK, Goto, Round
<1>3. DOMAIN kv'[Server] = DOMAIN kv[Server] \union {<<"projects", Round>>}
  BY <1>t, <1>2, PutServer
<1>4. /\ Round' = Round /\ ProjectsFrame(Round)' = newProjects[Server]
      /\ PublishedUsers' = PublishedUsers /\ PublishedProjects' = PublishedProjects
  BY ProjectsPublished DEF Latest
<1>5. /\ \A s \in 0 .. Round : <<"users", s>> \in DOMAIN kv'[Server]
      /\ \A s \in 0 .. Round - 1 : <<"projects", s>> \in DOMAIN kv'[Server]
      /\ <<"projects", Round>> \in DOMAIN kv'[Server]
  BY <1>3 DEF SetsInv
<1>6. /\ uSet[Server] = PublishedUsers
      /\ PublishedProjects \subseteq pSet[Server]
      /\ pSet[Server] \subseteq PublishedProjects \union newProjects[Server]
  BY <1>2 DEF SetsInv
<1>7. /\ pSet'[Server] = PublishedProjects' \union ProjectsFrame(Round)'
      /\ PublishedUsers' \subseteq uSet'[Server]
      /\ uSet'[Server] \subseteq PublishedUsers' \union newUsers'[Server]
  BY <1>1, <1>2, <1>4, <1>6
<1> QED
  BY <1>2, <1>4, <1>5, <1>7 DEF SetsInv

LEMMA PublishUsersSets ==
    ASSUME LinusInv, SetsInv, PublishUsers
    PROVE  SetsInv'
<1>t. TypeOK /\ Server \in Node /\ Round \in Nat
  BY ServerAndClients, RoundTyped DEF LinusInv
<1>1. /\ pc[Server] = "users" /\ pc'[Server] \in {"leave", "counts"}
      /\ uSet'[Server] = uSet[Server] \union newUsers[Server]
      /\ pSet' = pSet
      /\ Put(Server, <<"users", Round + 1>>, newUsers[Server])
  BY <1>t DEF PublishUsers, EndStage, TypeOK, Goto, Round, After
<1>2. DOMAIN kv'[Server] = DOMAIN kv[Server] \union {<<"users", Round + 1>>}
  BY <1>t, <1>1, PutServer
<1>3. /\ Round' = Round + 1
      /\ PublishedUsers' = PublishedUsers \union newUsers[Server]
      /\ PublishedProjects' = PublishedProjects \union ProjectsFrame(Round)
  BY UsersPublished DEF Latest
<1>4. /\ pSet[Server] = PublishedProjects \union ProjectsFrame(Round)
      /\ PublishedUsers \subseteq uSet[Server]
      /\ uSet[Server] \subseteq PublishedUsers \union newUsers[Server]
  BY <1>1 DEF SetsInv
<1>5. uSet'[Server] = PublishedUsers' /\ pSet'[Server] = PublishedProjects'
  BY <1>1, <1>3, <1>4
<1>6. \A s \in 0 .. Round + 1 : <<"users", s>> \in DOMAIN kv'[Server]
  <2>1. 0 .. Round + 1 = (0 .. Round) \union {Round + 1}
    BY <1>t
  <2> QED
    BY <1>2, <2>1 DEF SetsInv
<1>7. \A s \in 0 .. (Round + 1) - 1 : <<"projects", s>> \in DOMAIN kv'[Server]
  <2>1. 0 .. (Round + 1) - 1 = (0 .. Round - 1) \union {Round}
    BY <1>t
  <2> QED
    BY <1>1, <1>2, <2>1 DEF SetsInv
<1> QED
  BY <1>1, <1>3, <1>5, <1>6, <1>7 DEF SetsInv

LEMMA InitSets ==
    ASSUME Init
    PROVE  SetsInv
<1>1. /\ Round = 0 /\ uSet[Server] = {} /\ pSet[Server] = {}
      /\ pc[Server] \in {"leave", "counts"}
      /\ <<"users", 0>> \in DOMAIN kv[Server]
  BY ServerAndClients DEF Init, Round
<1>2. 1 .. Round = {} /\ 0 .. Round - 1 = {}
  BY <1>1
<1>3. PublishedUsers = {} /\ PublishedProjects = {}
  BY <1>2 DEF PublishedUsers, PublishedProjects, Round
<1>4. \A s \in 0 .. Round : s = 0
  BY <1>1
<1> QED
  BY <1>1, <1>2, <1>3, <1>4 DEF SetsInv

(* Another process leaves the store and the sets of node 0 alone.           *)
LEMMA ClientSets ==
    ASSUME LinusInv, SetsInv, NEW n \in Client,
           ClientStep(n) \/ TagProjects(n) \/ Leave(n)
    PROVE  SetsInv'
<1>t. TypeOK /\ Server \in Node /\ n # Server /\ n \in Node
  BY ServerAndClients DEF LinusInv
<1>1. /\ pc'[Server] = pc[Server] /\ kv'[Server] = kv[Server]
      /\ stage'[Server] = stage[Server]
      /\ uSet'[Server] = uSet[Server] /\ pSet'[Server] = pSet[Server]
      /\ newUsers'[Server] = newUsers[Server]
      /\ newProjects'[Server] = newProjects[Server]
  <2>1. CASE Fail(n) \/ End(n, "done")
    BY <1>t, <2>1 DEF Fail, End, Goto, setVars, TypeOK
  <2>2. CASE TakeQuota(n) /\ ~Fail(n)
    BY <1>t, <2>2 DEF TakeQuota, Goto, setVars, TypeOK
  <2>3. CASE TakeChunk(n) /\ ~Fail(n)
    BY <1>t, <2>3 DEF TakeChunk, setVars
  <2>4. CASE TagProjects(n)
    BY <1>t, <2>4 DEF TagProjects, Goto, TypeOK
  <2>5. CASE SendProjects(n) /\ ~Fail(n)
    BY <1>t, <2>5 DEF SendProjects, TagUsers, Put, Goto, TypeOK
  <2>6. CASE SendUsers(n) /\ ~Fail(n)
    BY <1>t, <2>6 DEF SendUsers, EndStage, Put, Goto, TypeOK
  <2> QED
    BY <2>1, <2>2, <2>3, <2>4, <2>5, <2>6 DEF ClientStep, Leave
<1> QED
  BY <1>1, SetsStay

LEMMA ServerSets ==
    ASSUME LinusInv, SetsInv, ServerStep \/ TagProjects(Server) \/ Leave(Server)
    PROVE  SetsInv'
<1>t. TypeOK /\ Server \in Node
  BY ServerAndClients DEF LinusInv
<1>1. CASE Fail(Server) \/ (End(Server, "done") /\ pc[Server] = "leave")
  <2>1. /\ kv' = kv /\ stage' = stage /\ uSet' = uSet /\ pSet' = pSet
        /\ newUsers' = newUsers /\ newProjects' = newProjects
        /\ pc'[Server] = "failed" \/ (pc[Server] = "leave" /\ pc'[Server] = "done")
    BY <1>t, <1>1 DEF Fail, End, Goto, setVars, TypeOK
  <2> QED
    BY <2>1, SetsStay
<1>2. CASE (SendCount \/ CountsSent \/ DealKeep \/ DealSend) /\ ~Fail(Server)
  <2>1. /\ kv' = kv /\ stage' = stage /\ uSet' = uSet /\ pSet' = pSet
        /\ newUsers' = newUsers /\ newProjects' = newProjects
        /\ pc' = pc \/ (pc[Server] = "counts" /\ pc'[Server] = "deal")
    BY <1>t, <1>2 DEF SendCount, CountsSent, DealKeep, DealSend, Goto, setVars, TypeOK
  <2> QED
    BY <2>1, SetsStay
<1>3. CASE MergeDelta /\ ~Fail(Server)
  <2>1. /\ kv' = kv /\ stage' = stage /\ uSet' = uSet /\ pSet' = pSet /\ pc' = pc
    BY <1>3 DEF MergeDelta
  <2>2. /\ newUsers[Server] \subseteq newUsers'[Server]
        /\ newProjects[Server] \subseteq newProjects'[Server]
    <3> DEFINE ids == Head(inbox[Server]).ids
               ps == newProjects[Server] \union (ids \intersect ProjectIds)
               us == newUsers[Server] \union (ids \intersect UserIds)
    <3>1. \/ newProjects' = [newProjects EXCEPT ![Server] = ps] /\ newUsers' = newUsers
          \/ newUsers' = [newUsers EXCEPT ![Server] = us] /\ newProjects' = newProjects
      BY <1>3 DEF MergeDelta
    <3>2. newProjects[Server] \subseteq ps /\ newUsers[Server] \subseteq us
      OBVIOUS
    <3> HIDE DEF ps, us
    <3> QED
      BY <1>t, <3>1, <3>2 DEF TypeOK
  <2> QED
    BY <2>1, <2>2, SetsStay
<1> QED
  BY <1>1, <1>2, <1>3, TagSets, PublishProjectsSets, PublishUsersSets
     DEF ServerStep, Leave

LEMMA NextKeepsSets ==
    ASSUME LinusInv, SetsInv, [Next]_vars
    PROVE  SetsInv'
<1>1. CASE UNCHANGED vars
  <2>1. /\ kv' = kv /\ stage' = stage /\ uSet' = uSet /\ pSet' = pSet /\ pc' = pc
        /\ newUsers' = newUsers /\ newProjects' = newProjects
    BY <1>1 DEF vars, setVars
  <2> QED
    BY <2>1, SetsStay
<1>2. CASE Finished
  BY <1>1, <1>2 DEF Finished
<1>3. ASSUME NEW n \in Node, Step(n)
      PROVE  SetsInv'
  BY <1>3, ClientSets, ServerSets, ServerAndClients DEF Step
<1> QED
  BY <1>1, <1>2, <1>3 DEF Next

(* At the end of a stage node 0 has entered in its sets exactly what it has *)
(* published, whatever it merged (linus.h:step, merge).                     *)
THEOREM PublishedIsEntered == Spec => []SetsArePublished
<1>1. LinusInv /\ [Next]_vars => LinusInv'
  BY NextKeepsLinus
<1>2. Init => SetsInv
  BY InitSets
<1>3. LinusInv /\ SetsInv /\ [Next]_vars => SetsInv'
  BY NextKeepsSets
<1>4. SetsInv => SetsArePublished
  BY DEF SetsInv, SetsArePublished
<1> QED
  BY <1>2, <1>3, <1>4, LinusInvHolds, PTL DEF Spec

---------------------------------------------------------------------------
(* Node 0 sends only to a client that takes part in the stage or has failed.*)
LEMMA TargetTakesPart ==
    ASSUME LinusInv, NEW t \in Client, pc[t] # "failed",
           \/ pc[Server] = "counts" /\ t = next
           \/ pc[Server] = "deal" /\ next < DealtChunks /\ t = round2
    PROVE  pc[t] \in {"quota", "take"}
<1>t. /\ TypeOK /\ ServerInv /\ t \in Node /\ t \in 1 .. NumNodes - 1
  BY ServerAndClients DEF LinusInv
<1>1. CASE pc[Server] = "counts" /\ t = next
  <2>1. InStage /\ ~Told(t)
    BY <1>1, <1>t DEF InStage, Told
  <2> QED
    BY <1>t, <2>1, Untold
<1>2. CASE pc[Server] = "deal" /\ next < DealtChunks /\ t = round2
  <2>1. pc[Server] = "deal" /\ next < DealtChunks
    BY <1>2
  <2>2. next \in Nat /\ t = next % NumNodes /\ DealtChunks \in Nat
    BY <1>2, <1>t, <2>1, DealtChunksTyped DEF ServerInv
  <2>3. Share(t, next + 1, NumNodes) <= Share(t, DealtChunks, NumNodes)
    BY <2>1, <2>2, ShareMonotonic
  <2>4. /\ Share(t, next, NumNodes) \in Nat
        /\ Share(t, next + 1, NumNodes) = Share(t, next, NumNodes) + 1
        /\ Share(t, DealtChunks, NumNodes) \in Nat
    BY <2>2, ShareGrows
  <2>5. Share(t, next, NumNodes) # Share(t, DealtChunks, NumNodes)
    BY <2>3, <2>4
  <2>6. InStage /\ Told(t) /\ Given(t) # Due(t)
    BY <2>1, <2>5 DEF InStage, Told, Given, Due
  <2> QED
    BY <1>t, <2>6, Owed
<1> QED
  BY <1>1, <1>2

LEMMA ServerIsAlive ==
    ASSUME LinusInv, NEW n \in Client, pc[n] \in {"projects", "users"}
    PROVE  pc[Server] # "done"
<1>1. /\ TypeOK /\ LeavesLast(n) /\ LeavesLast(Server) /\ ClientInv(n)
      /\ n \in Node /\ Server \in Node
  BY ServerAndClients DEF LinusInv
<1>2. stage[n] = Round /\ stage[n] < DEGREES
  BY <1>1 DEF ClientInv, Sends, LeavesLast
<1>3. pc[Server] = "done" => Round = DEGREES
  BY <1>1 DEF LeavesLast, Round
<1> QED
  BY <1>1, <1>2, <1>3, LinusAssumption DEF TypeOK, Round

(* Whatever the sockets, the network and the freed memory do and whoever    *)
(* fails, nobody is ever about to send to a process that has returned from  *)
(* main, although the processes return at different times (linus.h:run_):   *)
(* that a client has one message more or less to expect, or one stage more  *)
(* or less to go through, is ruled out for any number of nodes and stages.  *)
THEOREM EndedAreNotSentTo == Spec => []NoSendToEnded
<1>1. ASSUME LinusInv
      PROVE  NoSendToEnded
  <2>t. TypeOK /\ ServerInv /\ Server \in Node
    BY <1>1, ServerAndClients DEF LinusInv
  <2>1. ASSUME pc[Server] = "counts", next < NumNodes
        PROVE  pc[next] # "done"
    <3>1. next \in Client
      BY <2>t, <2>1, ServerAndClients DEF ServerInv, Client, Node, Server
    <3> QED
      BY <1>1, <2>1, <3>1, TargetTakesPart
  <2>2. ASSUME pc[Server] = "deal", next < DealtChunks
        PROVE  pc[round2] # "done"
    <3>1. CASE round2 = Server
      BY <2>2, <3>1
    <3>2. CASE round2 # Server
      <4>1. round2 \in Client
        BY <2>t, <3>2, ServerAndClients DEF TypeOK
      <4> QED
        BY <1>1, <2>2, <4>1, TargetTakesPart
    <3> QED
      BY <3>1, <3>2
  <2>3. \A n \in Client : pc[n] \in {"projects", "users"} => pc[Server] # "done"
    BY <1>1, ServerIsAlive
  <2> QED
    BY <2>1, <2>2, <2>3 DEF NoSendToEnded
<1> QED
  BY <1>1, LinusInvHolds, PTL

---------------------------------------------------------------------------
(* A step that tags nothing, merges nothing and publishes nothing leaves    *)
(* what was tagged, the deltas and the published frames as they are.        *)
Quiet ==
    /\ UNCHANGED <<commits, kv, stage, pSet, newProjects, newUsers>>
    /\ received'[Server] = received[Server]
    /\ InStage' => /\ InStage
                   /\ inbox'[Server] = inbox[Server]
                   /\ \/ pc'[Server] = pc[Server]
                      \/ pc[Server] = "counts" /\ pc'[Server] = "deal"
    /\ \A n \in Client : \/ pc'[n] = pc[n]
                         \/ pc[n] = "quota" /\ pc'[n] = "take"
                         \/ pc[n] = "leave" /\ pc'[n] = "done"
                         \/ pc'[n] = "failed"

LEMMA EndIsQuiet ==
    ASSUME LinusInv, NEW n \in Node, NEW label \in {"done", "failed"},
           label = "done" => pc[n] = "leave", End(n, label)
    PROVE  Quiet
<1>t. TypeOK /\ Server \in Node /\ Client \subseteq Node /\ Server \notin Client
  BY ServerAndClients DEF LinusInv
<1>1. /\ pc' = [pc EXCEPT ![n] = label] /\ inbox' = [inbox EXCEPT ![n] = << >>]
      /\ UNCHANGED <<commits, stage, received, dealVars, setVars, kv>>
  BY DEF End, Goto, CloseSocket
<1>2. /\ \A m \in Node : m # n => pc'[m] = pc[m] /\ inbox'[m] = inbox[m]
      /\ pc'[n] = label
  BY <1>t, <1>1 DEF TypeOK
<1>3. InStage' => n # Server
  BY <1>2 DEF InStage
<1> QED
  BY <1>t, <1>1, <1>2, <1>3 DEF Quiet, setVars, InStage

LEMMA QuietSteps ==
    ASSUME LinusInv,
           \/ SendCount \/ CountsSent \/ DealKeep \/ DealSend
           \/ \E n \in Client : TakeQuota(n) \/ TakeChunk(n)
           \/ \E n \in Node : Leave(n) \/ Fail(n)
           \/ UNCHANGED vars
    PROVE  Quiet
<1>t. TypeOK /\ ServerInv /\ Server \in Node /\ Client \subseteq Node /\ Server \notin Client
  BY ServerAndClients DEF LinusInv
<1>f. ASSUME NEW n \in Node, Leave(n) \/ Fail(n)
      PROVE  Quiet
  BY <1>f, EndIsQuiet DEF Leave, Fail
<1>1. CASE UNCHANGED vars
  BY <1>1 DEF vars, netVars, setVars, Quiet, InStage
<1>2. CASE CountsSent \/ DealKeep
  BY <1>t, <1>2 DEF CountsSent, DealKeep, Goto, TypeOK, netVars, setVars, Quiet, InStage
<1>3. ASSUME NEW to \in Client, NEW msg, Send(Server, to, msg),
             UNCHANGED <<commits, pc, stage, received, setVars, kv>>
      PROVE  Quiet
  <2>1. inbox'[Server] = inbox[Server]
    BY <1>t, <1>3 DEF Send, TypeOK
  <2> QED
    BY <1>3, <2>1 DEF setVars, Quiet, InStage
<1>4. CASE SendCount
  <2>1. pc[Server] = "counts" /\ next \in Client
    BY <1>t, <1>4, NumNodesAssumption DEF SendCount, ServerInv, Client, Node, Server
  <2> QED
    BY <1>t, <1>f, <1>3, <1>4, <2>1 DEF SendCount
<1>5. CASE DealSend
  <2>1. round2 \in Client
    BY <1>t, <1>5 DEF DealSend, TypeOK, Client
  <2> QED
    BY <1>t, <1>f, <1>3, <1>5, <2>1 DEF DealSend
<1>6. ASSUME NEW n \in Client, TakeQuota(n) \/ TakeChunk(n)
      PROVE  Quiet
  <2>1. CASE Fail(n)
    BY <1>t, <1>f, <2>1
  <2>2. CASE /\ Receive(n)
             /\ UNCHANGED <<commits, stage, setVars, kv>>
             /\ \A m \in Node : m # n => pc'[m] = pc[m] /\ received'[m] = received[m]
             /\ pc'[n] = pc[n] \/ (pc[n] = "quota" /\ pc'[n] = "take")
    <3>1. \A m \in Node : m # n => inbox'[m] = inbox[m]
      BY <1>t, <2>2, ReceiveTakes
    <3> QED
      BY <1>t, <2>2, <3>1 DEF setVars, Quiet, InStage
  <2> QED
    BY <1>t, <1>6, <2>1, <2>2 DEF TakeQuota, TakeChunk, Goto, TypeOK
<1> QED
  BY <1>f, <1>1, <1>2, <1>4, <1>5, <1>6

(* Every other step tags, sends a delta, merges one or publishes.           *)
LEMMA StepsQuietOrNot ==
    ASSUME LinusInv, [Next]_vars
    PROVE  \/ Quiet
           \/ \E n \in Node : TagProjects(n)
           \/ \E n \in Client : SendProjects(n) /\ ~Fail(n)
           \/ \E n \in Client : SendUsers(n) /\ ~Fail(n)
           \/ MergeDelta /\ ~Fail(Server)
           \/ PublishProjects \/ PublishUsers
BY QuietSteps, ServerAndClients DEF Next, Step, ServerStep, ClientStep, Finished

---------------------------------------------------------------------------
(* With two nodes the deltas of a stage arrive in the order the one client  *)
(* sends them: its projects, then its users.  With three, one client may    *)
(* send both of its deltas before the other sends any, and then they don't. *)
Sent == Merged + Len(inbox[Server])

TurnsInv ==
    InStage =>
        /\ \A i \in Pending(Server) :
              inbox[Server][i].of = IF Merged + i = 1 THEN "projects" ELSE "users"
        /\ \A n \in Client : pc[n] = "users" /\ stage[n] = Round => Sent # 0
        /\ Merging => received[Server] <= NumNodes - 1

LEMMA OneClient ==
    ASSUME NumNodes <= 2, NEW n \in Client
    PROVE  NumNodes = 2 /\ Client = {n}
BY NumNodesAssumption DEF Client, Node, Server

LEMMA OthersMerge ==
    ASSUME Quiet, InStage'
    PROVE  /\ Merged' = Merged /\ Sent' = Sent /\ Round' = Round
           /\ Merging' => Merging /\ pc'[Server] = pc[Server]
BY DEF Quiet, InStage, Merged, Sent, Round, Merging

(* What the client has sent of the stage, when it has a delta to send.      *)
LEMMA SentSoFar ==
    ASSUME LinusInv, TurnsInv, NumNodes <= 2, InStage, NEW n \in Client, stage[n] = Round
    PROVE  /\ pc[n] = "users" => Sent = 1
           /\ pc[n] \notin {"users", "failed"} => Sent = 0
<1>t. TypeOK /\ DeltasCounted /\ Round \in Nat /\ Round # Round + 1
  BY RoundTyped DEF LinusInv
<1>1. SentBoth = {} /\ SentOne \subseteq {n}
  BY <1>t, OneClient DEF SentBoth, SentOne
<1>2. Cardinality(SentBoth) = 0 /\ Cardinality({n}) = 1
  BY <1>1, FS_EmptySet, FS_Singleton
<1>3. Cardinality(SentOne) \in Nat /\ Cardinality(SentOne) <= 1
  BY <1>1, <1>2, ClientsCounted
<1>4. pc[n] \notin {"users", "failed"} => SentOne = {} /\ Cardinality(SentOne) = 0
  BY <1>t, <1>1, FS_EmptySet DEF SentOne
<1>5. Sent \in Nat /\ Sent <= Cardinality(SentOne)
  BY <1>t, <1>2, <1>3, MergedTyped DEF Sent, DeltasCounted
<1>6. pc[n] = "users" => Sent # 0
  BY DEF TurnsInv
<1> QED
  BY <1>3, <1>4, <1>5, <1>6

LEMMA TurnsStay ==
    ASSUME TurnsInv,
           InStage' => InStage /\ Merged' = Merged /\ inbox'[Server] = inbox[Server],
           InStage' => \A n \in Client : pc'[n] = "users" /\ stage'[n] = Round'
                                            => pc[n] = "users" /\ stage[n] = Round,
           InStage' /\ Merging' => received'[Server] <= NumNodes - 1
    PROVE  TurnsInv'
BY DEF TurnsInv, Pending, Sent

LEMMA TagTurns ==
    ASSUME LinusInv, TurnsInv, NEW n \in Node, TagProjects(n)
    PROVE  TurnsInv'
<1>t. /\ TypeOK /\ Role(n) /\ Server \in Node /\ Client \subseteq Node /\ Server \notin Client
      /\ n # Server => n \in Client
      /\ NumNodes \in Nat \ {0}
  BY ServerAndClients DEF LinusInv
<1>1. /\ pc'[n] = "projects" /\ received'[n] = 0
      /\ \A m \in Node : m # n => pc'[m] = pc[m] /\ received'[m] = received[m]
      /\ inbox' = inbox /\ stage' = stage
      /\ n = Server => pc[n] = "deal"
  BY <1>t DEF TagProjects, Goto, TypeOK, netVars, Role
<1>2. InStage' => InStage /\ Merged' = Merged
  BY <1>t, <1>1 DEF InStage, Merged
<1>3. \A m \in Client : pc'[m] = "users" => pc[m] = "users"
  BY <1>t, <1>1
<1>4. InStage' /\ Merging' => received'[Server] <= NumNodes - 1
  BY <1>t, <1>1, <1>2 DEF TurnsInv, Merging
<1> QED
  BY <1>1, <1>2, <1>3, <1>4, TurnsStay DEF Round

(* Node 0 receives what the client sends at the end of its queue.           *)
LEMMA DeltaTurns ==
    ASSUME LinusInv, TurnsInv, NumNodes <= 2, NEW n \in Client,
           \/ SendProjects(n) /\ ~Fail(n)
           \/ SendUsers(n) /\ ~Fail(n)
    PROVE  TurnsInv'
<1>t. /\ TypeOK /\ ClientInv(n) /\ n # Server /\ n \in Node /\ Server \in Node
      /\ Client \subseteq Node /\ Client = {n}
  BY ServerAndClients, OneClient DEF LinusInv
<1> DEFINE len == Len(inbox[Server])
<1>1. PICK of \in {"projects", "users"} :
         /\ pc[n] = of
         /\ \E ids : Send(n, Server, DeltaMsg(n, of, ids))
         /\ of = "users" => stage'[n] = stage[n] + 1
         /\ \A m \in Node : m # n => /\ pc'[m] = pc[m] /\ stage'[m] = stage[m]
                                     /\ received'[m] = received[m]
  BY <1>t DEF SendProjects, SendUsers, TagUsers, EndStage, Goto, TypeOK
<1>2. /\ len \in Nat /\ Len(inbox'[Server]) = len + 1
      /\ \A i \in 1 .. len : inbox'[Server][i] = inbox[Server][i]
      /\ inbox'[Server][len + 1].of = of
  BY <1>t, <1>1, SendAppends DEF DeltaMsg
<1>3. /\ stage[n] = Round /\ Round' = Round /\ Merged' = Merged /\ Round \in Nat
      /\ InStage' => InStage
      /\ Merging' <=> Merging
  BY <1>t, <1>1 DEF ClientInv, Sends, Round, Merged, InStage, Merging, TypeOK
<1>4. SUFFICES ASSUME InStage'
               PROVE  /\ \A i \in 1 .. len + 1 : inbox'[Server][i].of =
                             IF Merged + i = 1 THEN "projects" ELSE "users"
                      /\ pc'[n] = "users" /\ stage'[n] = Round => Sent' # 0
                      /\ Merging => received'[Server] <= NumNodes - 1
  BY <1>t, <1>2, <1>3 DEF TurnsInv, Pending
<1>5. Merged \in Nat /\ Merged + len = IF of = "users" THEN 1 ELSE 0
  BY <1>t, <1>1, <1>3, <1>4, SentSoFar, MergedTyped DEF Sent
<1>6. ASSUME NEW i \in 1 .. len + 1
      PROVE  inbox'[Server][i].of = IF Merged + i = 1 THEN "projects" ELSE "users"
  <2>1. CASE i = len + 1
    BY <1>1, <1>2, <1>5, <2>1
  <2>2. CASE i # len + 1
    <3>1. i \in 1 .. len
      BY <1>2, <1>6, <2>2
    <3> QED
      BY <1>2, <1>3, <1>4, <3>1 DEF TurnsInv, Pending
  <2> QED
    BY <2>1, <2>2
<1>7. Sent' # 0
  BY <1>2, <1>3, <1>5 DEF Sent
<1>8. Merging => received'[Server] <= NumNodes - 1
  BY <1>t, <1>1, <1>3, <1>4 DEF TurnsInv
<1> QED
  BY <1>6, <1>7, <1>8

LEMMA MergeTurns ==
    ASSUME LinusInv, TurnsInv, MergeDelta, ~Fail(Server)
    PROVE  TurnsInv'
<1>t. /\ TypeOK /\ Server \in Node /\ Client \subseteq Node /\ NumNodes \in Nat \ {0}
  BY ServerAndClients DEF LinusInv
<1>1. /\ Merging /\ Receive(Server) /\ pc' = pc /\ stage' = stage
      /\ received[Server] \in Nat /\ received'[Server] = received[Server] + 1
      /\ ~(received[Server] >= NumNodes - 1)
  BY <1>t DEF MergeDelta, Gathered, TypeOK
<1>2. /\ Len(inbox[Server]) \in Nat \ {0}
      /\ Len(inbox'[Server]) = Len(inbox[Server]) - 1
      /\ \A i \in 1 .. Len(inbox'[Server]) : inbox'[Server][i] = inbox[Server][i + 1]
  BY <1>t, <1>1, ReceiveTakes
<1>3. /\ Merged \in Nat /\ Merged' = Merged + 1 /\ Sent' = Sent
      /\ InStage /\ Round' = Round /\ Merging'
  <2>1. Merged \in Nat /\ Merged' = Merged + 1
    BY <1>t, <1>1, MergedTyped DEF Merging, Merged
  <2>2. Sent' = Sent
    <3>1. \A a, b \in Nat : (a + 1) + (b - 1) = a + b
      OBVIOUS
    <3> QED
      BY <1>2, <2>1, <3>1 DEF Sent
  <2>3. InStage /\ Round' = Round /\ Merging'
    BY <1>1 DEF Merging, InStage, Round
  <2> QED
    BY <2>1, <2>2, <2>3
<1>4. ASSUME NEW i \in 1 .. Len(inbox'[Server])
      PROVE  inbox'[Server][i].of = IF Merged' + i = 1 THEN "projects" ELSE "users"
  <2>1. i + 1 \in 1 .. Len(inbox[Server]) /\ Merged' + i = Merged + (i + 1)
    BY <1>2, <1>3, <1>4
  <2>2. inbox'[Server][i] = inbox[Server][i + 1]
    BY <1>2
  <2> QED
    BY <1>3, <2>1, <2>2 DEF TurnsInv, Pending
<1>5. received'[Server] <= NumNodes - 1
  BY <1>t, <1>1
<1> QED
  BY <1>1, <1>3, <1>4, <1>5 DEF TurnsInv, Pending

LEMMA PublishTurns ==
    ASSUME LinusInv, TurnsInv, PublishProjects \/ PublishUsers
    PROVE  TurnsInv'
<1>t. /\ TypeOK /\ Server \in Node /\ Client \subseteq Node /\ Server \notin Client
      /\ \A m \in Client : ClientInv(m)
      /\ NumNodes \in Nat \ {0}
  BY ServerAndClients DEF LinusInv
<1>1. CASE PublishProjects
  <2>1. /\ pc[Server] = "projects" /\ pc'[Server] = "users"
        /\ received[Server] >= NumNodes - 1 /\ received[Server] \in Nat
        /\ received'[Server] = 0
        /\ \A m \in Client : pc'[m] = pc[m]
        /\ stage' = stage /\ inbox' = inbox
    BY <1>t, <1>1 DEF PublishProjects, Gathered, TagUsers, Goto, TypeOK, netVars
  <2>2. received[Server] = NumNodes - 1
    BY <1>t, <2>1 DEF TurnsInv, Merging, InStage
  <2>3. Merged' = Merged /\ InStage
    BY <1>t, <2>1, <2>2 DEF Merged, InStage
  <2> QED
    BY <1>t, <2>1, <2>3, TurnsStay DEF Round
<1>2. CASE PublishUsers
  <2>1. /\ pc[Server] = "users" /\ Gathered /\ stage'[Server] = Round + 1
        /\ pc'[Server] \in {"leave", "counts"}
        /\ \A m \in Client : pc'[m] = pc[m] /\ stage'[m] = stage[m]
        /\ inbox' = inbox
    BY <1>t, <1>2 DEF PublishUsers, EndStage, After, Goto, TypeOK, netVars, Round
  <2>2. inbox[Server] = << >> /\ \A m \in Client : stage[m] = Round + 1
    BY <2>1, AllMerged
  <2>3. \A m \in Client : pc[m] # "users"
    <3>1. Round \in Nat
      BY <1>t, RoundTyped
    <3> QED
      BY <1>t, <2>2, <3>1 DEF ClientInv, Ahead
  <2> QED
    BY <2>1, <2>2, <2>3 DEF TurnsInv, Pending, Merging
<1> QED
  BY <1>1, <1>2

LEMMA NextKeepsTurns ==
    ASSUME LinusInv, TurnsInv, NumNodes <= 2, [Next]_vars
    PROVE  TurnsInv'
<1>1. CASE Quiet
  <2>1. InStage' => /\ InStage /\ inbox'[Server] = inbox[Server]
                    /\ received'[Server] = received[Server]
                    /\ Merged' = Merged /\ Round' = Round
                    /\ Merging' => Merging
    BY <1>1, OthersMerge DEF Quiet
  <2>2. stage' = stage /\ \A n \in Client : pc'[n] = "users" => pc[n] = "users"
    BY <1>1 DEF Quiet
  <2>3. InStage' /\ Merging' => received'[Server] <= NumNodes - 1
    BY <2>1 DEF TurnsInv
  <2> QED
    BY <2>1, <2>2, <2>3, TurnsStay
<1> QED
  BY <1>1, StepsQuietOrNot, TagTurns, DeltaTurns, MergeTurns, PublishTurns

LEMMA InitTurns ==
    ASSUME Init
    PROVE  TurnsInv
BY ServerAndClients DEF Init, TurnsInv, Pending, Merging

LEMMA TurnsHold ==
    ASSUME NumNodes <= 2
    PROVE  Spec => [](LinusInv /\ TurnsInv)
<1>1. LinusInv /\ TurnsInv /\ [Next]_vars => TurnsInv'
  BY NextKeepsTurns
<1>2. Init => TurnsInv
  BY InitTurns
<1> QED
  BY <1>1, <1>2, LinusInvHolds, PTL DEF Spec

(* With two nodes every merge takes the deltas it is meant to, whichever    *)
(* process is slow or fails (linus.h:295, merge).                           *)
THEOREM MergeTakesItsSet ==
    ASSUME NumNodes <= 2
    PROVE  Spec => MergeGathersItsSet
<1>1. ASSUME LinusInv, TurnsInv, [Next]_vars
      PROVE  [Merging /\ received'[Server] > received[Server] =>
                Head(inbox[Server]).of = pc[Server]]_vars
  <2> SUFFICES ASSUME Merging, received'[Server] > received[Server]
               PROVE  Head(inbox[Server]).of = pc[Server]
    OBVIOUS
  <2>t. /\ TypeOK /\ Server \in Node /\ Client \subseteq Node /\ Server \notin Client
        /\ NumNodes \in Nat \ {0} /\ received \in [Node -> Nat]
    BY <1>1, ServerAndClients DEF LinusInv, TypeOK
  <2>1. MergeDelta /\ ~Fail(Server)
    <3>1. ~Quiet
      BY <2>t DEF Quiet
    <3>2. ASSUME NEW n \in Node, TagProjects(n)
          PROVE  FALSE
      BY <2>t, <3>2 DEF TagProjects
    <3>3. ASSUME NEW n \in Client, SendProjects(n) \/ SendUsers(n), ~Fail(n)
          PROVE  FALSE
      BY <2>t, <3>3 DEF SendProjects, SendUsers, TagUsers
    <3>4. ~PublishProjects /\ ~PublishUsers
      BY <2>t DEF PublishProjects, PublishUsers, TagUsers
    <3> QED
      BY <1>1, <3>1, <3>2, <3>3, <3>4, StepsQuietOrNot
  <2>2. /\ Receive(Server) /\ ~(received[Server] >= NumNodes - 1)
    BY <2>1 DEF MergeDelta, Gathered
  <2>3. Head(inbox[Server]) = inbox[Server][1] /\ 1 \in Pending(Server)
    BY <2>t, <2>2, ReceiveTyped
  <2>4. NumNodes = 2 /\ received[Server] = 0
    BY <2>t, <2>2
  <2>5. Merged + 1 = IF pc[Server] = "projects" THEN 1 ELSE 2
    BY <2>4 DEF Merged, Merging
  <2> QED
    BY <1>1, <2>3, <2>5 DEF TurnsInv, Merging, InStage
<1> QED
  BY <1>1, TurnsHold, PTL DEF Spec, MergeGathersItsSet

---------------------------------------------------------------------------
(* The conversions are exact for every frame of users there can be.         *)
NumbersExact ==
    \A rows \in Nat \ {0} : rows <= NumUsers \/ rows = 1
        => NumChunks(rows) = 1 + ((rows - 1) \div RowsPerChunk)

(* The users dealt to a node are all in its frame or on the way to it.      *)
InMail(n) == UNION {OnTheWay(n, i) : i \in Pending(n)}
Arrived(n) == chunkSoFar[n] \union InMail(n)
Upto == IF pc[Server] = "counts" THEN 0 ELSE next
Receives(n) == IF n = Server THEN pc[n] \in {"counts", "deal"}
                             ELSE stage[n] = Round /\ pc[n] \in {"quota", "take"}
SmallDealt == Dealt \subseteq UserIds \/ Dealt = {LINUS}

ArrivesInv ==
    InStage => /\ SmallDealt
               /\ \A n \in Node : Receives(n) => DealtBefore(n, Upto) \subseteq Arrived(n)

(* A frame that is dealt has a row for node 0's user or for each of some    *)
(* users.                                                                   *)
LEMMA DealtIsSmall ==
    ASSUME SmallDealt
    PROVE  /\ Dealt \subseteq Nat /\ IsFiniteSet(Dealt) /\ Cardinality(Dealt) \in Nat
           /\ Cardinality(Dealt) <= NumUsers \/ Cardinality(Dealt) = 1
<1>1. CASE Dealt \subseteq UserIds
  <2>1. IsFiniteSet(UserIds) /\ Cardinality(UserIds) = NumUsers
    <3>1. 0 \in Int /\ NumUsers - 1 \in Int /\ NumUsers \in Nat
      BY LinusAssumption
    <3> QED
      BY <3>1, FS_Interval DEF UserIds
  <2>2. IsFiniteSet(Dealt) /\ Cardinality(Dealt) <= NumUsers
    BY <1>1, <2>1, FS_Subset
  <2>3. Cardinality(Dealt) \in Nat
    BY <2>2, FS_CardinalityType
  <2> QED
    BY <1>1, <2>2, <2>3, LinusAssumption DEF UserIds
<1>2. CASE Dealt = {LINUS}
  <2>1. IsFiniteSet({LINUS}) /\ Cardinality({LINUS}) = 1
    BY FS_Singleton
  <2>2. {LINUS} \subseteq Nat
    BY LinusAssumption
  <2> QED
    BY <1>2, <2>1, <2>2
<1> QED
  BY <1>1, <1>2 DEF SmallDealt

(* Every user of the frame is in a chunk, and every chunk falls to a node.  *)
LEMMA AllDealt ==
    ASSUME NumbersExact, SmallDealt, NEW id \in Dealt
    PROVE  \E n \in Node : id \in DealtBefore(n, DealtChunks)
<1> DEFINE k == Cardinality(Dealt)
           row == RowOf(id, Dealt)
           below == {i \in Dealt : i < id}
           rest == Dealt \ {id}
           j == row \div RowsPerChunk
<1>1. IsFiniteSet(Dealt) /\ k \in Nat /\ (k <= NumUsers \/ k = 1)
  BY DealtIsSmall
<1>2. below \subseteq rest /\ IsFiniteSet(rest) /\ Cardinality(rest) = k - 1
  BY <1>1, DealtIsSmall, FS_RemoveElement
<1>3. /\ Cardinality(below) <= Cardinality(rest)
      /\ Cardinality(below) \in Nat /\ Cardinality(rest) \in Nat
  BY <1>2, FS_Subset, FS_CardinalityType
<1>4. row = Cardinality(below)
  BY DEF RowOf
<1> HIDE DEF k, row, below, rest
<1>5. row \in Nat /\ k \in Nat \ {0} /\ row <= k - 1 /\ k - 1 \in Nat
  BY <1>1, <1>2, <1>3, <1>4
<1>6. RowsPerChunk \in Nat \ {0}
  BY ChunksAssumption
<1>7. /\ j \in Nat /\ j <= (k - 1) \div RowsPerChunk /\ (k - 1) \div RowsPerChunk \in Nat
      /\ j * RowsPerChunk <= row /\ row < j * RowsPerChunk + RowsPerChunk
  BY <1>5, <1>6, DivRange, DivGrows
<1>8. NumChunks(k) = 1 + ((k - 1) \div RowsPerChunk)
  BY <1>1, <1>5 DEF NumbersExact
<1>9. DealtChunks = 1 + ((k - 1) \div RowsPerChunk)
  BY <1>7, <1>8 DEF DealtChunks, k
<1> HIDE DEF j
<1>10. j \in 0 .. DealtChunks - 1
  BY <1>7, <1>9
<1>11. (j + 1) * RowsPerChunk = j * RowsPerChunk + RowsPerChunk
  BY <1>6, <1>7
<1>12. row \in Chunk(j, 0 .. k - 1)
  BY <1>5, <1>7, <1>11 DEF Chunk
<1>13. id \in DealtChunk(j)
  BY <1>12 DEF DealtChunk, InRows, row, k
<1>14. j % NumNodes \in Node
  BY <1>7, TurnFollows
<1> QED
  BY <1>10, <1>13, <1>14 DEF DealtBefore

(* Mail that is appended is added to what was on the way; what is taken is  *)
(* the first of it.                                                         *)
LEMMA MailGrows ==
    ASSUME TypeOK, NEW n \in Node, NEW to \in Node, NEW msg, Send(n, to, msg)
    PROVE  /\ \A m \in Node : InMail(m) \subseteq InMail(m)'
           /\ msg.kind = "chunk" => msg.ids \subseteq InMail(to)'
<1>1. /\ Len(inbox[to]) \in Nat
      /\ Len(inbox'[to]) = Len(inbox[to]) + 1
      /\ \A i \in 1 .. Len(inbox[to]) : inbox'[to][i] = inbox[to][i]
      /\ inbox'[to][Len(inbox[to]) + 1] = msg
      /\ \A m \in Node : m # to => inbox'[m] = inbox[m]
  BY SendAppends
<1>2. ASSUME NEW m \in Node, NEW i \in Pending(m)
      PROVE  i \in Pending(m)' /\ OnTheWay(m, i)' = OnTheWay(m, i)
  BY <1>1, <1>2 DEF Pending, OnTheWay, Carries
<1>3. PICK last \in Nat : last = Len(inbox[to]) + 1
  BY <1>1
<1>4. /\ last \in Pending(to)'
      /\ msg.kind = "chunk" => OnTheWay(to, last)' = msg.ids
  BY <1>1, <1>3 DEF Pending, OnTheWay, Carries
<1>5. \A m \in Node : InMail(m) \subseteq InMail(m)'
  BY <1>2 DEF InMail
<1>6. msg.kind = "chunk" => msg.ids \subseteq InMail(to)'
  BY <1>4 DEF InMail
<1> QED
  BY <1>5, <1>6

LEMMA MailShrinks ==
    ASSUME TypeOK, NEW n \in Node, Receive(n)
    PROVE  /\ InMail(n) \subseteq InMail(n)' \union Carries(n, 1, "chunk")
           /\ \A m \in Node : m # n => InMail(m)' = InMail(m)
<1>1. /\ Len(inbox[n]) \in Nat \ {0}
      /\ Len(inbox'[n]) = Len(inbox[n]) - 1
      /\ \A i \in 1 .. Len(inbox'[n]) : inbox'[n][i] = inbox[n][i + 1]
      /\ \A m \in Node : m # n => inbox'[m] = inbox[m]
  BY ReceiveTakes
<1>2. ASSUME NEW i \in Pending(n), i # 1
      PROVE  \E j \in Pending(n)' : OnTheWay(n, j)' = OnTheWay(n, i)
  <2>1. i - 1 \in Pending(n)' /\ inbox'[n][i - 1] = inbox[n][(i - 1) + 1] /\ (i - 1) + 1 = i
    BY <1>1, <1>2 DEF Pending
  <2>2. OnTheWay(n, i - 1)' = OnTheWay(n, i)
    BY <2>1 DEF OnTheWay, Carries
  <2> QED
    BY <2>1, <2>2
<1>3. OnTheWay(n, 1) = Carries(n, 1, "chunk")
  BY DEF OnTheWay
<1>4. InMail(n) \subseteq InMail(n)' \union Carries(n, 1, "chunk")
  <2>1. ASSUME NEW id \in InMail(n)
        PROVE  id \in InMail(n)' \union Carries(n, 1, "chunk")
    <3>1. PICK i \in Pending(n) : id \in OnTheWay(n, i)
      BY DEF InMail
    <3>2. CASE i = 1
      BY <1>3, <3>1, <3>2
    <3>3. CASE i # 1
      <4>1. PICK j \in Pending(n)' : OnTheWay(n, j)' = OnTheWay(n, i)
        BY <1>2, <3>3
      <4> QED
        BY <3>1, <4>1 DEF InMail
    <3> QED
      BY <3>2, <3>3
  <2> QED
    BY <2>1
<1> QED
  BY <1>1, <1>4 DEF InMail, Pending, OnTheWay, Carries

(* Steps that deal no users.                                                *)
LEMMA ArrivedStays ==
    ASSUME ArrivesInv,
           InStage' => /\ InStage /\ Dealt' = Dealt /\ Upto' = Upto
                       /\ \A n \in Node : Receives(n)' =>
                             Receives(n) /\ Arrived(n) \subseteq Arrived(n)'
    PROVE  ArrivesInv'
<1> SUFFICES ASSUME InStage'
             PROVE  /\ SmallDealt'
                    /\ \A n \in Node : Receives(n)' =>
                          (DealtBefore(n, Upto) \subseteq Arrived(n))'
  BY DEF ArrivesInv
<1>1. SmallDealt'
  BY DEF ArrivesInv, SmallDealt
<1>2. \A n : DealtBefore(n, Upto)' = DealtBefore(n, Upto)
  BY DEF DealtBefore, DealtChunk
<1> QED
  BY <1>1, <1>2 DEF ArrivesInv

LEMMA EndArrived ==
    ASSUME LinusInv, ArrivesInv, NEW n \in Node, NEW label \in {"done", "failed"},
           End(n, label)
    PROVE  ArrivesInv'
<1>t. TypeOK /\ Server \in Node /\ Client \subseteq Node
  BY ServerAndClients DEF LinusInv
<1>1. /\ pc' = [pc EXCEPT ![n] = label] /\ inbox' = [inbox EXCEPT ![n] = << >>]
      /\ stage' = stage /\ next' = next /\ kv' = kv /\ chunkSoFar' = chunkSoFar
  BY DEF End, Goto, CloseSocket, dealVars
<1>2. /\ \A m \in Node : m # n => pc'[m] = pc[m] /\ inbox'[m] = inbox[m]
      /\ pc'[n] = label
  BY <1>t, <1>1 DEF TypeOK
<1>3. ASSUME InStage'
      PROVE  InStage /\ Dealt' = Dealt /\ Upto' = Upto
  BY <1>t, <1>1, <1>2, <1>3 DEF InStage, Dealt, Upto
<1>4. ASSUME NEW m \in Node, Receives(m)'
      PROVE  Receives(m) /\ Arrived(m)' = Arrived(m)
  <2>1. m # n
    BY <1>2, <1>4 DEF Receives
  <2>2. pc'[m] = pc[m] /\ inbox'[m] = inbox[m]
    BY <1>2, <2>1
  <2> QED
    BY <1>1, <1>4, <2>2
       DEF Receives, Arrived, InMail, Pending, OnTheWay, Carries, Round
<1> QED
  BY <1>3, <1>4, ArrivedStays

(* A message with no users in it.                                           *)
LEMMA SendArrived ==
    ASSUME LinusInv, ArrivesInv, NEW n \in Node, NEW to \in Node, NEW msg,
           Send(n, to, msg), chunkSoFar' = chunkSoFar, kv'[Server] = kv[Server],
           pc'[Server] = pc[Server], stage'[Server] = stage[Server], Upto' = Upto,
           \A m \in Client : Receives(m)' => Receives(m)
    PROVE  ArrivesInv'
<1>t. TypeOK
  BY DEF LinusInv
<1>1. InStage' => InStage /\ Dealt' = Dealt
  BY DEF InStage, Dealt
<1>2. \A m \in Node : Arrived(m) \subseteq Arrived(m)'
  BY <1>t, MailGrows DEF Arrived
<1>3. \A m \in Node : Receives(m)' => Receives(m)
  BY ServerAndClients DEF Receives
<1> QED
  BY <1>1, <1>2, <1>3, ArrivedStays

LEMMA TakeArrived ==
    ASSUME LinusInv, ArrivesInv, NEW n \in Client, TakeQuota(n) \/ TakeChunk(n)
    PROVE  ArrivesInv'
<1>t. /\ TypeOK /\ ClientInv(n) /\ n # Server /\ n \in Node /\ Server \in Node
  BY ServerAndClients DEF LinusInv
<1>f. CASE Fail(n)
  BY <1>t, <1>f, EndArrived DEF Fail
<1>1. CASE ~Fail(n)
  <2>1. /\ Receive(n) /\ pc[n] \in {"quota", "take"} /\ pc'[n] = "take"
        /\ \A m \in Node : m # n => pc'[m] = pc[m] /\ chunkSoFar'[m] = chunkSoFar[m]
        /\ stage' = stage /\ next' = next /\ kv' = kv
        /\ \/ pc[n] = "take" /\ chunkSoFar'[n] = chunkSoFar[n] \union Head(inbox[n]).ids
           \/ pc[n] = "quota" /\ chunkSoFar'[n] = chunkSoFar[n]
    BY <1>t, <1>1 DEF TakeQuota, TakeChunk, Goto, TypeOK
  <2>2. Head(inbox[n]) = inbox[n][1] /\ 1 \in Pending(n) /\ inbox[n] # << >>
    BY <1>t, <2>1, ReceiveTyped DEF Receive
  <2>3. Carries(n, 1, "chunk") \subseteq chunkSoFar'[n]
    <3>1. CASE pc[n] = "take"
      BY <2>1, <2>2, <3>1 DEF Carries
    <3>2. CASE pc[n] = "quota"
      <4>1. inbox[n][1].kind = "count"
        BY <1>t, <2>2, <3>2 DEF ClientInv, Waits
      <4> QED
        BY <4>1 DEF Carries
    <3> QED
      BY <2>1, <3>1, <3>2
  <2>4. /\ InMail(n) \subseteq InMail(n)' \union Carries(n, 1, "chunk")
        /\ \A m \in Node : m # n => InMail(m)' = InMail(m)
    BY <1>t, <2>1, MailShrinks
  <2>5. \A m \in Node : Arrived(m) \subseteq Arrived(m)'
    <3>1. chunkSoFar[n] \subseteq chunkSoFar'[n]
      BY <2>1
    <3> QED
      BY <2>1, <2>3, <2>4, <3>1 DEF Arrived
  <2>6. \A m \in Node : Receives(m)' => Receives(m)
    BY <1>t, <2>1 DEF Receives, Round
  <2>7. InStage' => InStage /\ Dealt' = Dealt /\ Upto' = Upto
    BY <1>t, <2>1 DEF InStage, Dealt, Upto
  <2> QED
    BY <2>5, <2>6, <2>7, ArrivedStays
<1> QED
  BY <1>f, <1>1

(* Node 0 deals one more chunk.                                             *)
LEMMA DealArrived ==
    ASSUME LinusInv, ArrivesInv, ChunkFits, DealKeep \/ DealSend
    PROVE  ArrivesInv'
<1>r. PICK t \in Node : t = round2
  BY DEF LinusInv, TypeOK
<1>t. /\ TypeOK /\ ServerInv /\ Server \in Node
      /\ pc[Server] = "deal" /\ InStage /\ next \in Nat /\ t = next % NumNodes
  BY <1>r, ServerAndClients DEF LinusInv, ServerInv, TypeOK, InStage, DealKeep, DealSend
<1>f. CASE Fail(Server)
  BY <1>t, <1>f, EndArrived DEF Fail
<1>1. CASE ~Fail(Server)
  <2>1. pc' = pc /\ stage' = stage /\ kv' = kv /\ next' = next + 1
    BY <1>1 DEF DealKeep, DealSend
  <2>2. /\ InStage' /\ Dealt' = Dealt /\ Upto = next /\ Upto' = next + 1
        /\ \A m : Receives(m)' <=> Receives(m)
    BY <1>t, <2>1 DEF InStage, Dealt, Upto, Receives, Round
  <2>3. ASSUME NEW m \in Node
        PROVE  DealtBefore(m, Upto)' = DealtBefore(m, next)
                   \union (IF m = t THEN DealtChunk(next) ELSE {})
    <3>1. DealtBefore(m, Upto)' = DealtBefore(m, next + 1)
      BY <2>2 DEF DealtBefore, DealtChunk
    <3>2. (0 .. (next + 1) - 1) = (0 .. next - 1) \union {next}
      BY <1>t
    <3> QED
      BY <1>t, <3>1, <3>2 DEF DealtBefore
  <2>4. DealtChunk(next) \subseteq Arrived(t)'
        /\ \A m \in Node : Arrived(m) \subseteq Arrived(m)'
    <3>1. CASE DealKeep
      <4>1. /\ inbox' = inbox /\ t = Server
            /\ chunkSoFar' = [chunkSoFar EXCEPT ![Server] = @ \union DealtChunk(next)]
        BY <1>r, <3>1 DEF DealKeep, netVars
      <4>2. \A m \in Node : chunkSoFar[m] \subseteq chunkSoFar'[m]
        BY <1>t, <4>1 DEF TypeOK
      <4>3. DealtChunk(next) \subseteq chunkSoFar'[t]
        BY <1>t, <4>1 DEF TypeOK
      <4>4. \A m \in Node : InMail(m)' = InMail(m)
        BY <4>1 DEF InMail, Pending, OnTheWay, Carries
      <4> QED
        BY <4>2, <4>3, <4>4 DEF Arrived
    <3>2. CASE DealSend
      <4>0. Carried(DealtChunk(next)) = {DealtChunk(next)}
        BY <3>2, AllCarried DEF DealSend, ChunkFits
      <4>1. Send(Server, t, ChunkMsg(DealtChunk(next))) /\ chunkSoFar' = chunkSoFar
        BY <1>r, <1>1, <3>2, <4>0 DEF DealSend
      <4>2. /\ ChunkMsg(DealtChunk(next)).kind = "chunk"
            /\ ChunkMsg(DealtChunk(next)).ids = DealtChunk(next)
        BY DEF ChunkMsg
      <4>3. /\ \A m \in Node : InMail(m) \subseteq InMail(m)'
            /\ DealtChunk(next) \subseteq InMail(t)'
        BY <1>t, <4>1, <4>2, MailGrows
      <4> QED
        BY <4>1, <4>3 DEF Arrived
    <3> QED
      BY <3>1, <3>2
  <2>5. SmallDealt'
    BY <1>t, <2>2 DEF ArrivesInv, SmallDealt
  <2>6. ASSUME NEW m \in Node, Receives(m)'
        PROVE  DealtBefore(m, Upto)' \subseteq Arrived(m)'
    <3>1. DealtBefore(m, next) \subseteq Arrived(m)
      BY <1>t, <2>2, <2>6 DEF ArrivesInv
    <3> QED
      BY <2>3, <2>4, <3>1
  <2> QED
    BY <2>5, <2>6 DEF ArrivesInv
<1> QED
  BY <1>f, <1>1

LEMMA ServerArrived ==
    ASSUME LinusInv, ArrivesInv,
           \/ SendCount \/ CountsSent \/ MergeDelta
           \/ PublishProjects \/ PublishUsers \/ TagProjects(Server)
    PROVE  ArrivesInv'
<1>t. /\ TypeOK /\ ServerInv /\ Server \in Node /\ Client \subseteq Node
      /\ Server \notin Client /\ Role(Server)
  BY ServerAndClients DEF LinusInv
<1>f. CASE Fail(Server)
  BY <1>t, <1>f, EndArrived DEF Fail
<1>1. CASE SendCount /\ ~Fail(Server)
  <2>1. /\ pc[Server] = "counts" /\ next \in Node
        /\ Send(Server, next, CountMsg(Share(next, DealtChunks, NumNodes)))
        /\ chunkSoFar' = chunkSoFar /\ kv' = kv /\ pc' = pc /\ stage' = stage
    BY <1>t, <1>1, NumNodesAssumption DEF SendCount, ServerInv, Node
  <2>2. Upto' = Upto /\ \A m : Receives(m)' => Receives(m)
    BY <2>1 DEF Upto, Receives, Round
  <2> QED
    BY <1>t, <2>1, <2>2, SendArrived
<1>2. CASE CountsSent \/ TagProjects(Server) \/ PublishProjects
  <2>1. /\ inbox' = inbox /\ stage' = stage
        /\ \A m \in Client : pc'[m] = pc[m] /\ chunkSoFar'[m] = chunkSoFar[m]
        /\ pc[Server] \in {"counts", "deal", "projects"}
        /\ \/ pc'[Server] \in {"projects", "users"} /\ next' = next /\ pc[Server] # "counts"
           \/ /\ pc[Server] = "counts" /\ pc'[Server] = "deal" /\ next' = 0
              /\ chunkSoFar'[Server] = chunkSoFar[Server]
    BY <1>t, <1>2 DEF CountsSent, TagProjects, PublishProjects, TagUsers, Goto, TypeOK,
       netVars, dealVars, Role
  <2>2. Dealt' = Dealt
    <3>1. CASE CountsSent \/ TagProjects(Server)
      BY <3>1 DEF CountsSent, TagProjects, Dealt
    <3>2. CASE PublishProjects
      <4>1. Put(Server, <<"projects", stage[Server]>>, newProjects[Server])
        BY <3>2 DEF PublishProjects
      <4>2. <<"users", stage[Server]>> # <<"projects", stage[Server]>>
        OBVIOUS
      <4> QED
        BY <1>t, <2>1, <4>1, <4>2, PutServer DEF Dealt, ServerInv, Round
    <3> QED
      BY <1>2, <3>1, <3>2
  <2>3. InStage /\ Upto' = Upto
    BY <2>1 DEF InStage, Upto
  <2>4. \A m \in Node : InMail(m)' = InMail(m)
    BY <2>1 DEF InMail, Pending, OnTheWay, Carries
  <2>5. ASSUME NEW m \in Node, Receives(m)'
        PROVE  Receives(m) /\ chunkSoFar'[m] = chunkSoFar[m]
    BY <1>t, <2>1, <2>5, ServerAndClients DEF Receives, Round
  <2> QED
    BY <2>2, <2>3, <2>4, <2>5, ArrivedStays DEF Arrived
<1>3. CASE MergeDelta /\ ~Fail(Server)
  <2>1. /\ pc[Server] \in {"projects", "users"} /\ Receive(Server)
        /\ pc' = pc /\ stage' = stage /\ kv' = kv /\ next' = next
        /\ chunkSoFar' = chunkSoFar
    BY <1>3 DEF MergeDelta, Merging, dealVars
  <2>2. InStage /\ Dealt' = Dealt /\ Upto' = Upto
    BY <2>1 DEF InStage, Dealt, Upto
  <2>3. ASSUME NEW m \in Node, Receives(m)'
        PROVE  Receives(m) /\ m # Server
    BY <2>1, <2>3 DEF Receives, Round
  <2>4. \A m \in Node : m # Server => InMail(m)' = InMail(m)
    BY <1>t, <2>1, MailShrinks
  <2> QED
    BY <2>1, <2>2, <2>3, <2>4, ArrivedStays DEF Arrived
<1>4. CASE PublishUsers
  <2>1. /\ Put(Server, <<"users", stage[Server] + 1>>, newUsers[Server])
        /\ stage'[Server] = stage[Server] + 1
        /\ pc'[Server] \in {"leave", "counts"}
    BY <1>t, <1>4 DEF PublishUsers, EndStage, After, Goto, TypeOK
  <2>2. Dealt' = newUsers[Server] /\ newUsers[Server] \subseteq UserIds
    BY <1>t, <2>1, PutServer DEF Dealt, TypeOK
  <2>3. InStage' => Upto' = 0
    BY <2>1 DEF InStage, Upto
  <2>4. \A m : InStage' => DealtBefore(m, Upto)' = {}
    BY <2>3 DEF DealtBefore
  <2> QED
    BY <2>2, <2>4 DEF ArrivesInv, SmallDealt
<1> QED
  BY <1>f, <1>1, <1>2, <1>3, <1>4

LEMMA ClientArrived ==
    ASSUME LinusInv, ArrivesInv, NEW n \in Client,
           TagProjects(n) \/ SendProjects(n) \/ SendUsers(n)
    PROVE  ArrivesInv'
<1>t. /\ TypeOK /\ ClientInv(n) /\ n # Server /\ n \in Node /\ Server \in Node
  BY ServerAndClients DEF LinusInv
<1>f. CASE Fail(n)
  BY <1>t, <1>f, EndArrived DEF Fail
<1>1. CASE TagProjects(n)
  <2>1. /\ inbox' = inbox /\ stage' = stage /\ next' = next /\ kv' = kv
        /\ pc'[n] = "projects"
        /\ \A m \in Node : m # n => pc'[m] = pc[m] /\ chunkSoFar'[m] = chunkSoFar[m]
    BY <1>t, <1>1 DEF TagProjects, Goto, TypeOK, netVars
  <2>2. InStage' => InStage /\ Dealt' = Dealt /\ Upto' = Upto
    BY <1>t, <2>1 DEF InStage, Dealt, Upto
  <2>3. \A m \in Node : Receives(m)' => m # n /\ Receives(m)
    BY <1>t, <2>1 DEF Receives, Round
  <2>4. \A m \in Node : InMail(m)' = InMail(m)
    BY <2>1 DEF InMail, Pending, OnTheWay, Carries
  <2> QED
    BY <2>1, <2>2, <2>3, <2>4, ArrivedStays DEF Arrived
<1>2. CASE (SendProjects(n) \/ SendUsers(n)) /\ ~Fail(n)
  <2>1. PICK msg : Send(n, Server, msg)
    BY <1>2 DEF SendProjects, SendUsers
  <2>2. /\ chunkSoFar' = chunkSoFar /\ next' = next
        /\ \A m \in Node : m # n => pc'[m] = pc[m] /\ stage'[m] = stage[m]
        /\ kv'[Server] = kv[Server]
        /\ pc'[n] = "users" \/ stage'[n] = stage[n] + 1
    BY <1>t, <1>2 DEF SendProjects, SendUsers, TagUsers, EndStage, Put, Goto, TypeOK, dealVars
  <2>3. stage[n] = Round /\ Round' = Round /\ Round \in Nat
    BY <1>t, <1>2, <2>2, RoundTyped DEF SendProjects, SendUsers, ClientInv, Sends, Round
  <2>4. Upto' = Upto
    BY <1>t, <2>2 DEF Upto
  <2>5. \A m \in Client : Receives(m)' => Receives(m)
    <3>1. ~Receives(n)'
      BY <1>t, <2>2, <2>3 DEF Receives
    <3>2. \A m \in Client : m # n => pc'[m] = pc[m] /\ stage'[m] = stage[m]
      BY <2>2, ServerAndClients
    <3> QED
      BY <2>3, <3>1, <3>2, ServerAndClients DEF Receives
  <2> QED
    BY <1>t, <2>1, <2>2, <2>4, <2>5, SendArrived
<1> QED
  BY <1>f, <1>1, <1>2

LEMMA NextKeepsArrived ==
    ASSUME LinusInv, ArrivesInv, ChunkFits, [Next]_vars
    PROVE  ArrivesInv'
<1>1. CASE UNCHANGED vars
  BY <1>1, ArrivedStays
     DEF vars, netVars, dealVars, InStage, Dealt, Upto, Receives, Arrived, InMail, Pending,
         OnTheWay, Carries, Round
<1>2. ASSUME NEW n \in Node, Leave(n)
      PROVE  ArrivesInv'
  BY <1>2, EndArrived DEF Leave, Fail
<1> QED
  BY <1>1, <1>2, ServerAndClients, TakeArrived, DealArrived, ServerArrived, ClientArrived
     DEF Next, Step, ServerStep, ClientStep, Finished

LEMMA InitArrived ==
    ASSUME Init
    PROVE  ArrivesInv
<1>1. InStage => Upto = 0
  BY ServerAndClients DEF Init, InStage, Upto
<1>2. Dealt = {LINUS}
  BY ServerAndClients DEF Init, Dealt
<1>3. InStage => \A n : DealtBefore(n, Upto) = {}
  BY <1>1 DEF DealtBefore
<1> QED
  BY <1>2, <1>3 DEF ArrivesInv, SmallDealt

---------------------------------------------------------------------------
(* What the nodes tag, when no commit names a user or a project that the    *)
(* frames do not have.                                                      *)
CommitsInRange == \A cs \in CommitSets : cs \subseteq ProjectIds \X UserIds

LEMMA TagsByUsers ==
    ASSUME TypeOK, CommitsInRange, NEW n \in Node, NEW delta \in SUBSET UserIds
    PROVE  TaggedProjects(n, delta) = Circle!ProjectsOf(delta) \ pSet[n]
<1>1. commits \subseteq ProjectIds \X UserIds
  BY DEF TypeOK, CommitsInRange
<1>2. ASSUME NEW p \in ProjectIds
      PROVE  (\E c \in commits : c[1] = p /\ Test(c[2], delta, UserIds))
                <=> (\E u \in delta : <<p, u>> \in commits)
  <2>1. ASSUME NEW c \in commits, c[1] = p, Test(c[2], delta, UserIds)
        PROVE  \E u \in delta : <<p, u>> \in commits
    BY <1>1, <2>1 DEF Test
  <2>2. ASSUME NEW u \in delta, <<p, u>> \in commits
        PROVE  \E c \in commits : c[1] = p /\ Test(c[2], delta, UserIds)
    BY <2>2 DEF Test
  <2> QED
    BY <2>1, <2>2
<1>3. \A p \in ProjectIds : Test(p, pSet[n], ProjectIds) <=> p \in pSet[n]
  BY DEF Test
<1> QED
  BY <1>2, <1>3 DEF TaggedProjects, Circle!ProjectsOf

LEMMA TagsByProjects ==
    ASSUME TypeOK, CommitsInRange, NEW n \in Node, NEW ps \in SUBSET ProjectIds
    PROVE  TaggedUsers(n, ps, "intact") = Circle!AuthorsOf(ps) \ uSet[n]
<1>1. commits \subseteq ProjectIds \X UserIds
  BY DEF TypeOK, CommitsInRange
<1>2. ASSUME NEW u \in UserIds
      PROVE  (\E c \in commits : c[2] = u /\ Test(c[1], ps, ProjectIds))
                <=> (\E p \in ps : <<p, u>> \in commits)
  <2>1. ASSUME NEW c \in commits, c[2] = u, Test(c[1], ps, ProjectIds)
        PROVE  \E p \in ps : <<p, u>> \in commits
    BY <1>1, <2>1 DEF Test
  <2>2. ASSUME NEW p \in ps, <<p, u>> \in commits
        PROVE  \E c \in commits : c[2] = u /\ Test(c[1], ps, ProjectIds)
    BY <2>2 DEF Test
  <2> QED
    BY <2>1, <2>2
<1>3. \A u \in UserIds : Test(u, uSet[n], UserIds) <=> u \in uSet[n]
  BY DEF Test
<1> QED
  BY <1>2, <1>3 DEF TaggedUsers, Circle!AuthorsOf

(* What a node tags of the users reaches no further than this, whether the  *)
(* freed set of projects is still there or has been recycled.               *)
Reach(ps) ==
    IF "recycled" \in StaleSet THEN Circle!Committers ELSE Circle!AuthorsOf(ps)

LEMMA ReachGrows ==
    /\ \A ps : Circle!AuthorsOf(ps) \subseteq Reach(ps) /\ Reach(ps) \subseteq UserIds
    /\ \A A, B : A \subseteq B => Reach(A) \subseteq Reach(B)
<1>1. \A ps : Circle!AuthorsOf(ps) \subseteq Circle!Committers
  BY DEF Circle!AuthorsOf, Circle!Committers
<1>2. Circle!Committers \subseteq UserIds /\ \A ps : Circle!AuthorsOf(ps) \subseteq UserIds
  BY DEF Circle!AuthorsOf, Circle!Committers
<1>3. \A A, B : A \subseteq B => Circle!AuthorsOf(A) \subseteq Circle!AuthorsOf(B)
  BY DEF Circle!AuthorsOf
<1> QED
  BY <1>1, <1>2, <1>3 DEF Reach

LEMMA TagsReach ==
    ASSUME TypeOK, CommitsInRange, NEW n \in Node, NEW ps \in SUBSET ProjectIds,
           TagUsers(n, ps)
    PROVE  /\ newUsers'[n] \subseteq Reach(ps)
           /\ Circle!AuthorsOf(ps) \subseteq uSet[n] \union newUsers'[n]
<1>1. PICK set \in StaleSet :
         newUsers' = [newUsers EXCEPT ![n] = TaggedUsers(n, ps, set)]
  BY DEF TagUsers
<1>2. newUsers'[n] = TaggedUsers(n, ps, set)
  BY <1>1 DEF TypeOK
<1>3. CASE set = "intact"
  BY <1>2, <1>3, TagsByProjects, ReachGrows
<1>4. CASE set = "recycled"
  <2>1. TaggedUsers(n, ps, "recycled") = Circle!Committers \ uSet[n]
    BY DEF TaggedUsers, Test, Circle!Committers
  <2>2. Reach(ps) = Circle!Committers
    BY <1>1, <1>4 DEF Reach
  <2> QED
    BY <1>2, <1>4, <2>1, <2>2, ReachGrows
<1> QED
  BY <1>3, <1>4, LinusAssumption

(* The share of a node, and that it has all of it when it tags.             *)
DealtUsers == Dealt \intersect UserIds
ShareOf(n) == DealtBefore(n, DealtChunks) \intersect UserIds

LEMMA SameTurns ==
    ASSUME NEW n, NEW a \in Nat, NEW b \in Nat, a <= b,
           Share(n, a, NumNodes) = Share(n, b, NumNodes)
    PROVE  DealtBefore(n, a) = DealtBefore(n, b)
<1> DEFINE A == {c \in 0 .. a - 1 : c % NumNodes = n}
           B == {c \in 0 .. b - 1 : c % NumNodes = n}
<1>1. A \subseteq B
  OBVIOUS
<1>2. IsFiniteSet(B)
  BY TurnsFinite
<1>3. Cardinality(A) = Cardinality(B)
  BY DEF Share
<1>4. A = B
  BY <1>1, <1>2, <1>3, FS_Subset
<1> QED
  BY <1>4 DEF DealtBefore

LEMMA ChunksInDealt ==
    \A n, k : DealtBefore(n, k) \subseteq Dealt
BY DEF DealtBefore, DealtChunk, InRows

LEMMA ClientHasShare ==
    ASSUME LinusInv, DealInv, ArrivesInv, InStage, NEW n \in Client,
           pc[n] = "take", received[n] >= quota[n]
    PROVE  /\ chunkSoFar[n] \intersect UserIds \subseteq DealtUsers
           /\ ShareOf(n) \subseteq chunkSoFar[n] \intersect UserIds
<1>t. /\ TypeOK /\ ServerInv /\ ClientInv(n) /\ HeldInTurn(n) /\ n \in Node /\ n # Server
      /\ Server \in Node
  BY ServerAndClients DEF LinusInv, DealInv
<1>1. /\ stage[n] = Round /\ quota[n] = Due(n)
      /\ received[n] + Len(inbox[n]) = Given(n)
      /\ Len(inbox[n]) <= quota[n] - received[n]
  BY <1>t DEF ClientInv, Takes
<1>2. /\ Len(inbox[n]) \in Nat /\ received[n] \in Nat /\ quota[n] \in Nat
      /\ inbox[n] \in Seq(Message)
  BY <1>t DEF TypeOK
<1>3. Len(inbox[n]) = 0 /\ Given(n) = Due(n)
  BY <1>1, <1>2
<1>4. Upto \in Nat /\ DealtChunks \in Nat /\ Upto <= DealtChunks
  <2>1. next \in Nat /\ DealtChunks \in Nat
    BY <1>t, DealtChunksTyped DEF TypeOK
  <2>2. pc[Server] # "counts" => next <= DealtChunks
    BY <1>t, <2>1 DEF InStage, ServerInv
  <2> QED
    BY <2>1, <2>2 DEF Upto
<1>5. Given(n) = Share(n, Upto, NumNodes)
  <2>1. {c \in 0 .. 0 - 1 : c % NumNodes = n} = {}
    OBVIOUS
  <2>2. Share(n, 0, NumNodes) = 0
    BY <2>1, FS_EmptySet DEF Share
  <2> QED
    BY <2>2 DEF Given, Upto
<1>6. DealtBefore(n, Upto) = DealtBefore(n, DealtChunks)
  BY <1>3, <1>4, <1>5, SameTurns DEF Due
<1>7. InMail(n) = {}
  BY <1>3 DEF InMail, Pending
<1>8. DealtBefore(n, Upto) \subseteq chunkSoFar[n]
  BY <1>t, <1>1, <1>7 DEF ArrivesInv, Receives, Arrived
<1>9. chunkSoFar[n] \subseteq Dealt
  BY <1>t, ChunksInDealt DEF HeldInTurn
<1> QED
  BY <1>6, <1>8, <1>9 DEF ShareOf, DealtUsers

LEMMA ServerHasShare ==
    ASSUME LinusInv, DealInv, ArrivesInv, pc[Server] = "deal", next >= DealtChunks
    PROVE  /\ chunkSoFar[Server] \intersect UserIds \subseteq DealtUsers
           /\ ShareOf(Server) \subseteq chunkSoFar[Server] \intersect UserIds
<1>t. /\ TypeOK /\ ServerInv /\ DeltasOfStage /\ HeldInTurn(Server) /\ Server \in Node
      /\ InStage
  BY ServerAndClients DEF LinusInv, DealInv, InStage
<1>1. DealtChunks \in Nat /\ next = DealtChunks /\ Upto = next
  BY <1>t, DealtChunksTyped DEF ServerInv, Upto
<1>2. InMail(Server) = {}
  BY <1>t DEF InMail, OnTheWay, Carries, DeltasOfStage
<1>3. DealtBefore(Server, DealtChunks) \subseteq chunkSoFar[Server]
  BY <1>t, <1>1, <1>2 DEF ArrivesInv, Receives, Arrived
<1>4. chunkSoFar[Server] \subseteq Dealt
  BY <1>t, ChunksInDealt DEF HeldInTurn
<1> QED
  BY <1>3, <1>4 DEF ShareOf, DealtUsers

---------------------------------------------------------------------------
(* The circle so far is closed but for the users node 0 deals; what a node  *)
(* has tagged of the stage, is under way and is merged lies between the     *)
(* share of the node and the next circle.                                   *)
Basis ==
    /\ Circle!AuthorsOf(PublishedProjects) \subseteq PublishedUsers
    /\ PublishedUsers \subseteq Reach(PublishedProjects)
    /\ PublishedProjects \subseteq Circle!ProjectsOf(Circle!Known)
    /\ Circle!ProjectsOf(Circle!Known \ Dealt) \subseteq PublishedProjects
    /\ DealtUsers \subseteq Circle!Known

DeltasOf(n) ==
    \A i \in Pending(Server) :
        inbox[Server][i].ids = IF Merged + i = 1 THEN newProjects[n] ELSE newUsers[n]

CoversShare(n) ==
    /\ newProjects[n] \subseteq Circle!ProjectsOf(DealtUsers)
    /\ Circle!ProjectsOf(ShareOf(n)) \subseteq PublishedProjects \union newProjects[n]

ClientFound(n) ==
    /\ Receives(n) => pSet[n] \subseteq PublishedProjects
    /\ pc[n] # "failed" => pSet[n] \subseteq PublishedProjects \union newProjects[n]
    /\ Sent # 0 \/ pc[n] = "projects" => CoversShare(n)
    /\ Sent # 0 => newUsers[n] \subseteq Reach(newProjects[n])

ProjectsFound ==
    pc[Server] = "projects" =>
        /\ CoversShare(Server)
        /\ Merged # 0 => \A n \in Client : newProjects[n] \subseteq newProjects[Server]

UsersFound ==
    pc[Server] = "users" =>
        /\ Latest \subseteq Circle!ProjectsOf(DealtUsers)
        /\ Circle!ProjectsOf(DealtUsers) \subseteq PublishedProjects \union Latest
        /\ newUsers[Server] \subseteq Reach(Latest)
        /\ Circle!AuthorsOf(Latest) \subseteq PublishedUsers \union newUsers[Server]
        /\ \A n \in Client : newProjects[n] \subseteq Latest

FoundInv ==
    InStage => /\ Basis
               /\ ProjectsFound
               /\ UsersFound
               /\ \A n \in Client : DeltasOf(n) /\ ClientFound(n)

(* The hypotheses of the proof about the program and its input; and, of a   *)
(* run, that no column it sends is longer than its line buffer.             *)
TwoNodesExact == NumNodes <= 2 /\ CommitsInRange /\ NumbersExact

NothingCut ==
    /\ ChunkFits
    /\ \A n \in Client :
          /\ pc[n] = "projects" => Cardinality(newProjects[n]) <= LineRows
          /\ pc[n] = "users" => Cardinality(newUsers[n]) <= LineRows

AnswerInv == LinusInv /\ DealInv /\ SetsInv /\ TurnsInv /\ ArrivesInv /\ FoundInv

(* The circle so far and what is dealt stay with the frames they are in, as *)
(* they do in every step that publishes nothing.                            *)
LEMMA SameFrames ==
    ASSUME commits' = commits, Round' = Round, Dealt' = Dealt,
           PublishedUsers' = PublishedUsers, PublishedProjects' = PublishedProjects
    PROVE  /\ DealtUsers' = DealtUsers /\ Circle!Known' = Circle!Known
           /\ \A n : ShareOf(n)' = ShareOf(n)
           /\ Basis' <=> Basis
           /\ Circle!ProjectsOf(DealtUsers)' = Circle!ProjectsOf(DealtUsers)
           /\ \A n : Circle!ProjectsOf(ShareOf(n))' = Circle!ProjectsOf(ShareOf(n))
           /\ \A ps : Circle!AuthorsOf(ps)' = Circle!AuthorsOf(ps)
           /\ \A ps : Reach(ps)' = Reach(ps)
<1>1. /\ DealtUsers' = DealtUsers /\ Circle!Known' = Circle!Known
      /\ \A n : ShareOf(n)' = ShareOf(n)
  BY DEF DealtUsers, Circle!Known, ShareOf, DealtBefore, DealtChunk, DealtChunks
<1>2. /\ Circle!ProjectsOf(DealtUsers)' = Circle!ProjectsOf(DealtUsers)
      /\ \A n : Circle!ProjectsOf(ShareOf(n))' = Circle!ProjectsOf(ShareOf(n))
      /\ Circle!ProjectsOf(Circle!Known)' = Circle!ProjectsOf(Circle!Known)
      /\ Circle!ProjectsOf(Circle!Known \ Dealt)' = Circle!ProjectsOf(Circle!Known \ Dealt)
  BY <1>1 DEF Circle!ProjectsOf
<1>3. /\ \A ps : Circle!AuthorsOf(ps)' = Circle!AuthorsOf(ps)
      /\ Circle!AuthorsOf(PublishedProjects)' = Circle!AuthorsOf(PublishedProjects)
      /\ Circle!Committers' = Circle!Committers
  BY DEF Circle!AuthorsOf, Circle!Committers
<1>r. /\ \A ps : Reach(ps)' = Reach(ps)
      /\ Reach(PublishedProjects)' = Reach(PublishedProjects)
  BY <1>3 DEF Reach
<1>4. Basis' <=> Basis
  BY <1>1, <1>2, <1>3, <1>r DEF Basis
<1> QED
  BY <1>1, <1>2, <1>3, <1>r, <1>4

LEMMA SameCircle ==
    ASSUME commits' = commits, kv'[Server] = kv[Server], stage'[Server] = stage[Server]
    PROVE  /\ Round' = Round /\ Dealt' = Dealt /\ Latest' = Latest
           /\ PublishedUsers' = PublishedUsers /\ PublishedProjects' = PublishedProjects
           /\ DealtUsers' = DealtUsers /\ Circle!Known' = Circle!Known
           /\ \A n : ShareOf(n)' = ShareOf(n)
           /\ Basis' <=> Basis
           /\ Circle!ProjectsOf(DealtUsers)' = Circle!ProjectsOf(DealtUsers)
           /\ \A n : Circle!ProjectsOf(ShareOf(n))' = Circle!ProjectsOf(ShareOf(n))
           /\ \A ps : Circle!AuthorsOf(ps)' = Circle!AuthorsOf(ps)
           /\ \A ps : Reach(ps)' = Reach(ps)
           /\ Circle!AuthorsOf(Latest)' = Circle!AuthorsOf(Latest)
           /\ Reach(Latest)' = Reach(Latest)
<1>1. /\ Round' = Round /\ Dealt' = Dealt /\ Latest' = Latest
      /\ PublishedUsers' = PublishedUsers /\ PublishedProjects' = PublishedProjects
  BY DEF Round, Dealt, Latest, PublishedUsers, PublishedProjects, UsersOf, ProjectsFrame
<1>2. Circle!AuthorsOf(Latest)' = Circle!AuthorsOf(Latest)
  BY <1>1 DEF Circle!AuthorsOf
<1>3. Reach(Latest)' = Reach(Latest)
  BY <1>1, <1>2 DEF Reach, Circle!Committers
<1> QED
  BY <1>1, <1>2, <1>3, SameFrames

(* The conjuncts about one client and about node 0 stay as long as what     *)
(* they mention does.                                                       *)
LEMMA ClientStaysFound ==
    ASSUME commits' = commits, kv'[Server] = kv[Server], stage'[Server] = stage[Server],
           NEW n \in Client, ClientFound(n),
           pSet'[n] = pSet[n], newProjects'[n] = newProjects[n], newUsers'[n] = newUsers[n],
           Sent' = Sent, Receives(n)' => Receives(n),
           pc'[n] # "failed" => pc[n] # "failed",
           pc'[n] = "projects" => pc[n] = "projects"
    PROVE  ClientFound(n)'
<1>1. CoversShare(n)' <=> CoversShare(n)
  BY SameCircle DEF CoversShare
<1>2. Reach(newProjects[n])' = Reach(newProjects[n])
  BY DEF Reach, Circle!AuthorsOf, Circle!Committers
<1>3. PublishedProjects' = PublishedProjects
  BY SameCircle
<1> QED
  BY <1>1, <1>2, <1>3 DEF ClientFound

LEMMA ServerStaysFound ==
    ASSUME commits' = commits, kv'[Server] = kv[Server], stage'[Server] = stage[Server],
           ProjectsFound, UsersFound,
           newProjects'[Server] = newProjects[Server], newUsers'[Server] = newUsers[Server],
           Merged' = Merged,
           pc'[Server] \in {"projects", "users"} => pc'[Server] = pc[Server],
           \A n \in Client : \/ newProjects'[n] = newProjects[n]
                             \/ Merged = 0 /\ pc'[Server] # "users"
    PROVE  ProjectsFound' /\ UsersFound'
<1>1. CoversShare(Server)' <=> CoversShare(Server)
  BY SameCircle DEF CoversShare
<1>2. ProjectsFound'
  BY <1>1 DEF ProjectsFound
<1>3. UsersFound'
  BY SameCircle DEF UsersFound
<1> QED
  BY <1>2, <1>3

LEMMA DeltasStay ==
    ASSUME NEW n, DeltasOf(n), inbox'[Server] = inbox[Server], Merged' = Merged,
           newProjects'[n] = newProjects[n], newUsers'[n] = newUsers[n]
    PROVE  DeltasOf(n)'
BY DEF DeltasOf, Pending

LEMMA QuietFound ==
    ASSUME AnswerInv, Quiet
    PROVE  FoundInv'
<1> SUFFICES ASSUME InStage'
             PROVE  /\ Basis' /\ ProjectsFound' /\ UsersFound'
                    /\ \A n \in Client : DeltasOf(n)' /\ ClientFound(n)'
  BY DEF FoundInv
<1>1. /\ InStage /\ FoundInv
      /\ commits' = commits /\ kv' = kv /\ stage' = stage
      /\ pSet' = pSet /\ newProjects' = newProjects /\ newUsers' = newUsers
      /\ inbox'[Server] = inbox[Server]
      /\ \/ pc'[Server] = pc[Server]
         \/ pc[Server] = "counts" /\ pc'[Server] = "deal"
      /\ \A n \in Client : \/ pc'[n] = pc[n]
                           \/ pc[n] = "quota" /\ pc'[n] = "take"
                           \/ pc[n] = "leave" /\ pc'[n] = "done"
                           \/ pc'[n] = "failed"
  BY DEF AnswerInv, Quiet
<1>2. Merged' = Merged /\ Sent' = Sent
  BY OthersMerge
<1>3. Basis'
  BY <1>1, SameCircle DEF FoundInv
<1>4. ProjectsFound' /\ UsersFound'
  BY <1>1, <1>2, ServerStaysFound DEF FoundInv
<1>5. ASSUME NEW n \in Client
      PROVE  DeltasOf(n)' /\ ClientFound(n)'
  <2>1. DeltasOf(n)'
    BY <1>1, <1>2, DeltasStay DEF FoundInv
  <2>2. Receives(n)' => Receives(n)
    BY <1>1, ServerAndClients DEF Receives, Round
  <2>3. ClientFound(n)'
    BY <1>1, <1>2, <2>2, ClientStaysFound DEF FoundInv
  <2> QED
    BY <2>1, <2>3
<1> QED
  BY <1>3, <1>4, <1>5

(* The circle of more users, or of more projects, is no smaller.            *)
LEMMA CircleGrows ==
    /\ \A A, B : A \subseteq B => Circle!ProjectsOf(A) \subseteq Circle!ProjectsOf(B)
    /\ \A A, B : A \subseteq B => Circle!AuthorsOf(A) \subseteq Circle!AuthorsOf(B)
BY DEF Circle!ProjectsOf, Circle!AuthorsOf

(* What a node tags covers its share, whatever it had tagged before.        *)
LEMMA TagCovers ==
    ASSUME AnswerInv, TwoNodesExact, InStage, NEW n \in Node, TagProjects(n),
           pSet[n] \subseteq PublishedProjects,
           chunkSoFar[n] \intersect UserIds \subseteq DealtUsers,
           ShareOf(n) \subseteq chunkSoFar[n] \intersect UserIds
    PROVE  /\ CoversShare(n)'
           /\ pSet'[n] = pSet[n] \union newProjects'[n]
<1>t. TypeOK
  BY DEF AnswerInv, LinusInv
<1> DEFINE delta == chunkSoFar[n] \intersect UserIds
<1>1. /\ newProjects'[n] = TaggedProjects(n, delta)
      /\ pSet'[n] = pSet[n] \union TaggedProjects(n, delta)
      /\ commits' = commits /\ kv' = kv /\ stage' = stage
  BY <1>t DEF TagProjects, TypeOK
<1>2. newProjects'[n] = Circle!ProjectsOf(delta) \ pSet[n]
  BY <1>t, <1>1, TagsByUsers DEF TwoNodesExact
<1>3. /\ Circle!ProjectsOf(delta) \subseteq Circle!ProjectsOf(DealtUsers)
      /\ Circle!ProjectsOf(ShareOf(n)) \subseteq Circle!ProjectsOf(delta)
  BY CircleGrows
<1>4. /\ Circle!ProjectsOf(DealtUsers)' = Circle!ProjectsOf(DealtUsers)
      /\ Circle!ProjectsOf(ShareOf(n))' = Circle!ProjectsOf(ShareOf(n))
      /\ PublishedProjects' = PublishedProjects
  BY <1>1, SameCircle
<1> HIDE DEF delta
<1>5. /\ newProjects'[n] \subseteq Circle!ProjectsOf(DealtUsers)
      /\ Circle!ProjectsOf(ShareOf(n)) \subseteq PublishedProjects \union newProjects'[n]
  BY <1>2, <1>3
<1> QED
  BY <1>1, <1>4, <1>5 DEF CoversShare

LEMMA ServerTagsFound ==
    ASSUME AnswerInv, TwoNodesExact, TagProjects(Server)
    PROVE  FoundInv'
<1>t. /\ TypeOK /\ SetsInv /\ Role(Server) /\ Server \in Node /\ Client \subseteq Node
      /\ Server \notin Client
  BY ServerAndClients DEF AnswerInv, LinusInv
<1>1. /\ pc[Server] = "deal" /\ pc'[Server] = "projects" /\ received'[Server] = 0
      /\ next >= DealtChunks
      /\ \A m \in Client : /\ pc'[m] = pc[m] /\ newProjects'[m] = newProjects[m]
                           /\ pSet'[m] = pSet[m]
      /\ inbox' = inbox /\ commits' = commits /\ kv' = kv /\ stage' = stage
      /\ newUsers' = newUsers
  BY <1>t DEF TagProjects, Goto, TypeOK, netVars, Role
<1>2. InStage /\ Merged = 0 /\ Merged' = 0 /\ Sent' = Sent
  BY <1>1 DEF InStage, Merged, Sent
<1>3. pSet[Server] \subseteq PublishedProjects
  BY <1>t, <1>1 DEF SetsInv
<1>4. CoversShare(Server)'
  BY <1>t, <1>1, <1>2, <1>3, TagCovers, ServerHasShare DEF AnswerInv
<1>5. ProjectsFound' /\ UsersFound'
  BY <1>1, <1>2, <1>4 DEF ProjectsFound, UsersFound
<1>6. Basis'
  BY <1>1, <1>2, SameCircle DEF AnswerInv, FoundInv
<1>7. ASSUME NEW n \in Client
      PROVE  DeltasOf(n)' /\ ClientFound(n)'
  <2>1. DeltasOf(n)'
    BY <1>1, <1>2, DeltasStay DEF AnswerInv, FoundInv
  <2>2. Receives(n)' => Receives(n)
    BY <1>t, <1>1 DEF Receives, Round
  <2> QED
    BY <1>1, <1>2, <2>1, <2>2, ClientStaysFound DEF AnswerInv, FoundInv
<1> QED
  BY <1>5, <1>6, <1>7 DEF FoundInv

(* A client that tags has sent nothing of the stage.                        *)
LEMMA ClientTagsFound ==
    ASSUME AnswerInv, TwoNodesExact, NEW n \in Client, TagProjects(n)
    PROVE  FoundInv'
<1>t. /\ TypeOK /\ Role(n) /\ ClientInv(n) /\ Server \in Node /\ n \in Node /\ n # Server
      /\ Client = {n} /\ NumNodes = 2
  BY ServerAndClients, OneClient DEF AnswerInv, LinusInv, TwoNodesExact
<1>1. /\ pc[n] = "take" /\ pc'[n] = "projects" /\ received[n] >= quota[n]
      /\ \A m \in Node : m # n => /\ pc'[m] = pc[m] /\ received'[m] = received[m]
                                  /\ newProjects'[m] = newProjects[m]
      /\ inbox' = inbox /\ commits' = commits /\ kv' = kv /\ stage' = stage
      /\ newUsers' = newUsers
  BY <1>t DEF TagProjects, Goto, TypeOK, netVars
<1>2. /\ InStage' => InStage
      /\ Merged' = Merged /\ Sent' = Sent /\ Merged \in Nat
      /\ Len(inbox[Server]) \in Nat
  BY <1>t, <1>1, MergedTyped DEF InStage, Merged, Sent
<1> SUFFICES ASSUME InStage'
             PROVE  /\ Basis' /\ ProjectsFound' /\ UsersFound'
                    /\ DeltasOf(n)' /\ ClientFound(n)'
  BY <1>t DEF FoundInv
<1>3. stage[n] = Round /\ Receives(n)
  BY <1>t, <1>1 DEF ClientInv, Takes, Receives
<1>4. Sent = 0
  BY <1>1, <1>2, <1>3, SentSoFar DEF AnswerInv, TwoNodesExact
<1>5. /\ Merged = 0 /\ Len(inbox[Server]) = 0 /\ pc[Server] # "users"
  <2>1. Merged = 0 /\ Len(inbox[Server]) = 0
    BY <1>2, <1>4 DEF Sent
  <2>2. pc[Server] = "users" => Merged = 1 + received[Server] /\ received[Server] \in Nat
    BY <1>t DEF Merged, TypeOK
  <2> QED
    BY <2>1, <2>2
<1>6. pSet[n] \subseteq PublishedProjects
  BY <1>2, <1>3 DEF AnswerInv, FoundInv, ClientFound
<1>7. CoversShare(n)' /\ pSet'[n] = pSet[n] \union newProjects'[n]
  BY <1>t, <1>1, <1>2, <1>6, TagCovers, ClientHasShare DEF AnswerInv
<1>8. /\ Basis' /\ PublishedProjects' = PublishedProjects
  BY <1>1, <1>2, SameCircle DEF AnswerInv, FoundInv
<1>9. ProjectsFound' /\ UsersFound'
  BY <1>t, <1>1, <1>2, <1>5, ServerStaysFound DEF AnswerInv, FoundInv
<1>10. DeltasOf(n)'
  BY <1>1, <1>5 DEF DeltasOf, Pending
<1>11. ClientFound(n)'
  <2>1. ~Receives(n)'
    BY <1>t, <1>1 DEF Receives
  <2>2. pSet'[n] \subseteq PublishedProjects' \union newProjects'[n]
    BY <1>6, <1>7, <1>8
  <2>3. Sent' = 0
    BY <1>2, <1>4
  <2> QED
    BY <1>7, <2>1, <2>2, <2>3 DEF ClientFound
<1> QED
  BY <1>8, <1>9, <1>10, <1>11

(* A client's delta joins the queue of node 0 whole.                        *)
LEMMA DeltaJoins ==
    ASSUME TypeOK, NEW n \in Client, NEW of, NEW ids,
           Send(n, Server, DeltaMsg(n, of, ids)), DeltasOf(n), Merged' = Merged,
           newProjects'[n] = newProjects[n],
           newUsers'[n] = newUsers[n] \/ Sent = 0,
           ids = IF Sent = 0 THEN newProjects[n] ELSE newUsers[n]
    PROVE  DeltasOf(n)' /\ Sent' = Sent + 1
<1>t. n \in Node /\ Server \in Node
  BY ServerAndClients
<1> DEFINE len == Len(inbox[Server])
<1>1. /\ len \in Nat /\ Len(inbox'[Server]) = len + 1
      /\ \A i \in 1 .. len : inbox'[Server][i] = inbox[Server][i]
      /\ inbox'[Server][len + 1].ids = ids
  BY <1>t, SendAppends DEF DeltaMsg
<1>2. Merged \in Nat /\ Sent = Merged + len
  BY MergedTyped DEF Sent
<1>3. ASSUME NEW i \in 1 .. len + 1
      PROVE  inbox'[Server][i].ids =
                IF Merged + i = 1 THEN newProjects[n] ELSE newUsers'[n]
  <2>1. CASE i = len + 1
    <3>1. Merged + i = Sent + 1
      BY <1>1, <1>2, <2>1
    <3>2. Merged + i = 1 <=> Sent = 0
      BY <1>1, <1>2, <3>1
    <3> QED
      BY <1>1, <2>1, <3>2
  <2>2. CASE i # len + 1
    <3>1. i \in 1 .. len
      BY <1>1, <1>3, <2>2
    <3>2. Sent # 0
      BY <1>1, <1>2, <3>1
    <3> QED
      BY <1>1, <3>1, <3>2 DEF DeltasOf, Pending
  <2> QED
    BY <2>1, <2>2
<1>4. DeltasOf(n)'
  BY <1>1, <1>3 DEF DeltasOf, Pending
<1>5. Sent' = Sent + 1
  BY <1>1, <1>2 DEF Sent
<1> QED
  BY <1>4, <1>5

LEMMA ProjectsSentFound ==
    ASSUME AnswerInv, TwoNodesExact, NothingCut, NEW n \in Client, SendProjects(n), ~Fail(n)
    PROVE  FoundInv'
<1>t. /\ TypeOK /\ ClientInv(n) /\ Server \in Node /\ n \in Node /\ n # Server
      /\ Client = {n} /\ NumNodes = 2
  BY ServerAndClients, OneClient DEF AnswerInv, LinusInv, TwoNodesExact
<1>c. Carried(newProjects[n]) = {newProjects[n]}
  BY AllCarried DEF NothingCut, SendProjects
<1>1. /\ pc[n] = "projects" /\ pc'[n] = "users"
      /\ Send(n, Server, DeltaMsg(n, "projects", newProjects[n]))
      /\ TagUsers(n, newProjects[n])
      /\ \A m \in Node : m # n => /\ pc'[m] = pc[m] /\ received'[m] = received[m]
                                  /\ newUsers'[m] = newUsers[m]
      /\ commits' = commits /\ stage' = stage /\ kv'[Server] = kv[Server]
      /\ newProjects' = newProjects
      /\ pSet'[n] = pSet[n] \union newProjects[n]
  BY <1>t, <1>c DEF SendProjects, TagUsers, Put, Goto, TypeOK
<1>2. /\ InStage' => InStage
      /\ Merged' = Merged /\ Merged \in Nat /\ Len(inbox[Server]) \in Nat
  BY <1>t, <1>1, MergedTyped DEF InStage, Merged
<1> SUFFICES ASSUME InStage'
             PROVE  /\ Basis' /\ ProjectsFound' /\ UsersFound'
                    /\ DeltasOf(n)' /\ ClientFound(n)'
  BY <1>t DEF FoundInv
<1>3. stage[n] = Round
  BY <1>t, <1>1 DEF ClientInv, Sends
<1>4. Sent = 0
  BY <1>1, <1>2, <1>3, SentSoFar DEF AnswerInv, TwoNodesExact
<1>5. Merged = 0 /\ pc[Server] # "users"
  <2>1. Merged = 0
    BY <1>2, <1>4 DEF Sent
  <2>2. pc[Server] = "users" => Merged = 1 + received[Server] /\ received[Server] \in Nat
    BY <1>t DEF Merged, TypeOK
  <2> QED
    BY <2>1, <2>2
<1>6. newProjects[n] \in SUBSET ProjectIds
  BY <1>t DEF TypeOK
<1>7. DeltasOf(n)' /\ Sent' = Sent + 1
  <2>1. newProjects'[n] = newProjects[n] /\ DeltasOf(n)
    BY <1>1, <1>2 DEF AnswerInv, FoundInv
  <2> QED
    BY <1>t, <1>1, <1>2, <1>4, <2>1, DeltaJoins
<1>8. newUsers'[n] \subseteq Reach(newProjects[n])
  BY <1>t, <1>1, <1>6, TagsReach DEF TwoNodesExact
<1>9. /\ Basis' /\ PublishedProjects' = PublishedProjects
      /\ \A ps : Circle!AuthorsOf(ps)' = Circle!AuthorsOf(ps)
  BY <1>1, <1>2, SameCircle DEF AnswerInv, FoundInv
<1>10. ProjectsFound' /\ UsersFound'
  BY <1>t, <1>1, <1>2, <1>5, ServerStaysFound DEF AnswerInv, FoundInv
<1>11. ClientFound(n)'
  <2>1. ~Receives(n)'
    BY <1>t, <1>1 DEF Receives
  <2>2. ClientFound(n)
    BY <1>2 DEF AnswerInv, FoundInv
  <2>3. pSet'[n] \subseteq PublishedProjects' \union newProjects'[n]
    BY <1>1, <1>9, <2>2 DEF ClientFound
  <2>4. CoversShare(n)'
    <3>1. CoversShare(n)
      BY <1>1, <2>2 DEF ClientFound
    <3>2. /\ Circle!ProjectsOf(DealtUsers)' = Circle!ProjectsOf(DealtUsers)
          /\ Circle!ProjectsOf(ShareOf(n))' = Circle!ProjectsOf(ShareOf(n))
      BY <1>1, SameCircle
    <3> QED
      BY <1>1, <1>9, <3>1, <3>2 DEF CoversShare
  <2>5. newUsers'[n] \subseteq Reach(newProjects[n])'
    <3>1. Reach(newProjects[n])' = Reach(newProjects[n])
      BY <1>1 DEF Reach, Circle!AuthorsOf, Circle!Committers
    <3> QED
      BY <1>8, <3>1
  <2> QED
    BY <2>1, <2>3, <2>4, <2>5 DEF ClientFound
<1> QED
  BY <1>7, <1>9, <1>10, <1>11

LEMMA UsersSentFound ==
    ASSUME AnswerInv, TwoNodesExact, NothingCut, NEW n \in Client, SendUsers(n), ~Fail(n)
    PROVE  FoundInv'
<1>t. /\ TypeOK /\ ClientInv(n) /\ Server \in Node /\ n \in Node /\ n # Server
      /\ Client = {n} /\ Round \in Nat
  BY ServerAndClients, OneClient, RoundTyped DEF AnswerInv, LinusInv, TwoNodesExact
<1>c. Carried(newUsers[n]) = {newUsers[n]}
  BY AllCarried DEF NothingCut, SendUsers
<1>1. /\ pc[n] = "users" /\ pc'[n] \in {"quota", "leave"}
      /\ Send(n, Server, DeltaMsg(n, "users", newUsers[n]))
      /\ stage'[n] = stage[n] + 1
      /\ \A m \in Node : m # n => pc'[m] = pc[m] /\ stage'[m] = stage[m]
      /\ commits' = commits /\ received' = received /\ kv'[Server] = kv[Server]
      /\ newProjects' = newProjects /\ newUsers' = newUsers /\ pSet' = pSet
  BY <1>t, <1>c DEF SendUsers, EndStage, After, Put, Goto, TypeOK
<1>2. (InStage' => InStage) /\ Merged' = Merged
  BY <1>t, <1>1 DEF InStage, Merged
<1> SUFFICES ASSUME InStage'
             PROVE  /\ Basis' /\ ProjectsFound' /\ UsersFound'
                    /\ DeltasOf(n)' /\ ClientFound(n)'
  BY <1>t DEF FoundInv
<1>3. stage[n] = Round
  BY <1>t, <1>1 DEF ClientInv, Sends
<1>4. Sent = 1
  BY <1>1, <1>2, <1>3, SentSoFar DEF AnswerInv, TwoNodesExact
<1>5. DeltasOf(n)' /\ Sent' = Sent + 1
  <2>1. DeltasOf(n)
    BY <1>2 DEF AnswerInv, FoundInv
  <2> QED
    BY <1>t, <1>1, <1>2, <1>4, <2>1, DeltaJoins
<1>6. stage'[Server] = stage[Server]
  BY <1>t, <1>1
<1>7. Basis'
  BY <1>1, <1>2, <1>6, SameCircle DEF AnswerInv, FoundInv
<1>8. ProjectsFound' /\ UsersFound'
  BY <1>t, <1>1, <1>2, <1>6, ServerStaysFound DEF AnswerInv, FoundInv
<1>9. ClientFound(n)'
  <2>1. ~Receives(n)'
    BY <1>t, <1>1, <1>3, <1>6 DEF Receives, Round
  <2>2. ClientFound(n) /\ CoversShare(n)
    BY <1>2, <1>4 DEF AnswerInv, FoundInv, ClientFound
  <2>3. CoversShare(n)'
    BY <1>1, <1>6, <2>2, SameCircle DEF CoversShare
  <2>4. Reach(newProjects[n])' = Reach(newProjects[n])
    BY <1>1 DEF Reach, Circle!AuthorsOf, Circle!Committers
  <2>5. PublishedProjects' = PublishedProjects
    BY <1>1, <1>6, SameCircle
  <2> QED
    BY <1>1, <1>4, <2>1, <2>2, <2>3, <2>4, <2>5 DEF ClientFound
<1> QED
  BY <1>5, <1>7, <1>8, <1>9

(* Node 0 takes the first delta of its queue into the set it merges.        *)
LEMMA MergeShifts ==
    ASSUME TypeOK, NumNodes <= 2, TurnsInv, MergeDelta, ~Fail(Server), NEW n \in Client,
           DeltasOf(n)
    PROVE  /\ Merged' = Merged + 1 /\ Sent' = Sent /\ Merged \in Nat /\ Sent # 0
           /\ pc[Server] = "projects" => Merged = 0
           /\ pc[Server] = "users" => Merged = 1
           /\ \A i \in Pending(Server)' :
                 inbox'[Server][i].ids
                    = IF Merged' + i = 1 THEN newProjects[n] ELSE newUsers[n]
           /\ Head(inbox[Server]).ids
                    = IF pc[Server] = "projects" THEN newProjects[n] ELSE newUsers[n]
<1>t. Server \in Node /\ NumNodes = 2
  BY ServerAndClients, OneClient
<1>1. /\ Merging /\ Receive(Server) /\ pc' = pc
      /\ received[Server] = 0 /\ received'[Server] = 1
  BY <1>t DEF MergeDelta, Gathered, TypeOK
<1> DEFINE len == Len(inbox[Server])
<1>2. /\ len \in Nat \ {0}
      /\ Len(inbox'[Server]) = len - 1
      /\ \A i \in 1 .. len - 1 : inbox'[Server][i] = inbox[Server][i + 1]
      /\ Head(inbox[Server]) = inbox[Server][1]
  BY <1>t, <1>1, ReceiveTakes
<1>3. /\ Merged = IF pc[Server] = "projects" THEN 0 ELSE 1
      /\ Merged' = Merged + 1
  BY <1>t, <1>1 DEF Merging, Merged
<1>4. Sent = Merged + len /\ Sent' = Merged' + (len - 1)
  BY <1>2 DEF Sent
<1> HIDE DEF len
<1>5. Sent' = Sent /\ Sent # 0
  <2>1. Merged \in {0, 1}
    BY <1>3
  <2>2. \A a \in {0, 1}, b \in Nat \ {0} : (a + 1) + (b - 1) = a + b /\ a + b # 0
    OBVIOUS
  <2> QED
    BY <1>2, <1>3, <1>4, <2>1, <2>2
<1> USE DEF len
<1>6. ASSUME NEW i \in 1 .. len - 1
      PROVE  inbox'[Server][i].ids
                = IF Merged' + i = 1 THEN newProjects[n] ELSE newUsers[n]
  <2>1. i + 1 \in 1 .. len /\ Merged + (i + 1) = Merged' + i
    BY <1>2, <1>3
  <2>2. inbox'[Server][i] = inbox[Server][i + 1]
    BY <1>2
  <2>3. inbox[Server][i + 1].ids
           = IF Merged + (i + 1) = 1 THEN newProjects[n] ELSE newUsers[n]
    BY <2>1 DEF DeltasOf, Pending
  <2> QED
    BY <2>1, <2>2, <2>3
<1>7. inbox[Server][1].ids
         = IF pc[Server] = "projects" THEN newProjects[n] ELSE newUsers[n]
  <2>1. 1 \in 1 .. len
    BY <1>2
  <2> QED
    BY <1>1, <1>3, <2>1 DEF DeltasOf, Pending, Merging
<1> QED
  BY <1>1, <1>2, <1>3, <1>5, <1>6, <1>7 DEF Pending, Merging

LEMMA MergeFound ==
    ASSUME AnswerInv, TwoNodesExact, MergeDelta, ~Fail(Server)
    PROVE  FoundInv'
<1>t. /\ TypeOK /\ TurnsInv /\ Server \in Node /\ Client \subseteq Node /\ Server \notin Client
      /\ NumNodes \in Nat \ {0} /\ NumNodes <= 2
  BY ServerAndClients DEF AnswerInv, LinusInv, TwoNodesExact
<1>1. /\ Merging /\ ~Gathered /\ InStage
      /\ commits' = commits /\ kv' = kv /\ stage' = stage /\ pc' = pc /\ pSet' = pSet
      /\ \A m \in Client : newProjects'[m] = newProjects[m] /\ newUsers'[m] = newUsers[m]
  BY <1>t DEF MergeDelta, Merging, InStage, TypeOK
<1>2. PICK n \in Client : Client = {n}
  <2>1. NumNodes = 2
    BY <1>t, <1>1 DEF Gathered, TypeOK
  <2>2. 1 \in Client
    BY <2>1 DEF Client, Node, Server
  <2> QED
    BY <1>t, <2>2, OneClient
<1>3. DeltasOf(n) /\ ClientFound(n) /\ ProjectsFound /\ UsersFound /\ Basis
  BY <1>1 DEF AnswerInv, FoundInv
<1>4. /\ Merged' = Merged + 1 /\ Sent' = Sent /\ Sent # 0
      /\ pc[Server] = "users" => Merged = 1
      /\ Head(inbox[Server]).ids
            = IF pc[Server] = "projects" THEN newProjects[n] ELSE newUsers[n]
  BY <1>t, <1>3, MergeShifts
<1>5. DeltasOf(n)'
  BY <1>t, <1>1, <1>3, MergeShifts DEF DeltasOf
<1>6. ClientFound(n)'
  <2>1. Receives(n)' => Receives(n)
    BY <1>1 DEF Receives, Round
  <2> QED
    BY <1>1, <1>3, <1>4, <2>1, ClientStaysFound
<1>7. Basis'
  BY <1>1, <1>3, SameCircle
<1>8. CoversShare(n) /\ newUsers[n] \subseteq Reach(newProjects[n])
  BY <1>3, <1>4 DEF ClientFound
<1>9. newProjects[n] \in SUBSET ProjectIds /\ newUsers[n] \in SUBSET UserIds
  BY <1>t DEF TypeOK
<1>10. CASE pc[Server] = "projects"
  <2>1. newProjects'[Server] = newProjects[Server] \union newProjects[n]
    <3>1. newProjects'[Server]
             = newProjects[Server] \union (Head(inbox[Server]).ids \intersect ProjectIds)
      BY <1>t, <1>10 DEF MergeDelta, TypeOK
    <3> QED
      BY <1>4, <1>9, <1>10, <3>1
  <2>2. CoversShare(Server)
    BY <1>3, <1>10 DEF ProjectsFound
  <2>3. CoversShare(Server)'
    BY <1>1, <1>8, <2>1, <2>2, SameCircle DEF CoversShare
  <2>4. ProjectsFound'
    BY <1>1, <1>2, <2>1, <2>3 DEF ProjectsFound
  <2>5. UsersFound'
    BY <1>1, <1>10 DEF UsersFound
  <2> QED
    BY <1>2, <1>5, <1>6, <1>7, <2>4, <2>5 DEF FoundInv
<1>11. CASE pc[Server] = "users"
  <2>1. newUsers'[Server] = newUsers[Server] \union newUsers[n]
    <3>1. newUsers'[Server]
             = newUsers[Server] \union (Head(inbox[Server]).ids \intersect UserIds)
      BY <1>t, <1>11 DEF MergeDelta, TypeOK
    <3> QED
      BY <1>4, <1>9, <1>11, <3>1
  <2>2. newUsers[n] \subseteq Reach(Latest)
    <3>1. newProjects[n] \subseteq Latest
      BY <1>3, <1>11 DEF UsersFound
    <3> QED
      BY <1>8, <3>1, ReachGrows
  <2>3. UsersFound'
    BY <1>1, <1>3, <1>11, <2>1, <2>2, SameCircle DEF UsersFound
  <2>4. ProjectsFound'
    BY <1>1, <1>11 DEF ProjectsFound
  <2> QED
    BY <1>2, <1>5, <1>6, <1>7, <2>3, <2>4 DEF FoundInv
<1> QED
  BY <1>1, <1>10, <1>11 DEF Merging

LEMMA PublishProjectsFound ==
    ASSUME AnswerInv, TwoNodesExact, PublishProjects
    PROVE  FoundInv'
<1>t. /\ TypeOK /\ TurnsInv /\ SetsInv /\ Server \in Node /\ Client \subseteq Node
      /\ Server \notin Client /\ NumNodes \in Nat \ {0} /\ NumNodes <= 2
      /\ \A n \in Node : n # Server => n \in Client
  BY ServerAndClients DEF AnswerInv, LinusInv, TwoNodesExact
<1>1. /\ pc[Server] = "projects" /\ pc'[Server] = "users" /\ InStage /\ InStage'
      /\ received[Server] >= NumNodes - 1 /\ received[Server] \in Nat
      /\ received'[Server] = 0
      /\ \A m \in Client : /\ pc'[m] = pc[m] /\ pSet'[m] = pSet[m]
                           /\ newUsers'[m] = newUsers[m]
      /\ stage' = stage /\ inbox' = inbox /\ commits' = commits
      /\ newProjects' = newProjects
      /\ TagUsers(Server, newProjects[Server])
  BY <1>t DEF PublishProjects, Gathered, TagUsers, Goto, TypeOK, netVars, InStage
<1>2. received[Server] = NumNodes - 1
  BY <1>t, <1>1 DEF TurnsInv, Merging
<1>3. Merged = NumNodes - 1 /\ Merged' = Merged /\ Sent' = Sent
  BY <1>t, <1>1, <1>2 DEF Merged, Sent
<1>4. /\ Basis /\ ProjectsFound
      /\ \A n \in Client : DeltasOf(n) /\ ClientFound(n)
  BY <1>1 DEF AnswerInv, FoundInv
<1>5. /\ Round' = Round /\ Dealt' = Dealt
      /\ PublishedUsers' = PublishedUsers /\ PublishedProjects' = PublishedProjects
      /\ Latest' = newProjects[Server]
  BY <1>t, ProjectsPublished DEF AnswerInv
<1>6. CoversShare(Server)
  BY <1>1, <1>4 DEF ProjectsFound
<1>7. ASSUME NEW n \in Client
      PROVE  newProjects[n] \subseteq newProjects[Server] /\ CoversShare(n)
  <2>1. NumNodes = 2
    BY <1>t, OneClient
  <2>2. Merged = 1 /\ Len(inbox[Server]) \in Nat
    BY <1>t, <1>3, <2>1, MergedTyped
  <2>3. Sent # 0
    BY <2>2 DEF Sent
  <2> QED
    BY <1>1, <1>4, <2>2, <2>3 DEF ProjectsFound, ClientFound
<1>8. Circle!ProjectsOf(DealtUsers) \subseteq PublishedProjects \union newProjects[Server]
  <2> SUFFICES ASSUME NEW p \in ProjectIds, NEW u \in DealtUsers, <<p, u>> \in commits
               PROVE  p \in PublishedProjects \union newProjects[Server]
    BY DEF Circle!ProjectsOf
  <2>1. PICK m \in Node : u \in DealtBefore(m, DealtChunks)
    BY <1>1, AllDealt DEF DealtUsers, TwoNodesExact, AnswerInv, ArrivesInv
  <2>2. p \in Circle!ProjectsOf(ShareOf(m))
    BY <2>1 DEF Circle!ProjectsOf, ShareOf, DealtUsers
  <2>3. CoversShare(m) /\ newProjects[m] \subseteq newProjects[Server]
    BY <1>t, <1>6, <1>7
  <2> QED
    BY <2>2, <2>3 DEF CoversShare
<1>9. /\ newUsers'[Server] \subseteq Reach(newProjects[Server])
      /\ Circle!AuthorsOf(newProjects[Server]) \subseteq PublishedUsers \union newUsers'[Server]
  <2>1. newProjects[Server] \in SUBSET ProjectIds /\ CommitsInRange
    BY <1>t DEF TypeOK, TwoNodesExact
  <2>2. uSet[Server] = PublishedUsers
    BY <1>t, <1>1 DEF SetsInv
  <2> QED
    BY <1>t, <1>1, <2>1, <2>2, TagsReach
<1>10. UsersFound'
  <2>1. /\ Circle!ProjectsOf(DealtUsers)' = Circle!ProjectsOf(DealtUsers)
        /\ \A ps : Circle!AuthorsOf(ps)' = Circle!AuthorsOf(ps)
    BY <1>1, <1>5, SameFrames
  <2>2. /\ Circle!AuthorsOf(Latest)' = Circle!AuthorsOf(newProjects[Server])
        /\ Reach(Latest)' = Reach(newProjects[Server])
    BY <1>1, <1>5 DEF Circle!AuthorsOf, Reach, Circle!Committers
  <2> QED
    BY <1>1, <1>5, <1>6, <1>7, <1>8, <1>9, <2>1, <2>2 DEF UsersFound, CoversShare
<1>11. ASSUME NEW n \in Client
       PROVE  DeltasOf(n)' /\ ClientFound(n)'
  <2>1. DeltasOf(n)'
    BY <1>1, <1>3, <1>4, DeltasStay
  <2>2. /\ Circle!ProjectsOf(DealtUsers)' = Circle!ProjectsOf(DealtUsers)
        /\ Circle!ProjectsOf(ShareOf(n))' = Circle!ProjectsOf(ShareOf(n))
    BY <1>1, <1>5, SameFrames
  <2>3. CoversShare(n)'
    BY <1>1, <1>5, <1>7, <2>2 DEF CoversShare
  <2>4. Reach(newProjects[n])' = Reach(newProjects[n])
    BY <1>1 DEF Reach, Circle!AuthorsOf, Circle!Committers
  <2>5. Receives(n)' => Receives(n)
    BY <1>t, <1>1, <1>5 DEF Receives
  <2> QED
    BY <1>1, <1>3, <1>4, <1>5, <2>1, <2>3, <2>4, <2>5 DEF ClientFound
<1>12. ProjectsFound' /\ Basis'
  BY <1>1, <1>4, <1>5, SameFrames DEF ProjectsFound
<1> QED
  BY <1>10, <1>11, <1>12 DEF FoundInv

(* What node 0 publishes in a stage are the authors of all its projects, or *)
(* more where it may have tagged more.                                      *)
LEMMA UsersReach ==
    ASSUME AnswerInv, PublishUsers
    PROVE  /\ Circle!AuthorsOf(PublishedProjects') \subseteq PublishedUsers'
           /\ PublishedUsers' \subseteq Reach(PublishedProjects')
<1>1. pc[Server] = "users" /\ InStage
  BY DEF PublishUsers, InStage
<1>2. Basis /\ UsersFound
  BY <1>1 DEF AnswerInv, FoundInv
<1>3. /\ PublishedUsers' = PublishedUsers \union newUsers[Server]
      /\ PublishedProjects' = PublishedProjects \union Latest
  BY UsersPublished DEF AnswerInv
<1>4. Circle!AuthorsOf(PublishedProjects \union Latest)
         = Circle!AuthorsOf(PublishedProjects) \union Circle!AuthorsOf(Latest)
  BY DEF Circle!AuthorsOf
<1>5. Reach(PublishedProjects) \union Reach(Latest)
         \subseteq Reach(PublishedProjects \union Latest)
  <2>1. /\ PublishedProjects \subseteq PublishedProjects \union Latest
        /\ Latest \subseteq PublishedProjects \union Latest
    OBVIOUS
  <2>2. /\ Reach(PublishedProjects) \subseteq Reach(PublishedProjects \union Latest)
        /\ Reach(Latest) \subseteq Reach(PublishedProjects \union Latest)
    BY <2>1, ReachGrows
  <2> QED
    BY <2>2
<1>6. /\ Circle!AuthorsOf(PublishedProjects) \subseteq PublishedUsers
      /\ PublishedUsers \subseteq Reach(PublishedProjects)
      /\ newUsers[Server] \subseteq Reach(Latest)
      /\ Circle!AuthorsOf(Latest) \subseteq PublishedUsers \union newUsers[Server]
  BY <1>1, <1>2 DEF Basis, UsersFound
<1> QED
  BY <1>3, <1>4, <1>5, <1>6

(* Node 0 completes a degree when it publishes the users of a stage.        *)
LEMMA WidenStep ==
    ASSUME AnswerInv, TwoNodesExact, PublishUsers
    PROVE  Circle!Widen
<1>t. TypeOK /\ LeavesLast(Server) /\ Server \in Node
  BY ServerAndClients DEF AnswerInv, LinusInv
<1>1. pc[Server] = "users" /\ InStage /\ commits' = commits
  BY DEF PublishUsers, InStage
<1>2. Basis /\ UsersFound
  BY <1>1 DEF AnswerInv, FoundInv
<1>3. /\ Round' = Round + 1
      /\ PublishedUsers' = PublishedUsers \union newUsers[Server]
      /\ PublishedProjects' = PublishedProjects \union Latest
  BY UsersPublished DEF AnswerInv
<1>4. PublishedProjects \union Latest \subseteq Circle!ProjectsOf(Circle!Known)
  <2>1. Circle!ProjectsOf(DealtUsers) \subseteq Circle!ProjectsOf(Circle!Known)
    BY <1>2, CircleGrows DEF Basis
  <2> QED
    BY <1>1, <1>2, <2>1 DEF Basis, UsersFound
<1>5. Circle!ProjectsOf(Circle!Known) \subseteq PublishedProjects \union Latest
  <2> SUFFICES ASSUME NEW p \in ProjectIds, NEW u \in Circle!Known, <<p, u>> \in commits
               PROVE  p \in PublishedProjects \union Latest
    BY DEF Circle!ProjectsOf
  <2>1. u \in UserIds
    BY <1>2, ReachGrows DEF Basis, Circle!Known
  <2>2. CASE u \in Dealt
    <3>1. p \in Circle!ProjectsOf(DealtUsers)
      BY <2>1, <2>2 DEF Circle!ProjectsOf, DealtUsers
    <3> QED
      BY <1>1, <1>2, <3>1 DEF UsersFound
  <2>3. CASE u \notin Dealt
    <3>1. p \in Circle!ProjectsOf(Circle!Known \ Dealt)
      BY <2>3 DEF Circle!ProjectsOf
    <3> QED
      BY <1>2, <3>1 DEF Basis
  <2> QED
    BY <2>2, <2>3
<1>7. stage[Server] < DEGREES
  BY <1>t, <1>1 DEF LeavesLast
<1>8. PublishedProjects' = Circle!ProjectsOf(Circle!Known)
  BY <1>3, <1>4, <1>5
<1>9. PublishedUsers' \in Circle!Circles(PublishedProjects')
  <2>1. CASE "recycled" \in StaleSet
    <3>1. /\ PublishedUsers' \in SUBSET Circle!Committers
          /\ PublishedUsers \union Circle!AuthorsOf(PublishedProjects') \subseteq PublishedUsers'
      BY <1>3, <2>1, UsersReach DEF Reach
    <3> QED
      BY <2>1, <3>1 DEF Circle!Circles
  <2>2. CASE "recycled" \notin StaleSet
    BY <2>2, UsersReach DEF Reach, Circle!Circles
  <2> QED
    BY <2>1, <2>2
<1> QED
  BY <1>1, <1>3, <1>7, <1>8, <1>9 DEF Circle!Widen, Round

LEMMA PublishUsersFound ==
    ASSUME AnswerInv, TwoNodesExact, PublishUsers
    PROVE  FoundInv'
<1>t. /\ TypeOK /\ Server \in Node /\ Client \subseteq Node /\ Server \notin Client
      /\ Round \in Nat /\ \A n \in Client : ClientInv(n)
  BY ServerAndClients, RoundTyped DEF AnswerInv, LinusInv
<1>1. /\ pc[Server] = "users" /\ pc'[Server] \in {"leave", "counts"} /\ InStage
      /\ Gathered
      /\ \A m \in Client : pc'[m] = pc[m] /\ stage'[m] = stage[m]
      /\ inbox' = inbox /\ commits' = commits /\ pSet' = pSet
  BY <1>t DEF PublishUsers, EndStage, After, Goto, TypeOK, netVars, InStage
<1>2. Basis /\ UsersFound /\ \A n \in Client : ClientFound(n)
  BY <1>1 DEF AnswerInv, FoundInv
<1>3. /\ Round' = Round + 1 /\ Dealt' = newUsers[Server]
      /\ PublishedUsers' = PublishedUsers \union newUsers[Server]
      /\ PublishedProjects' = PublishedProjects \union Latest
  BY UsersPublished DEF AnswerInv
<1>4. /\ PublishedProjects' = Circle!ProjectsOf(Circle!Known)
      /\ Circle!AuthorsOf(PublishedProjects') \subseteq PublishedUsers'
      /\ PublishedUsers' \subseteq Reach(PublishedProjects')
  BY WidenStep, UsersReach DEF Circle!Widen
<1>5. Basis'
  <2>1. /\ Circle!AuthorsOf(PublishedProjects)' = Circle!AuthorsOf(PublishedProjects')
        /\ Reach(PublishedProjects)' = Reach(PublishedProjects')
    BY <1>1 DEF Circle!AuthorsOf, Reach, Circle!Committers
  <2>2. Circle!Known' = Circle!Known \union newUsers[Server]
    BY <1>3 DEF Circle!Known
  <2>3. /\ Circle!ProjectsOf(Circle!Known)' = Circle!ProjectsOf(Circle!Known')
        /\ Circle!ProjectsOf(Circle!Known \ Dealt)'
              = Circle!ProjectsOf(Circle!Known' \ Dealt')
    BY <1>1 DEF Circle!ProjectsOf
  <2>4. /\ Circle!Known \subseteq Circle!Known'
        /\ Circle!Known' \ Dealt' \subseteq Circle!Known
    BY <1>3, <2>2
  <2>5. /\ Circle!ProjectsOf(Circle!Known) \subseteq Circle!ProjectsOf(Circle!Known')
        /\ Circle!ProjectsOf(Circle!Known' \ Dealt') \subseteq Circle!ProjectsOf(Circle!Known)
    BY <2>4, CircleGrows
  <2>6. DealtUsers' \subseteq Circle!Known'
    BY <1>3, <2>2 DEF DealtUsers
  <2> QED
    BY <1>4, <2>1, <2>3, <2>5, <2>6 DEF Basis
<1>6. ProjectsFound' /\ UsersFound'
  BY <1>1 DEF ProjectsFound, UsersFound
<1>7. ASSUME NEW n \in Client
      PROVE  DeltasOf(n)' /\ ClientFound(n)'
  <2>1. inbox[Server] = << >> /\ stage[n] = Round + 1
    BY <1>1, AllMerged DEF AnswerInv
  <2>2. pc[n] \in {"quota", "leave", "done", "failed"}
    BY <1>t, <2>1 DEF ClientInv, Ahead
  <2>3. DeltasOf(n)'
    BY <1>1, <2>1 DEF DeltasOf, Pending
  <2>4. Sent' = 0
    BY <1>1, <2>1 DEF Sent, Merged
  <2>5. pc[n] # "failed" => pSet[n] \subseteq PublishedProjects'
    BY <1>1, <1>2, <1>3 DEF ClientFound, UsersFound
  <2>6. Receives(n)' => pc[n] # "failed"
    BY <1>t, <1>1 DEF Receives
  <2> QED
    BY <1>1, <2>2, <2>3, <2>4, <2>5, <2>6 DEF ClientFound
<1> QED
  BY <1>5, <1>6, <1>7 DEF FoundInv

LEMMA InitFound ==
    ASSUME Init
    PROVE  FoundInv
<1>1. /\ \A n \in Node : pSet[n] = {}
      /\ stage[Server] = 0 /\ Dealt = {LINUS} /\ Sent = 0
      /\ inbox[Server] = << >>
      /\ \A n \in Node : pc[n] \notin {"projects", "users"}
  BY ServerAndClients DEF Init, Dealt, Sent, Merged
<1>2. PublishedUsers = {} /\ PublishedProjects = {}
  <2>1. 1 .. 0 = {} /\ 0 .. 0 - 1 = {}
    OBVIOUS
  <2> QED
    BY <1>1, <2>1 DEF PublishedUsers, PublishedProjects
<1>3. /\ Circle!Known = {LINUS} \intersect UserIds /\ DealtUsers = Circle!Known
      /\ Circle!Known \ Dealt = {}
  BY <1>1, <1>2 DEF Circle!Known, DealtUsers
<1>4. Circle!AuthorsOf({}) = {} /\ Circle!ProjectsOf({}) = {}
  BY DEF Circle!AuthorsOf, Circle!ProjectsOf
<1>5. Basis
  BY <1>2, <1>3, <1>4, ReachGrows DEF Basis
<1>6. ProjectsFound /\ UsersFound
  BY <1>1, ServerAndClients DEF ProjectsFound, UsersFound
<1>7. \A n \in Client : DeltasOf(n) /\ ClientFound(n)
  BY <1>1, ServerAndClients DEF DeltasOf, Pending, ClientFound
<1> QED
  BY <1>5, <1>6, <1>7 DEF FoundInv

LEMMA NextKeepsFound ==
    ASSUME AnswerInv, TwoNodesExact, NothingCut, [Next]_vars
    PROVE  FoundInv'
<1>1. LinusInv
  BY DEF AnswerInv
<1>2. ASSUME NEW n \in Node, TagProjects(n)
      PROVE  FoundInv'
  BY <1>2, ServerAndClients, ServerTagsFound, ClientTagsFound
<1> QED
  BY <1>1, <1>2, StepsQuietOrNot, QuietFound, ProjectsSentFound, UsersSentFound,
     MergeFound, PublishProjectsFound, PublishUsersFound

(* Only the step that publishes the users of a stage is one of Circle.      *)
LEMMA CircleSteps ==
    ASSUME AnswerInv, TwoNodesExact, [Next]_vars
    PROVE  [Circle!Widen]_<<commits, stage[Server], PublishedUsers, PublishedProjects>>
<1>t. /\ LinusInv /\ SetsInv /\ TypeOK /\ Server \in Node /\ Client \subseteq Node
      /\ Server \notin Client
  BY ServerAndClients DEF AnswerInv, LinusInv
<1>1. ASSUME commits' = commits, kv'[Server] = kv[Server], stage'[Server] = stage[Server]
      PROVE  UNCHANGED <<commits, stage[Server], PublishedUsers, PublishedProjects>>
  BY <1>1, SameCircle
<1>2. CASE Quiet \/ (\E n \in Node : TagProjects(n)) \/ (MergeDelta /\ ~Fail(Server))
  <2>1. commits' = commits /\ kv' = kv /\ stage' = stage
    BY <1>2 DEF Quiet, TagProjects, MergeDelta
  <2> QED
    BY <1>1, <2>1
<1>3. ASSUME NEW n \in Client, (SendProjects(n) \/ SendUsers(n)) /\ ~Fail(n)
      PROVE  UNCHANGED <<commits, stage[Server], PublishedUsers, PublishedProjects>>
  <2>1. commits' = commits /\ kv'[Server] = kv[Server] /\ stage'[Server] = stage[Server]
    BY <1>t, <1>3 DEF SendProjects, SendUsers, EndStage, Put, TypeOK
  <2> QED
    BY <1>1, <2>1
<1>4. CASE PublishProjects
  <2>1. commits' = commits /\ stage' = stage
    BY <1>4 DEF PublishProjects
  <2>2. PublishedUsers' = PublishedUsers /\ PublishedProjects' = PublishedProjects
    BY <1>t, <1>4, ProjectsPublished
  <2> QED
    BY <2>1, <2>2
<1>5. CASE PublishUsers
  BY <1>5, WidenStep
<1> QED
  BY <1>t, <1>2, <1>3, <1>4, <1>5, StepsQuietOrNot

LEMMA AnswerHolds ==
    ASSUME TwoNodesExact
    PROVE  Spec /\ []NothingCut => []AnswerInv
<1>1. Init => SetsInv /\ ArrivesInv /\ FoundInv
  BY InitSets, InitArrived, InitFound
<1>2. (LinusInv /\ TurnsInv /\ DealInv /\ SetsInv /\ ArrivesInv /\ FoundInv
           /\ NothingCut /\ [Next]_vars)
         => (DealInv' /\ SetsInv' /\ ArrivesInv' /\ FoundInv')
  BY NextKeepsDeal, NextKeepsSets, NextKeepsArrived, NextKeepsFound
     DEF AnswerInv, NothingCut
<1>3. Spec => [](LinusInv /\ TurnsInv)
  BY TurnsHold DEF TwoNodesExact
<1>4. Init => DealInv
  BY InitDeal
<1> QED
  BY <1>1, <1>2, <1>3, <1>4, PTL DEF Spec, AnswerInv

(* With two nodes, as long as no column is cut at its line buffer, node 0   *)
(* publishes the circle of one degree more each time, whatever fails on the *)
(* way and whatever the freed set of projects holds: the projects are all   *)
(* and only those of the users known; the users are all their authors, and  *)
(* only they unless the set may have been recycled (linus.h:167, step).     *)
THEOREM TwoNodesAnswer ==
    ASSUME TwoNodesExact
    PROVE  Spec /\ []NothingCut => AnswerCorrect
<1>1. Init => Circle!Init
  <2>1. 1 .. 0 = {} /\ 0 .. 0 - 1 = {}
    OBVIOUS
  <2> QED
    BY <2>1, ServerAndClients DEF Init, Circle!Init, PublishedUsers, PublishedProjects
<1>2. AnswerInv /\ [Next]_vars
        => [Circle!Widen]_<<commits, stage[Server], PublishedUsers, PublishedProjects>>
  BY CircleSteps
<1> QED
  BY <1>1, <1>2, AnswerHolds, PTL DEF Spec, AnswerCorrect, Circle!Spec, Circle!vars

============================================================================
