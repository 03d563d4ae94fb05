--------------------------- MODULE StartupProofs ---------------------------
(* Proofs about Startup, for any number of nodes, launched in any order.    *)
EXTENDS Startup, NumberLemmas

---------------------------------------------------------------------------
(* While the server is joining it counts the clients it has entered in its  *)
(* table; it leaves that phase when it has counted them all.                *)
Joining == pc[Server] \in {"off", "register"}
Entered == {n \in Client : table[n].ip # Unset}
ClientPorts == {Port[n] : n \in Client}

Roles ==
    /\ pc[Server] # "wait"
    /\ \A n \in Client : pc[n] # "send"
ListensWhileUp == \A n \in Node : listening[n] <=> pc[n] \notin {"off", "running", "failed"}

(* The table has an ip only under the node it belongs to.                   *)
EntriesOwn ==
    /\ \A n \in Client : table[n].ip \in {Unset, n}
    /\ pc[Server] # "off" => table[Server] = Address(Server)
CountsEntered ==
    Joining => /\ Cardinality(Entered) = turn - 1
               /\ \A m \in 1 .. turn - 1 : table[m].port \in ClientPorts
AllEntered ==
    ~Joining => \A n \in Client : table[n].ip = n /\ table[n].port \in ClientPorts

(* The server is sent one Register by each client that waits and is not in  *)
(* the table yet.                                                           *)
RegistersPending ==
    /\ \A i \in 1 .. Len(inbox[Server]) :
          \E n \in Client : /\ inbox[Server][i] = RegisterOf(n)
                            /\ pc[n] = "wait" /\ table[n].ip = Unset
    /\ \A i, j \in 1 .. Len(inbox[Server]) :
          inbox[Server][i].sender = inbox[Server][j].sender => i = j
EnteredWait ==
    \A n \in Client : table[n].ip # Unset => pc[n] \in {"wait", "ready", "running"}

(* No client has been told anything before the last Register; from then on  *)
(* the directory goes to the clients in their order.                        *)
NoneTold ==
    Joining => \A n \in Client : /\ pc[n] \in {"off", "register", "wait", "failed"}
                                 /\ inbox[n] = << >> /\ dir[n] = << >>
InTurn ==
    pc[Server] = "send" =>
        \A n \in Client : n >= turn => pc[n] = "wait" /\ inbox[n] = << >>
DirectoryPending ==
    \A n \in Client : inbox[n] # << >> =>
        pc[n] = "wait" /\ inbox[n] = <<DirectoryMsg(table)>>
DirectoryTaken ==
    \A n \in Client : dir[n] # << >> => dir[n] = table

StartupInv ==
    /\ TypeOK /\ Roles /\ ListensWhileUp
    /\ EntriesOwn /\ CountsEntered /\ AllEntered
    /\ RegistersPending /\ EnteredWait
    /\ NoneTold /\ InTurn /\ DirectoryPending /\ DirectoryTaken

---------------------------------------------------------------------------
LEMMA NodeFacts ==
    /\ NumNodes \in Nat \ {0} /\ Server \in Node
    /\ Client = 1 .. NumNodes - 1
    /\ IsFiniteSet(Client) /\ Cardinality(Client) = NumNodes - 1
    /\ \A n \in Node : Port[n] \in Nat /\ Address(n) \in Entry
    /\ UnsetEntry \in Entry
<1>1. NumNodes \in Nat \ {0} /\ Server \in Node /\ Client = 1 .. NumNodes - 1
  BY NumNodesAssumption DEF Node, Server, Client
<1>2. IsFiniteSet(Client) /\ Cardinality(Client) = NumNodes - 1
  BY <1>1, FS_Interval
<1>3. \A n \in Node : Port[n] \in Nat /\ Address(n) \in Entry
  BY StartupAssumption DEF Address, Entry
<1> QED
  BY <1>1, <1>2, <1>3 DEF UnsetEntry, Entry

LEMMA InitStarts == Init => StartupInv
<1> SUFFICES ASSUME Init PROVE StartupInv
  OBVIOUS
<1> USE NodeFacts
<1>1. TypeOK
  BY DEF Init, TypeOK, Labels, Table
<1>2. Roles /\ ListensWhileUp /\ RegistersPending
  BY DEF Init, Roles, ListensWhileUp, RegistersPending, Client
<1>3. \A n \in Node : table[n].ip = Unset
  BY DEF Init, UnsetEntry
<1>4. EntriesOwn /\ EnteredWait
  BY <1>3 DEF Init, EntriesOwn, EnteredWait, Client
<1>5. Entered = {}
  BY <1>3 DEF Entered, Client
<1>6. CountsEntered
  BY <1>5, FS_EmptySet DEF Init, CountsEntered
<1>7. AllEntered /\ NoneTold /\ InTurn /\ DirectoryPending /\ DirectoryTaken
  BY DEF Init, Joining, AllEntered, NoneTold, InTurn, DirectoryPending,
         DirectoryTaken, Client
<1> QED
  BY <1>1, <1>2, <1>4, <1>6, <1>7 DEF StartupInv

LEMMA StutterKeeps == StartupInv /\ UNCHANGED vars => StartupInv'
BY DEF StartupInv, vars, netVars, TypeOK, Roles, ListensWhileUp, EntriesOwn,
       CountsEntered, AllEntered, RegistersPending, EnteredWait, NoneTold,
       InTurn, DirectoryPending, DirectoryTaken, Joining, Entered

(* A step that leaves the mailbox of the server alone leaves the Registers  *)
(* in it as they are.                                                       *)
LEMMA RegistersKept ==
    ASSUME RegistersPending, inbox'[Server] = inbox[Server],
           \A m \in Client :
               pc[m] = "wait" /\ table[m].ip = Unset =>
                   pc'[m] = "wait" /\ table'[m].ip = Unset
    PROVE  RegistersPending'
<1>1. ASSUME NEW i \in 1 .. Len(inbox[Server])
      PROVE  \E m \in Client : /\ inbox[Server][i] = RegisterOf(m)
                               /\ pc'[m] = "wait" /\ table'[m].ip = Unset
  <2>1. PICK m \in Client : /\ inbox[Server][i] = RegisterOf(m)
                            /\ pc[m] = "wait" /\ table[m].ip = Unset
    BY DEF RegistersPending
  <2> QED
    BY <2>1
<1> QED
  BY <1>1 DEF RegistersPending, RegisterOf, Address

LEMMA LaunchKeeps ==
    ASSUME StartupInv, NEW n \in Node, Launch(n)
    PROVE  StartupInv'
<1> USE NodeFacts
<1>1. /\ pc[n] = "off" /\ pc' = [pc EXCEPT ![n] = "register"]
      /\ listening' = [listening EXCEPT ![n] = TRUE]
      /\ UNCHANGED <<inbox, fds, turn, dir>>
      /\ table' = IF n = Server THEN [table EXCEPT ![n] = Address(n)] ELSE table
  BY DEF Launch, Goto
<1>2. TypeOK /\ pc \in [Node -> Labels] /\ table \in Table
      /\ listening \in [Node -> BOOLEAN]
  BY DEF StartupInv, TypeOK
<1>3. pc' \in [Node -> Labels] /\ table' \in Table
  BY <1>1, <1>2 DEF Labels, Table
<1>4. TypeOK'
  BY <1>1, <1>2, <1>3 DEF TypeOK
<1>5. (Roles /\ ListensWhileUp)'
  <2>1. Roles /\ ListensWhileUp
    BY DEF StartupInv
  <2> QED
    BY <1>1, <1>2, <2>1 DEF Roles, ListensWhileUp, Client
<1>6. \A m \in Client : table'[m] = table[m]
  BY <1>1, <1>2 DEF Client, Table
<1>7. Entered' = Entered
  BY <1>6 DEF Entered
<1>8. Joining' <=> Joining
  BY <1>1, <1>2 DEF Joining
<1>9. EntriesOwn'
  <2>1. EntriesOwn
    BY DEF StartupInv
  <2>2. (\A m \in Client : table[m].ip \in {Unset, m})'
    BY <1>6, <2>1 DEF EntriesOwn
  <2>3. (pc[Server] # "off" => table[Server] = Address(Server))'
    <3>1. CASE n = Server
      BY <1>1, <1>2, <3>1 DEF Table, Address
    <3>2. CASE n # Server
      BY <1>1, <1>2, <2>1, <3>2 DEF EntriesOwn, Address
    <3> QED
      BY <3>1, <3>2
  <2> QED
    BY <2>2, <2>3 DEF EntriesOwn
<1>10. CountsEntered'
  <2>1. CountsEntered /\ turn \in 1 .. NumNodes
    BY DEF StartupInv, TypeOK
  <2>2. \A m \in 1 .. turn - 1 : m \in Client
    BY <2>1
  <2> QED
    BY <1>1, <1>6, <1>7, <1>8, <2>1, <2>2 DEF CountsEntered, ClientPorts
<1>11. AllEntered'
  BY <1>6, <1>8 DEF StartupInv, AllEntered, ClientPorts
<1>12. RegistersPending'
  <2>1. RegistersPending
    BY DEF StartupInv
  <2>2. \A m \in Client : pc[m] = "wait" => pc'[m] = "wait"
    BY <1>1, <1>2 DEF Client
  <2> QED
    BY <1>1, <1>6, <2>1, <2>2, RegistersKept
<1>13. EnteredWait'
  <2>1. EnteredWait
    BY DEF StartupInv
  <2> QED
    BY <1>1, <1>2, <1>6, <2>1 DEF EnteredWait, Client
<1>14. NoneTold'
  <2>1. NoneTold
    BY DEF StartupInv
  <2> QED
    BY <1>1, <1>2, <1>8, <2>1 DEF NoneTold, Client
<1>15. InTurn'
  <2>1. InTurn
    BY DEF StartupInv
  <2> QED
    BY <1>1, <1>2, <2>1 DEF InTurn, Client
<1>16. pc[Server] = "off" => \A m \in Client : inbox[m] = << >> /\ dir[m] = << >>
  BY DEF StartupInv, NoneTold, Joining
<1>17. n # Server => table' = table
  BY <1>1
<1>18. DirectoryPending'
  <2>1. DirectoryPending
    BY DEF StartupInv
  <2> QED
    BY <1>1, <1>2, <1>16, <1>17, <2>1 DEF DirectoryPending, Client
<1>19. DirectoryTaken'
  <2>1. DirectoryTaken
    BY DEF StartupInv
  <2> QED
    BY <1>1, <1>16, <1>17, <2>1 DEF DirectoryTaken
<1> QED
  BY <1>4, <1>5, <1>9, <1>10, <1>11, <1>12, <1>13, <1>14, <1>15, <1>18, <1>19
  DEF StartupInv

LEMMA FailKeeps ==
    ASSUME StartupInv, NEW n \in Node, Fail(n),
           \/ n \in Client /\ pc[n] = "register"
           \/ n = Server /\ pc[n] = "send"
    PROVE  StartupInv'
<1> USE NodeFacts
<1>1. /\ pc' = [pc EXCEPT ![n] = "failed"]
      /\ listening' = [listening EXCEPT ![n] = FALSE]
      /\ inbox' = [inbox EXCEPT ![n] = << >>]
      /\ UNCHANGED <<fds, turn, table, dir>>
  BY DEF Fail, Goto, CloseSocket
<1>2. TypeOK /\ pc \in [Node -> Labels] /\ listening \in [Node -> BOOLEAN]
      /\ inbox \in [Node -> Seq(Message)]
  BY DEF StartupInv, TypeOK
<1>3. << >> \in Seq(Message)
  OBVIOUS
<1>4. pc' \in [Node -> Labels] /\ inbox' \in [Node -> Seq(Message)]
  BY <1>1, <1>2, <1>3 DEF Labels
<1>5. TypeOK'
  BY <1>1, <1>2, <1>4 DEF TypeOK
<1>6. (Roles /\ ListensWhileUp)'
  <2>1. Roles /\ ListensWhileUp
    BY DEF StartupInv
  <2> QED
    BY <1>1, <1>2, <2>1 DEF Roles, ListensWhileUp, Client
<1>7. /\ Joining' <=> Joining
      /\ pc'[Server] \in {"off", "send"} <=> pc[Server] = "off" \/ (pc[Server] = "send" /\ n # Server)
  BY <1>1, <1>2 DEF Joining, Client, Server
<1>8. Entered' = Entered
  BY <1>1 DEF Entered
<1>9. (EntriesOwn /\ CountsEntered /\ AllEntered)'
  <2>1. EntriesOwn /\ CountsEntered /\ AllEntered
    BY DEF StartupInv
  <2>2. pc'[Server] = "off" <=> pc[Server] = "off"
    BY <1>1, <1>2 DEF Client, Server
  <2>3. EntriesOwn'
    BY <1>1, <2>1, <2>2 DEF EntriesOwn, Address
  <2>4. CountsEntered'
    BY <1>1, <1>7, <1>8, <2>1 DEF CountsEntered, ClientPorts
  <2>5. AllEntered'
    BY <1>1, <1>7, <2>1 DEF AllEntered, ClientPorts
  <2> QED
    BY <2>3, <2>4, <2>5
<1>10. \A m \in Client : pc[m] = "wait" \/ table[m].ip # Unset => pc'[m] = pc[m]
  <2>1. EnteredWait
    BY DEF StartupInv
  <2> QED
    BY <1>1, <1>2, <2>1 DEF EnteredWait, Client
<1>11. RegistersPending'
  <2>1. CASE n = Server
    <3>1. inbox'[Server] = << >>
      BY <1>1, <1>2, <2>1
    <3>2. Len(inbox'[Server]) = 0
      BY <3>1
    <3> QED
      BY <3>2 DEF RegistersPending
  <2>2. CASE n # Server
    <3>1. inbox'[Server] = inbox[Server]
      BY <1>1, <1>2, <2>2
    <3>2. RegistersPending
      BY DEF StartupInv
    <3> QED
      BY <1>1, <1>10, <3>1, <3>2, RegistersKept
  <2> QED
    BY <2>1, <2>2
<1>12. EnteredWait'
  <2>1. EnteredWait
    BY DEF StartupInv
  <2> QED
    BY <1>1, <1>10, <2>1 DEF EnteredWait
<1>13. \A m \in Client : inbox[m] = << >> => inbox'[m] = << >>
  BY <1>1, <1>2 DEF Client
<1>14. NoneTold'
  <2>1. NoneTold
    BY DEF StartupInv
  <2>2. \A m \in Client : pc'[m] \in {pc[m], "failed"}
    BY <1>1, <1>2 DEF Client
  <2> QED
    BY <1>1, <1>7, <1>13, <2>1, <2>2 DEF NoneTold
<1>15. InTurn'
  <2>1. InTurn
    BY DEF StartupInv
  <2>2. pc'[Server] = "send" => pc[Server] = "send"
    BY <1>1, <1>2
  <2> QED
    BY <1>1, <1>10, <1>13, <2>1, <2>2 DEF InTurn
<1>16. DirectoryPending'
  <2>1. DirectoryPending
    BY DEF StartupInv
  <2>2. \A m \in Client : inbox'[m] # << >> => inbox'[m] = inbox[m]
    BY <1>1, <1>2 DEF Client
  <2> QED
    BY <1>1, <1>10, <2>1, <2>2 DEF DirectoryPending, DirectoryMsg
<1>17. DirectoryTaken'
  BY <1>1 DEF StartupInv, DirectoryTaken
<1> QED
  BY <1>5, <1>6, <1>9, <1>11, <1>12, <1>14, <1>15, <1>16, <1>17 DEF StartupInv

LEMMA RegisterKeeps ==
    ASSUME StartupInv, NEW n \in Client, pc[n] = "register",
           Send(n, Server, RegisterOf(n)), Goto(n, "wait"),
           UNCHANGED <<turn, table, dir>>
    PROVE  StartupInv'
<1> USE NodeFacts
<1> DEFINE len == Len(inbox[Server])
<1>1. /\ pc' = [pc EXCEPT ![n] = "wait"]
      /\ inbox' = [inbox EXCEPT ![Server] = Append(inbox[Server], RegisterOf(n))]
      /\ fds' = [fds EXCEPT ![n] = @ + 1]
      /\ UNCHANGED <<listening, turn, table, dir>>
  BY DEF Send, Goto
<1>2. TypeOK /\ pc \in [Node -> Labels] /\ listening \in [Node -> BOOLEAN]
      /\ inbox \in [Node -> Seq(Message)] /\ fds \in [Node -> Nat]
  BY DEF StartupInv, TypeOK
<1>3. n \in Node /\ n # Server
  BY DEF Client
<1>4. RegisterOf(n) \in Message
  BY <1>3 DEF Message, RegisterOf
<1>5. /\ pc' \in [Node -> Labels]
      /\ fds' \in [Node -> Nat]
  BY <1>1, <1>2, <1>3 DEF Labels
<1>6. inbox' \in [Node -> Seq(Message)]
  BY <1>1, <1>2, <1>4
<1>7. TypeOK'
  BY <1>1, <1>2, <1>5, <1>6 DEF TypeOK
<1>8. pc'[n] = "wait" /\ \A m \in Node \ {n} : pc'[m] = pc[m]
  BY <1>1, <1>2, <1>3
<1>9. (Roles /\ ListensWhileUp)'
  <2>1. Roles /\ ListensWhileUp
    BY DEF StartupInv
  <2> QED
    BY <1>1, <1>3, <1>8, <2>1 DEF Roles, ListensWhileUp, Client
<1>10. pc'[Server] = pc[Server] /\ (Joining' <=> Joining)
  BY <1>3, <1>8 DEF Joining
<1>11. Entered' = Entered
  BY <1>1 DEF Entered
<1>12. (EntriesOwn /\ CountsEntered /\ AllEntered)'
  <2>1. EntriesOwn /\ CountsEntered /\ AllEntered
    BY DEF StartupInv
  <2>3. EntriesOwn'
    BY <1>1, <1>10, <2>1 DEF EntriesOwn, Address
  <2>4. CountsEntered'
    BY <1>1, <1>10, <1>11, <2>1 DEF CountsEntered, ClientPorts
  <2>5. AllEntered'
    BY <1>1, <1>10, <2>1 DEF AllEntered, ClientPorts
  <2> QED
    BY <2>3, <2>4, <2>5
<1>13. table[n].ip = Unset
  <2>1. EnteredWait
    BY DEF StartupInv
  <2> QED
    BY <2>1 DEF EnteredWait
<1>14. RegistersPending'
  <2>1. RegistersPending
    BY DEF StartupInv
  <2>2. /\ Len(inbox'[Server]) = len + 1 /\ inbox'[Server][len + 1] = RegisterOf(n)
        /\ \A i \in 1 .. len : inbox'[Server][i] = inbox[Server][i]
        /\ len \in Nat
    BY <1>1, <1>2, <1>4
  <2>3. \A i \in 1 .. len :
           \E m \in Client : /\ inbox[Server][i] = RegisterOf(m)
                             /\ pc[m] = "wait" /\ table[m].ip = Unset
    BY <2>1 DEF RegistersPending
  <2>4. ASSUME NEW i \in 1 .. len
        PROVE  /\ inbox[Server][i].sender # n
               /\ \E m \in Client : /\ inbox[Server][i] = RegisterOf(m)
                                    /\ pc'[m] = "wait" /\ table'[m].ip = Unset
    <3>1. PICK m \in Client : /\ inbox[Server][i] = RegisterOf(m)
                              /\ pc[m] = "wait" /\ table[m].ip = Unset
      BY <2>3
    <3>2. m # n /\ m \in Node
      BY <3>1 DEF Client
    <3>3. inbox[Server][i].sender = m
      BY <3>1 DEF RegisterOf
    <3> QED
      BY <1>1, <1>8, <3>1, <3>2, <3>3
  <2>5. ASSUME NEW i \in 1 .. len + 1
        PROVE  \E m \in Client : /\ inbox'[Server][i] = RegisterOf(m)
                                 /\ pc'[m] = "wait" /\ table'[m].ip = Unset
    <3>1. CASE i = len + 1
      BY <1>1, <1>8, <1>13, <2>2, <3>1
    <3>2. CASE i # len + 1
      <4>1. i \in 1 .. len
        BY <2>2, <3>2
      <4> QED
        BY <2>2, <2>4, <4>1
    <3> QED
      BY <3>1, <3>2
  <2>6. /\ inbox'[Server][len + 1].sender = n
        /\ \A i \in 1 .. len : inbox'[Server][i].sender # n
    BY <2>2, <2>4 DEF RegisterOf
  <2>7. ASSUME NEW i \in 1 .. len + 1, NEW j \in 1 .. len + 1,
               inbox'[Server][i].sender = inbox'[Server][j].sender
        PROVE  i = j
    <3>1. \A k \in 1 .. len + 1 : k \in 1 .. len \/ k = len + 1
      BY <2>2
    <3>2. CASE i \in 1 .. len /\ j \in 1 .. len
      BY <2>1, <2>2, <2>7, <3>2 DEF RegistersPending
    <3>3. CASE i \in 1 .. len /\ j = len + 1
      BY <2>6, <2>7, <3>3
    <3>4. CASE i = len + 1 /\ j \in 1 .. len
      BY <2>6, <2>7, <3>4
    <3> QED
      BY <3>1, <3>2, <3>3, <3>4
  <2> HIDE DEF len
  <2> QED
    BY <2>2, <2>5, <2>7 DEF RegistersPending, RegisterOf, Address
<1>15. EnteredWait'
  <2>1. EnteredWait
    BY DEF StartupInv
  <2> QED
    BY <1>1, <1>8, <1>13, <2>1 DEF EnteredWait, Client
<1>16. \A m \in Client : inbox'[m] = inbox[m]
  BY <1>1, <1>2 DEF Client
<1>17. NoneTold'
  <2>1. NoneTold
    BY DEF StartupInv
  <2> QED
    BY <1>1, <1>8, <1>10, <1>16, <2>1 DEF NoneTold, Client
<1>18. InTurn'
  <2>1. InTurn
    BY DEF StartupInv
  <2> QED
    BY <1>1, <1>8, <1>10, <1>16, <2>1 DEF InTurn, Client
<1>19. DirectoryPending'
  <2>1. DirectoryPending
    BY DEF StartupInv
  <2> QED
    BY <1>1, <1>8, <1>16, <2>1 DEF DirectoryPending, DirectoryMsg, Client
<1>20. DirectoryTaken'
  BY <1>1 DEF StartupInv, DirectoryTaken
<1> QED
  BY <1>7, <1>9, <1>12, <1>14, <1>15, <1>17, <1>18, <1>19, <1>20 DEF StartupInv

LEMMA TakeRegisterKeeps ==
    ASSUME StartupInv, TakeRegister
    PROVE  StartupInv'
<1> USE NodeFacts
<1> DEFINE len == Len(inbox[Server])
<1>1. /\ pc[Server] = "register" /\ turn < NumNodes
      /\ inbox[Server] # << >>
      /\ inbox' = [inbox EXCEPT ![Server] = Tail(inbox[Server])]
      /\ fds' = [fds EXCEPT ![Server] = @ + 1]
      /\ table' = Record(Head(inbox[Server]))
      /\ turn' = turn + 1
      /\ UNCHANGED <<listening, pc, dir>>
  BY DEF TakeRegister, Receive
<1>2. TypeOK /\ table \in Table /\ turn \in 1 .. NumNodes
      /\ inbox \in [Node -> Seq(Message)] /\ fds \in [Node -> Nat]
  BY DEF StartupInv, TypeOK
<1>3. /\ len \in Nat \ {0} /\ Head(inbox[Server]) = inbox[Server][1]
      /\ inbox'[Server] = Tail(inbox[Server])
      /\ inbox'[Server] \in Seq(Message) /\ Len(inbox'[Server]) = len - 1
      /\ \A i \in 1 .. len - 1 : inbox'[Server][i] = inbox[Server][i + 1]
  BY <1>1, <1>2
<1>4. PICK n \in Client : /\ inbox[Server][1] = RegisterOf(n)
                          /\ pc[n] = "wait" /\ table[n].ip = Unset
  <2>1. RegistersPending
    BY DEF StartupInv
  <2> QED
    BY <1>3, <2>1 DEF RegistersPending
<1>5. n \in Node /\ turn \in Client /\ turn \in Node /\ n # Server /\ turn # Server
  BY <1>1, <1>2 DEF Node, Server
<1>6. table' = [table EXCEPT ![n].ip = n, ![turn].port = Port[n]]
  <2>1. /\ RegisterOf(n).sender = n
        /\ RegisterOf(n).address.ip = n /\ RegisterOf(n).address.port = Port[n]
    BY DEF RegisterOf, Address
  <2>2. table' = Record(RegisterOf(n))
    BY <1>1, <1>3, <1>4
  <2> QED
    BY <2>1, <2>2 DEF Record
<1>7. \A m \in Node : table[m] \in Entry
  BY <1>2 DEF Table
<1>8. /\ \A m \in Node : table'[m].ip = IF m = n THEN n ELSE table[m].ip
      /\ \A m \in Node : table'[m].port = IF m = turn THEN Port[n] ELSE table[m].port
  BY <1>2, <1>5, <1>6, <1>7 DEF Table, Entry
<1>9. table' \in Table
  BY <1>2, <1>5, <1>6, <1>7 DEF Table, Entry
<1>10. inbox' \in [Node -> Seq(Message)] /\ fds' \in [Node -> Nat]
  BY <1>1, <1>2, <1>3
<1>11. TypeOK'
  BY <1>1, <1>2, <1>9, <1>10 DEF TypeOK
<1>12. Roles' /\ ListensWhileUp' /\ Joining' /\ Joining
  BY <1>1 DEF StartupInv, Roles, ListensWhileUp, Joining
<1>13. table'[Server] = table[Server]
  BY <1>2, <1>5, <1>6 DEF Table
<1>14. EntriesOwn'
  <2>1. EntriesOwn
    BY DEF StartupInv
  <2>2. (\A m \in Client : table[m].ip \in {Unset, m})'
    BY <1>8, <2>1 DEF EntriesOwn, Client
  <2> QED
    BY <1>1, <1>13, <2>1, <2>2 DEF EntriesOwn, Address
<1>15. CountsEntered'
  <2>1. CountsEntered
    BY DEF StartupInv
  <2>2. n # Unset
    BY <1>4 DEF Unset
  <2>3. \A m \in Client : table'[m].ip # Unset <=> (m = n \/ table[m].ip # Unset)
    BY <1>8, <2>2 DEF Client
  <2>4. Entered' = Entered \union {n}
    BY <2>3 DEF Entered
  <2>5. n \notin Entered
    BY <1>4 DEF Entered
  <2>6. IsFiniteSet(Entered)
    <3>1. Entered \subseteq Client
      BY DEF Entered
    <3> QED
      BY <3>1, FS_Subset
  <2>7. Cardinality(Entered') = Cardinality(Entered) + 1
    BY <2>4, <2>5, <2>6, FS_AddElement
  <2>8. Cardinality(Entered') = turn' - 1
    BY <1>1, <1>2, <1>12, <2>1, <2>7 DEF CountsEntered
  <2>9. ASSUME NEW m \in 1 .. turn
        PROVE  table'[m].port \in ClientPorts
    <3>1. m \in Node
      <4>1. turn < NumNodes /\ turn \in Nat
        BY <1>1, <1>2
      <4> QED
        BY <4>1 DEF Node
    <3>2. CASE m = turn
      BY <1>4, <1>8, <3>1, <3>2 DEF ClientPorts
    <3>3. CASE m # turn
      <4>1. m \in 1 .. turn - 1
        BY <1>2, <3>3
      <4> QED
        BY <1>8, <1>12, <2>1, <3>1, <3>3, <4>1 DEF CountsEntered
    <3> QED
      BY <3>2, <3>3
  <2>10. turn' - 1 = turn
    BY <1>1, <1>2
  <2> QED
    BY <2>8, <2>9, <2>10 DEF CountsEntered, ClientPorts
<1>16. AllEntered'
  BY <1>12 DEF AllEntered
<1>17. RegistersPending'
  <2>1. RegistersPending
    BY DEF StartupInv
  <2>2. ASSUME NEW i \in 1 .. len - 1
        PROVE  \E m \in Client : /\ inbox'[Server][i] = RegisterOf(m)
                                 /\ pc'[m] = "wait" /\ table'[m].ip = Unset
    <3>1. i + 1 \in 1 .. len /\ 1 \in 1 .. len /\ i + 1 # 1
      BY <1>3
    <3>2. PICK m \in Client : /\ inbox[Server][i + 1] = RegisterOf(m)
                              /\ pc[m] = "wait" /\ table[m].ip = Unset
      BY <2>1, <3>1 DEF RegistersPending
    <3>3. inbox[Server][i + 1].sender # inbox[Server][1].sender
      BY <2>1, <3>1 DEF RegistersPending
    <3>4. m # n /\ m \in Node
      BY <1>4, <3>2, <3>3 DEF Client
    <3> QED
      BY <1>1, <1>3, <1>8, <3>2, <3>4
  <2>3. ASSUME NEW i \in 1 .. len - 1, NEW j \in 1 .. len - 1,
               inbox'[Server][i].sender = inbox'[Server][j].sender
        PROVE  i = j
    <3>1. i + 1 \in 1 .. len /\ j + 1 \in 1 .. len
      BY <1>3
    <3>2. inbox[Server][i + 1].sender = inbox[Server][j + 1].sender
      BY <1>3, <2>3
    <3>3. i + 1 = j + 1
      BY <2>1, <3>1, <3>2 DEF RegistersPending
    <3> QED
      BY <3>3
  <2> HIDE DEF len
  <2> QED
    BY <1>3, <2>2, <2>3 DEF RegistersPending, RegisterOf, Address
<1>18. EnteredWait'
  <2>1. EnteredWait
    BY DEF StartupInv
  <2> QED
    BY <1>1, <1>4, <1>8, <2>1 DEF EnteredWait, Client
<1>19. \A m \in Client : inbox'[m] = inbox[m]
  BY <1>1, <1>2 DEF Client
<1>20. NoneTold
  BY DEF StartupInv
<1>21. NoneTold'
  BY <1>1, <1>12, <1>19, <1>20 DEF NoneTold
<1>22. (InTurn /\ DirectoryPending /\ DirectoryTaken)'
  BY <1>1, <1>12, <1>21 DEF NoneTold, InTurn, DirectoryPending, DirectoryTaken
<1> QED
  BY <1>11, <1>12, <1>14, <1>15, <1>16, <1>17, <1>18, <1>21, <1>22 DEF StartupInv

LEMMA BuildDirectoryKeeps ==
    ASSUME StartupInv, BuildDirectory
    PROVE  StartupInv'
<1> USE NodeFacts
<1>1. /\ pc[Server] = "register" /\ turn = NumNodes /\ turn' = 1
      /\ pc' = [pc EXCEPT ![Server] = "send"]
      /\ UNCHANGED <<listening, inbox, fds, table, dir>>
  BY DEF BuildDirectory, Goto, netVars
<1>2. TypeOK /\ pc \in [Node -> Labels] /\ turn \in 1 .. NumNodes
  BY DEF StartupInv, TypeOK
<1>3. pc'[Server] = "send" /\ \A m \in Client : pc'[m] = pc[m]
  BY <1>1, <1>2 DEF Client
<1>4. TypeOK'
  <2>1. pc' \in [Node -> Labels] /\ turn' \in 1 .. NumNodes
    BY <1>1, <1>2 DEF Labels
  <2> QED
    BY <1>1, <1>2, <2>1 DEF TypeOK
<1>5. (Roles /\ ListensWhileUp)'
  <2>1. Roles /\ ListensWhileUp
    BY DEF StartupInv
  <2> QED
    BY <1>1, <1>2, <2>1 DEF Roles, ListensWhileUp, Client
<1>6. Joining /\ ~Joining'
  BY <1>1, <1>3 DEF Joining
<1>7. Entered = Client
  <2>1. Cardinality(Entered) = NumNodes - 1
    BY <1>1, <1>6 DEF StartupInv, CountsEntered
  <2>2. Entered \subseteq Client
    BY DEF Entered
  <2> QED
    BY <2>1, <2>2, FS_Subset
<1>8. \A m \in Client : table[m].ip = m /\ table[m].port \in ClientPorts
  <2>1. EntriesOwn /\ CountsEntered
    BY DEF StartupInv
  <2>2. \A m \in Client : table[m].ip # Unset
    BY <1>7 DEF Entered
  <2> QED
    BY <1>1, <1>6, <2>1, <2>2 DEF EntriesOwn, CountsEntered
<1>9. (EntriesOwn /\ CountsEntered /\ AllEntered)'
  <2>1. EntriesOwn
    BY DEF StartupInv
  <2>2. EntriesOwn'
    BY <1>1, <2>1 DEF EntriesOwn, Address
  <2>3. CountsEntered'
    BY <1>6 DEF CountsEntered
  <2>4. AllEntered'
    BY <1>1, <1>8 DEF AllEntered, ClientPorts
  <2> QED
    BY <2>2, <2>3, <2>4
<1>10. RegistersPending'
  <2>1. RegistersPending
    BY DEF StartupInv
  <2> QED
    BY <1>1, <1>3, <2>1, RegistersKept
<1>11. EnteredWait /\ NoneTold
  BY DEF StartupInv
<1>12. EnteredWait'
  BY <1>1, <1>3, <1>11 DEF EnteredWait
<1>13. \A m \in Client : m # Unset
  BY DEF Unset
<1>14. \A m \in Client : pc[m] = "wait" /\ inbox[m] = << >> /\ dir[m] = << >>
  BY <1>6, <1>8, <1>11, <1>13 DEF EnteredWait, NoneTold
<1>15. (NoneTold /\ InTurn /\ DirectoryPending /\ DirectoryTaken)'
  BY <1>1, <1>3, <1>6, <1>14 DEF NoneTold, InTurn, DirectoryPending, DirectoryTaken
<1> QED
  BY <1>4, <1>5, <1>9, <1>10, <1>12, <1>15 DEF StartupInv

LEMMA SendDirectoryKeeps ==
    ASSUME StartupInv, pc[Server] = "send", turn < NumNodes,
           NEW to \in ListenerAt(table[turn]),
           Send(Server, to, DirectoryMsg(table)),
           turn' = turn + 1, UNCHANGED <<pc, table, dir>>
    PROVE  StartupInv'
<1> USE NodeFacts
<1>1. /\ inbox' = [inbox EXCEPT ![to] = Append(inbox[to], DirectoryMsg(table))]
      /\ fds' = [fds EXCEPT ![Server] = @ + 1]
      /\ UNCHANGED <<listening, pc, table, dir>>
  BY DEF Send
<1>2. TypeOK /\ table \in Table /\ turn \in 1 .. NumNodes
      /\ inbox \in [Node -> Seq(Message)] /\ fds \in [Node -> Nat]
  BY DEF StartupInv, TypeOK
<1>3. turn \in Client /\ ~Joining
  BY <1>2 DEF Joining
<1>4. EntriesOwn /\ CountsEntered /\ AllEntered
  BY DEF StartupInv
<1>5. to = turn /\ to # Server /\ to \in Node
  <2>1. to \in Node /\ Address(to) = table[turn]
    BY DEF ListenerAt
  <2>2. Address(to).ip = to
    BY DEF Address
  <2>3. table[turn].ip = turn
    BY <1>3, <1>4 DEF AllEntered
  <2> QED
    BY <1>3, <2>1, <2>2, <2>3 DEF Server
<1>6. pc[to] = "wait" /\ inbox[to] = << >>
  <2>1. InTurn
    BY DEF StartupInv
  <2> QED
    BY <1>2, <1>3, <1>5, <2>1 DEF InTurn
<1>7. inbox'[to] = <<DirectoryMsg(table)>>
      /\ \A m \in Node \ {to} : inbox'[m] = inbox[m]
  BY <1>1, <1>2, <1>5, <1>6
<1>8. DirectoryMsg(table) \in Message
  BY <1>2 DEF DirectoryMsg, Message
<1>9. inbox' \in [Node -> Seq(Message)] /\ fds' \in [Node -> Nat]
  BY <1>1, <1>2, <1>5, <1>8
<1>10. turn' \in 1 .. NumNodes
  BY <1>2
<1>11. TypeOK'
  BY <1>1, <1>2, <1>9, <1>10 DEF TypeOK
<1>12. (Roles /\ ListensWhileUp)' /\ ~Joining'
  BY <1>1, <1>3 DEF StartupInv, Roles, ListensWhileUp, Joining
<1>13. EntriesOwn'
  BY <1>1, <1>4 DEF EntriesOwn, Address
<1>14. CountsEntered' /\ NoneTold'
  BY <1>12 DEF CountsEntered, NoneTold
<1>15. AllEntered'
  BY <1>1, <1>3, <1>4 DEF AllEntered, ClientPorts
<1>16. RegistersPending'
  <2>1. RegistersPending
    BY DEF StartupInv
  <2> QED
    BY <1>1, <1>5, <1>7, <2>1, RegistersKept
<1>17. (EnteredWait /\ DirectoryTaken)'
  BY <1>1 DEF StartupInv, EnteredWait, DirectoryTaken
<1>18. InTurn'
  <2>1. InTurn
    BY DEF StartupInv
  <2>2. \A m \in Client : m >= turn + 1 => m >= turn /\ m # to /\ m \in Node
    BY <1>2, <1>5 DEF Client
  <2> QED
    BY <1>1, <1>7, <2>1, <2>2 DEF InTurn
<1>19. DirectoryPending'
  <2>1. DirectoryPending
    BY DEF StartupInv
  <2>2. \A m \in Client : m \in Node
    BY DEF Client
  <2> QED
    BY <1>1, <1>6, <1>7, <2>1, <2>2 DEF DirectoryPending, DirectoryMsg
<1> QED
  BY <1>11, <1>12, <1>13, <1>14, <1>15, <1>16, <1>17, <1>18, <1>19 DEF StartupInv

LEMMA ServerReadyKeeps ==
    ASSUME StartupInv, ServerReady
    PROVE  StartupInv'
<1> USE NodeFacts
<1>1. /\ pc[Server] = "send"
      /\ pc' = [pc EXCEPT ![Server] = "ready"]
      /\ UNCHANGED <<listening, inbox, fds, turn, table, dir>>
  BY DEF ServerReady, Goto, netVars
<1>2. TypeOK /\ pc \in [Node -> Labels]
  BY DEF StartupInv, TypeOK
<1>3. pc'[Server] = "ready" /\ \A m \in Client : pc'[m] = pc[m]
  BY <1>1, <1>2 DEF Client
<1>4. TypeOK'
  <2>1. pc' \in [Node -> Labels]
    BY <1>1, <1>2 DEF Labels
  <2> QED
    BY <1>1, <1>2, <2>1 DEF TypeOK
<1>5. (Roles /\ ListensWhileUp)'
  <2>1. Roles /\ ListensWhileUp
    BY DEF StartupInv
  <2> QED
    BY <1>1, <1>2, <2>1 DEF Roles, ListensWhileUp, Client
<1>6. ~Joining /\ ~Joining'
  BY <1>1, <1>3 DEF Joining
<1>7. EntriesOwn'
  BY <1>1 DEF StartupInv, EntriesOwn, Address
<1>8. (CountsEntered /\ NoneTold /\ InTurn)'
  BY <1>3, <1>6 DEF CountsEntered, NoneTold, InTurn
<1>9. AllEntered'
  BY <1>1, <1>6 DEF StartupInv, AllEntered, ClientPorts
<1>10. RegistersPending'
  <2>1. RegistersPending
    BY DEF StartupInv
  <2> QED
    BY <1>1, <1>3, <2>1, RegistersKept
<1>11. (EnteredWait /\ DirectoryPending /\ DirectoryTaken)'
  <2>1. EnteredWait /\ DirectoryPending /\ DirectoryTaken
    BY DEF StartupInv
  <2>2. EnteredWait' /\ DirectoryTaken'
    BY <1>1, <1>3, <2>1 DEF EnteredWait, DirectoryTaken
  <2>3. DirectoryPending'
    BY <1>1, <1>3, <2>1 DEF DirectoryPending, DirectoryMsg
  <2> QED
    BY <2>2, <2>3
<1> QED
  BY <1>4, <1>5, <1>7, <1>8, <1>9, <1>10, <1>11 DEF StartupInv

LEMMA TakeDirectoryKeeps ==
    ASSUME StartupInv, NEW n \in Client, TakeDirectory(n)
    PROVE  StartupInv'
<1> USE NodeFacts
<1>1. /\ pc[n] = "wait" /\ inbox[n] # << >>
      /\ pc' = [pc EXCEPT ![n] = "ready"]
      /\ inbox' = [inbox EXCEPT ![n] = Tail(inbox[n])]
      /\ fds' = [fds EXCEPT ![n] = @ + 1]
      /\ dir' = [dir EXCEPT ![n] = [Head(inbox[n]).nodes EXCEPT
                                      ![Server] = Address(Server)]]
      /\ UNCHANGED <<listening, turn, table>>
  BY DEF TakeDirectory, Receive, Goto
<1>2. /\ TypeOK /\ pc \in [Node -> Labels] /\ table \in Table
      /\ inbox \in [Node -> Seq(Message)] /\ fds \in [Node -> Nat]
      /\ dir \in [Node -> Table \union {<< >>}]
  BY DEF StartupInv, TypeOK
<1>3. n \in Node /\ n # Server
  BY DEF Client
<1>4. inbox[n] = <<DirectoryMsg(table)>>
  <2>1. DirectoryPending
    BY DEF StartupInv
  <2> QED
    BY <1>1, <2>1 DEF DirectoryPending
<1>5. ~Joining
  <2>1. NoneTold
    BY DEF StartupInv
  <2> QED
    BY <1>1, <2>1 DEF NoneTold
<1>6. EntriesOwn /\ AllEntered
  BY DEF StartupInv
<1>7. table[Server] = Address(Server)
  BY <1>5, <1>6 DEF EntriesOwn, Joining
<1>8. dir' = [dir EXCEPT ![n] = table]
  <2>1. Head(inbox[n]) = DirectoryMsg(table)
    BY <1>4
  <2>2. Head(inbox[n]).nodes = table
    BY <2>1 DEF DirectoryMsg
  <2>3. [table EXCEPT ![Server] = Address(Server)] = table
    BY <1>2, <1>7 DEF Table
  <2> QED
    BY <1>1, <2>2, <2>3
<1>9. Tail(inbox[n]) = << >> /\ << >> \in Seq(Message)
  BY <1>4
<1>10. /\ inbox'[n] = << >> /\ pc'[n] = "ready" /\ dir'[n] = table
       /\ \A m \in Node \ {n} :
             inbox'[m] = inbox[m] /\ pc'[m] = pc[m] /\ dir'[m] = dir[m]
  BY <1>1, <1>2, <1>3, <1>8, <1>9
<1>11. TypeOK'
  <2>1. pc' \in [Node -> Labels] /\ fds' \in [Node -> Nat]
    BY <1>1, <1>2, <1>3 DEF Labels
  <2>2. inbox' \in [Node -> Seq(Message)]
    BY <1>1, <1>2, <1>9
  <2>3. dir' \in [Node -> Table \union {<< >>}]
    BY <1>2, <1>3, <1>8
  <2> QED
    BY <1>1, <1>2, <2>1, <2>2, <2>3 DEF TypeOK
<1>12. (Roles /\ ListensWhileUp)'
  <2>1. Roles /\ ListensWhileUp
    BY DEF StartupInv
  <2> QED
    BY <1>1, <1>3, <1>10, <2>1 DEF Roles, ListensWhileUp, Client
<1>13. ~Joining' /\ pc'[Server] = pc[Server] /\ inbox'[Server] = inbox[Server]
  BY <1>3, <1>5, <1>10 DEF Joining
<1>14. EntriesOwn'
  BY <1>1, <1>6, <1>13 DEF EntriesOwn, Address
<1>15. (CountsEntered /\ NoneTold)'
  BY <1>13 DEF CountsEntered, NoneTold
<1>16. AllEntered'
  BY <1>1, <1>5, <1>6 DEF AllEntered, ClientPorts
<1>17. \A m \in Client : m \in Node /\ m # Unset
  BY DEF Unset, Client
<1>18. RegistersPending'
  <2>1. RegistersPending
    BY DEF StartupInv
  <2>2. table[n].ip # Unset
    BY <1>5, <1>6, <1>17 DEF AllEntered
  <2> QED
    BY <1>1, <1>10, <1>13, <1>17, <2>1, <2>2, RegistersKept
<1>19. EnteredWait'
  <2>1. EnteredWait
    BY DEF StartupInv
  <2> QED
    BY <1>1, <1>10, <1>17, <2>1 DEF EnteredWait
<1>20. InTurn'
  <2>1. InTurn
    BY DEF StartupInv
  <2> QED
    BY <1>1, <1>4, <1>10, <1>13, <1>17, <2>1 DEF InTurn
<1>21. DirectoryPending'
  <2>1. DirectoryPending
    BY DEF StartupInv
  <2> QED
    BY <1>1, <1>10, <1>17, <2>1 DEF DirectoryPending, DirectoryMsg
<1>22. DirectoryTaken'
  <2>1. DirectoryTaken
    BY DEF StartupInv
  <2> QED
    BY <1>1, <1>10, <1>17, <2>1 DEF DirectoryTaken
<1> QED
  BY <1>11, <1>12, <1>14, <1>15, <1>16, <1>18, <1>19, <1>20, <1>21, <1>22
  DEF StartupInv

LEMMA ConstructKeeps ==
    ASSUME StartupInv, NEW n \in Node, ConstructApplication(n)
    PROVE  StartupInv'
<1> USE NodeFacts
<1>1. /\ pc[n] = "ready"
      /\ pc' = [pc EXCEPT ![n] = "running"]
      /\ listening' = [listening EXCEPT ![n] = FALSE]
      /\ inbox' = [inbox EXCEPT ![n] = << >>]
      /\ UNCHANGED <<fds, turn, table, dir>>
  BY DEF ConstructApplication, CloseSocket, Goto
<1>2. /\ TypeOK /\ pc \in [Node -> Labels] /\ listening \in [Node -> BOOLEAN]
      /\ inbox \in [Node -> Seq(Message)]
  BY DEF StartupInv, TypeOK
<1>3. << >> \in Seq(Message)
  OBVIOUS
<1>4. TypeOK'
  <2>1. pc' \in [Node -> Labels]
    BY <1>1, <1>2 DEF Labels
  <2>2. inbox' \in [Node -> Seq(Message)]
    BY <1>1, <1>2, <1>3
  <2> QED
    BY <1>1, <1>2, <2>1, <2>2 DEF TypeOK
<1>5. /\ inbox'[n] = << >> /\ pc'[n] = "running"
      /\ \A m \in Node \ {n} : inbox'[m] = inbox[m] /\ pc'[m] = pc[m]
  BY <1>1, <1>2
<1>6. (Roles /\ ListensWhileUp)'
  <2>1. Roles /\ ListensWhileUp
    BY DEF StartupInv
  <2> QED
    BY <1>1, <1>2, <1>5, <2>1 DEF Roles, ListensWhileUp, Client
<1>7. ~Joining /\ ~Joining'
  <2>1. NoneTold
    BY DEF StartupInv
  <2>2. ~Joining
    <3>1. CASE n = Server
      BY <1>1, <3>1 DEF Joining
    <3>2. CASE n # Server
      <4>1. n \in Client
        BY <3>2 DEF Client
      <4> QED
        BY <1>1, <2>1, <4>1 DEF NoneTold
    <3> QED
      BY <3>1, <3>2
  <2> QED
    BY <1>1, <1>5, <2>2 DEF Joining
<1>8. EntriesOwn'
  <2>1. EntriesOwn
    BY DEF StartupInv
  <2> QED
    BY <1>1, <1>7, <2>1 DEF EntriesOwn, Joining, Address
<1>9. (CountsEntered /\ NoneTold)'
  BY <1>7 DEF CountsEntered, NoneTold
<1>10. AllEntered /\ AllEntered'
  BY <1>1, <1>7 DEF StartupInv, AllEntered, ClientPorts
<1>11. \A m \in Client : m \in Node /\ m # Unset
  BY DEF Unset, Client
<1>12. RegistersPending'
  <2>1. CASE n = Server
    <3>1. Len(inbox'[Server]) = 0
      BY <1>5, <2>1
    <3> QED
      BY <3>1 DEF RegistersPending
  <2>2. CASE n # Server
    <3>1. RegistersPending
      BY DEF StartupInv
    <3>2. inbox'[Server] = inbox[Server]
      BY <1>5, <2>2
    <3> QED
      BY <1>7, <1>10, <1>11, <3>1, <3>2, RegistersKept DEF AllEntered
  <2> QED
    BY <2>1, <2>2
<1>13. EnteredWait'
  <2>1. EnteredWait
    BY DEF StartupInv
  <2> QED
    BY <1>1, <1>5, <1>11, <2>1 DEF EnteredWait
<1>14. InTurn'
  <2>1. InTurn
    BY DEF StartupInv
  <2> QED
    BY <1>1, <1>5, <1>11, <2>1 DEF InTurn
<1>15. DirectoryPending'
  <2>1. DirectoryPending
    BY DEF StartupInv
  <2> QED
    BY <1>1, <1>5, <1>11, <2>1 DEF DirectoryPending, DirectoryMsg
<1>16. DirectoryTaken'
  BY <1>1 DEF StartupInv, DirectoryTaken
<1> QED
  BY <1>4, <1>6, <1>8, <1>9, <1>10, <1>12, <1>13, <1>14, <1>15, <1>16
  DEF StartupInv

LEMMA StepKeeps ==
    ASSUME StartupInv, NEW n \in Node, Step(n)
    PROVE  StartupInv'
<1>1. CASE Launch(n)
  BY <1>1, LaunchKeeps
<1>2. CASE n = Server /\ ServerStep
  <2>1. CASE TakeRegister
    BY <2>1, TakeRegisterKeeps
  <2>2. CASE BuildDirectory
    BY <2>2, BuildDirectoryKeeps
  <2>3. CASE SendDirectory
    <3>1. CASE ListenerAt(table[turn]) = {}
      <4>1. Fail(Server) /\ pc[Server] = "send"
        BY <2>3, <3>1 DEF SendDirectory
      <4> QED
        BY <1>2, <4>1, FailKeeps
    <3>2. CASE ListenerAt(table[turn]) # {}
      <4>1. /\ pc[Server] = "send" /\ turn < NumNodes
            /\ turn' = turn + 1 /\ UNCHANGED <<pc, table, dir>>
            /\ \E to \in ListenerAt(table[turn]) : Send(Server, to, DirectoryMsg(table))
        BY <2>3, <3>2 DEF SendDirectory
      <4> QED
        BY <4>1, SendDirectoryKeeps
    <3> QED
      BY <3>1, <3>2
  <2>4. CASE ServerReady
    BY <2>4, ServerReadyKeeps
  <2> QED
    BY <1>2, <2>1, <2>2, <2>3, <2>4 DEF ServerStep
<1>3. CASE n \in Client /\ ClientStep(n)
  <2>1. CASE Register(n)
    <3>1. CASE SendFails(n, Server) /\ Fail(n)
      BY <1>3, <2>1, <3>1, FailKeeps DEF Register
    <3>2. CASE ~(SendFails(n, Server) /\ Fail(n))
      BY <1>3, <2>1, <3>2, RegisterKeeps DEF Register
    <3> QED
      BY <3>1, <3>2
  <2>2. CASE TakeDirectory(n)
    BY <1>3, <2>2, TakeDirectoryKeeps
  <2> QED
    BY <1>3, <2>1, <2>2 DEF ClientStep
<1>4. CASE ConstructApplication(n)
  BY <1>4, ConstructKeeps
<1> QED
  BY <1>1, <1>2, <1>3, <1>4 DEF Step

LEMMA StartupInvariant == Spec => []StartupInv
<1>1. ASSUME StartupInv, [Next]_vars PROVE StartupInv'
  BY <1>1, StepKeeps, StutterKeeps DEF Next, Halted
<1> QED
  BY <1>1, InitStarts, PTL DEF Spec

---------------------------------------------------------------------------
(* The messages, tables and directories of start-up always have the shape   *)
(* the handlers of network.h read them with.                                *)
THEOREM TypesKept == Spec => []TypeOK
<1>1. StartupInv => TypeOK
  BY DEF StartupInv
<1> QED
  BY <1>1, StartupInvariant, PTL

(* In every launch order the send loop of server_init sends the directory   *)
(* to the client of its loop index, which is waiting for it.                *)
THEOREM DirectoryMeetsWaiting == Spec => []DirectoryExpected
<1>1. ASSUME StartupInv PROVE DirectoryExpected
  <2>1. DirectoryPending
    BY <1>1 DEF StartupInv
  <2>2. \A n \in Client : Len(<<DirectoryMsg(table)>>) = 1 /\ Len(<< >>) = 0
    OBVIOUS
  <2>3. ASSUME NEW n \in Client, NEW i \in 1 .. Len(inbox[n])
        PROVE  pc[n] = "wait" /\ Len(inbox[n]) = 1
    <3>1. inbox[n] # << >>
      BY <2>2, <2>3
    <3> QED
      BY <2>1, <2>2, <3>1 DEF DirectoryPending
  <2> QED
    BY <2>3 DEF DirectoryExpected
<1> QED
  BY <1>1, StartupInvariant, PTL

(* A client has a directory only once the table is complete.               *)
LEMMA ToldIsComplete ==
    ASSUME StartupInv, NEW n \in Client, HasDirectory(n)
    PROVE  /\ dir[n] = table /\ ~Joining
           /\ table[Server] = Address(Server)
           /\ \A m \in Client : table[m].ip = m /\ table[m].port \in ClientPorts
<1>1. NoneTold /\ DirectoryTaken /\ AllEntered /\ EntriesOwn
  BY DEF StartupInv
<1>2. dir[n] = table /\ ~Joining
  BY <1>1 DEF NoneTold, DirectoryTaken, HasDirectory
<1> QED
  BY <1>1, <1>2 DEF AllEntered, EntriesOwn, Joining

(* Every client that has left client_init holds the complete table of the   *)
(* server, in whatever order the Registers arrived: the ports may be mixed  *)
(* up, but all clients are told the same.                                   *)
THEOREM ClientsToldTheSame == Spec => []DirectoriesAgree
<1>1. ASSUME StartupInv PROVE DirectoriesAgree
  <2> USE NodeFacts
  <2> SUFFICES ASSUME NEW n \in Client, HasDirectory(n)
               PROVE  /\ dir[n] = table
                      /\ \A m \in Node : dir[n][m].ip # Unset /\ dir[n][m].port # Unset
    BY DEF DirectoriesAgree
  <2>1. /\ dir[n] = table /\ table[Server] = Address(Server)
        /\ \A c \in Client : table[c].ip = c /\ table[c].port \in ClientPorts
    BY <1>1, ToldIsComplete
  <2>2. ClientPorts \subseteq Nat /\ \A k \in Nat : k # Unset
    BY DEF ClientPorts, Unset, Client
  <2>3. table[Server].ip # Unset /\ table[Server].port # Unset
    BY <2>1, <2>2 DEF Address, Server
  <2>4. \A m \in Client : table[m].ip # Unset /\ table[m].port # Unset
    <3>1. \A m \in Client : m \in Nat
      OBVIOUS
    <3> QED
      BY <2>1, <2>2, <3>1
  <2> QED
    BY <2>1, <2>3, <2>4 DEF Client
<1> QED
  BY <1>1, StartupInvariant, PTL

---------------------------------------------------------------------------
(* With one -port for all, as in the command lines of the report and the    *)
(* Makefile, it does no harm that server_init files the port of a Register  *)
(* under the wrong index.                                                   *)
OnePort == \A m, n \in Node : Port[m] = Port[n]

LEMMA EnteredCorrectly ==
    ASSUME OnePort, StartupInv, NEW m \in Client,
           table[m].ip = m, table[m].port \in ClientPorts
    PROVE  table[m] = Address(m)
<1> USE NodeFacts
<1>1. m \in Node /\ table \in Table
  BY DEF Client, StartupInv, TypeOK
<1>2. PICK k \in Client : table[m].port = Port[k]
  BY DEF ClientPorts
<1>3. table[m].port = Port[m]
  BY <1>1, <1>2 DEF OnePort, Client
<1>4. table[m] \in Entry
  BY <1>1 DEF Table
<1> QED
  BY <1>3, <1>4 DEF Entry, Address

(* Every client that has left client_init knows the address on which every  *)
(* node listens (network.h:29).                                             *)
THEOREM DirectoriesCorrect ==
    ASSUME OnePort
    PROVE  Spec => []DirectoryCorrect
<1>1. ASSUME StartupInv PROVE DirectoryCorrect
  <2> SUFFICES ASSUME NEW n \in Client, HasDirectory(n), NEW m \in Node
               PROVE  dir[n][m] = Address(m)
    BY DEF DirectoryCorrect
  <2>1. /\ dir[n] = table /\ table[Server] = Address(Server)
        /\ \A c \in Client : table[c].ip = c /\ table[c].port \in ClientPorts
    BY <1>1, ToldIsComplete
  <2>2. CASE m = Server
    BY <2>1, <2>2
  <2>3. CASE m # Server
    <3>1. m \in Client
      BY <2>3 DEF Client
    <3> QED
      BY <1>1, <2>1, <3>1, EnteredCorrectly
  <2> QED
    BY <2>2, <2>3
<1> QED
  BY <1>1, StartupInvariant, PTL

(* The server finds a listener at every address its send loop connects to,  *)
(* so server_init never calls exit(-1): only a client can fail to start.    *)
THEOREM ServerNeverFails ==
    ASSUME OnePort
    PROVE  Spec => []ServerSurvives
<1> USE NodeFacts
<1>1. Init => ServerSurvives
  BY DEF Init, ServerSurvives
<1>2. ASSUME StartupInv, pc[Server] = "send", turn < NumNodes
      PROVE  ListenerAt(table[turn]) # {}
  <2>1. InTurn /\ AllEntered /\ ListensWhileUp /\ turn \in 1 .. NumNodes
    BY <1>2 DEF StartupInv, TypeOK
  <2>2. turn \in Client /\ turn >= turn /\ ~Joining
    BY <1>2, <2>1 DEF Joining
  <2>3. turn \in Node
    BY <2>2 DEF Client
  <2>4. listening[turn]
    BY <1>2, <2>1, <2>2, <2>3 DEF InTurn, ListensWhileUp
  <2>5. Address(turn) = table[turn]
    BY <1>2, <2>1, <2>2, EnteredCorrectly DEF AllEntered
  <2> QED
    BY <2>3, <2>4, <2>5 DEF ListenerAt
<1>3. ASSUME StartupInv, ServerSurvives, [Next]_vars
      PROVE  ServerSurvives'
  <2>1. pc \in [Node -> Labels]
    BY <1>3 DEF StartupInv, TypeOK
  <2>2. \A n \in Client : n \in Node /\ n # Server
    BY DEF Client
  <2>3. ASSUME NEW n \in Node, Step(n) PROVE ServerSurvives'
    <3>1. CASE Launch(n)
      BY <1>3, <2>1, <3>1 DEF Launch, Goto, ServerSurvives
    <3>2. CASE n = Server /\ ServerStep
      <4>1. CASE SendDirectory
        BY <1>2, <1>3, <4>1 DEF SendDirectory, ServerSurvives
      <4>2. CASE ~SendDirectory
        BY <1>3, <2>1, <3>2, <4>2
        DEF ServerStep, TakeRegister, BuildDirectory, ServerReady, Goto,
            ServerSurvives
      <4> QED
        BY <4>1, <4>2
    <3>3. CASE n \in Client /\ ClientStep(n)
      BY <1>3, <2>1, <2>2, <3>3
      DEF ClientStep, Register, TakeDirectory, Fail, Goto, ServerSurvives
    <3>4. CASE ConstructApplication(n)
      BY <1>3, <2>1, <3>4 DEF ConstructApplication, Goto, ServerSurvives
    <3> QED
      BY <2>3, <3>1, <3>2, <3>3, <3>4 DEF Step
  <2>4. CASE UNCHANGED vars
    BY <1>3, <2>4 DEF vars, ServerSurvives
  <2> QED
    BY <1>3, <2>3, <2>4 DEF Next, Halted
<1> QED
  BY <1>1, <1>3, StartupInvariant, PTL DEF Spec

============================================================================
