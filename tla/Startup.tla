------------------------------ MODULE Startup ------------------------------
(* How the nodes of one run find each other: server_init and client_init of *)
(* src/network/network.h, called by initialize in tests/m4/main.cpp, up to  *)
(* the construction of the application.                                     *)
(*                                                                          *)
(* The server listens, takes one Register per client, and sends every       *)
(* client the directory it built from them.  A client listens, connects to  *)
(* the address of the server it was given on the command line, registers    *)
(* and waits for the directory.  Processes may be launched in any order.    *)
EXTENDS Network, Integers

CONSTANTS
    Port           \* Port[n]: the -port argument of process n

(* Start-up needs two descriptors per client, and stays below the limit.    *)
ASSUME StartupAssumption ==
    /\ Port \in [Node -> Nat]
    /\ 2 * NumNodes <= FdLimit

VARIABLES
    pc,     \* pc[n]: where process n is
    turn,   \* the loop variable i of server_init
    table,  \* nodes_ of the server: where it believes each node listens
    dir     \* dir[n]: nodes_ of client n

vars == <<netVars, pc, turn, table, dir>>

Unset == -1
UnsetEntry == [ip |-> Unset, port |-> Unset]

(* initialize gives every client the loopback address 127.0.0.(index + 4):  *)
(* an ip stands for the node that owns it.                                  *)
Address(n) == [ip |-> n, port |-> Port[n]]

(* The process, if any, that listens at an address.                         *)
ListenerAt(address) == {n \in Node : listening[n] /\ Address(n) = address}

RegisterWrongIndex(n) ==
    [kind |-> "register", sender |-> n + 1, address |-> Address(n)]

(* new Register(idx, port, ip_) of client_init.                             *)
RegisterOf(n) == [kind |-> "register", sender |-> n, address |-> Address(n)]
DirectoryMsg(nodes) == [kind |-> "directory", nodes |-> nodes]

---------------------------------------------------------------------------
Init ==
    /\ listening = [n \in Node |-> FALSE]
    /\ inbox = [n \in Node |-> << >>]
    /\ fds = [n \in Node |-> 0]
    /\ pc = [n \in Node |-> "off"]
    /\ turn = 1
    /\ table = [n \in Node |-> UnsetEntry]
    /\ dir = [n \in Node |-> << >>]

Goto(n, label) == pc' = [pc EXCEPT ![n] = label]

(* The process stops with exit(-1) or a failed assertion.                   *)
Fail(n) ==
    /\ Goto(n, "failed")
    /\ CloseSocket(n)
    /\ UNCHANGED <<turn, table, dir>>

(* initialize calls server_init or client_init, which start with            *)
(* init_sock_.  The server also enters itself in its table.                 *)
Launch(n) ==
    /\ pc[n] = "off"
    /\ listening' = [listening EXCEPT ![n] = TRUE]
    /\ Goto(n, "register")
    /\ table' = IF n = Server THEN [table EXCEPT ![n] = Address(n)] ELSE table
    /\ UNCHANGED <<inbox, fds, turn, dir>>

(* client_init: connect to the server and register.                         *)
Register(n) ==
    /\ pc[n] = "register"
    /\ \/ /\ Send(n, Server, RegisterOf(n))
          /\ Goto(n, "wait")
          /\ UNCHANGED <<turn, table, dir>>
       \/ SendFails(n, Server) /\ Fail(n)

(* A slip of the loop below: the whole entry goes under the loop index.     *)
RecordByTurn(msg) == [table EXCEPT ![turn] = msg.address]

(* The register loop of server_init enters the ip of a client under the     *)
(* index the client sent, and its port under the loop index.                *)
Record(msg) ==
    [table EXCEPT ![msg.sender].ip = msg.address.ip,
                  ![turn].port = msg.address.port]

TakeRegister ==
    /\ pc[Server] = "register"
    /\ turn < NumNodes
    /\ Receive(Server)
    /\ table' = Record(Head(inbox[Server]))
    /\ turn' = turn + 1
    /\ UNCHANGED <<pc, dir>>

(* Slips: the loop stops one Register early; the send loop starts at 2.     *)
BuildDirectoryEarly ==
    /\ pc[Server] = "register"
    /\ turn >= NumNodes - 1
    /\ turn' = 1
    /\ Goto(Server, "send")
    /\ UNCHANGED <<netVars, table, dir>>

BuildDirectorySkips ==
    /\ pc[Server] = "register"
    /\ turn = NumNodes
    /\ turn' = 2
    /\ Goto(Server, "send")
    /\ UNCHANGED <<netVars, table, dir>>

(* All clients are registered: server_init builds the directory.            *)
BuildDirectory ==
    /\ pc[Server] = "register"
    /\ turn = NumNodes
    /\ turn' = 1
    /\ Goto(Server, "send")
    /\ UNCHANGED <<netVars, table, dir>>

(* A slip: the loop variable of the send loop does not advance.             *)
SendDirectoryAgain ==
    /\ pc[Server] = "send"
    /\ turn < NumNodes
    /\ \E to \in ListenerAt(table[turn]) :
          Send(Server, to, DirectoryMsg(table))
    /\ UNCHANGED <<pc, turn, table, dir>>

(* The send loop of server_init: the directory goes to the address the      *)
(* table holds for client i, whoever listens there.                         *)
SendDirectory ==
    /\ pc[Server] = "send"
    /\ turn < NumNodes
    /\ IF ListenerAt(table[turn]) = {}
       THEN Fail(Server)
       ELSE /\ \E to \in ListenerAt(table[turn]) :
                 Send(Server, to, DirectoryMsg(table))
            /\ turn' = turn + 1
            /\ UNCHANGED <<pc, table, dir>>

(* server_init returns.                                                     *)
ServerReady ==
    /\ pc[Server] = "send"
    /\ turn = NumNodes
    /\ Goto(Server, "ready")
    /\ UNCHANGED <<netVars, turn, table, dir>>

(* client_init takes its view of the cluster from the directory, except     *)
(* for the server, which it knows from the command line.                    *)
TakeDirectory(n) ==
    /\ pc[n] = "wait"
    /\ Receive(n)
    /\ dir' = [dir EXCEPT ![n] = [Head(inbox[n]).nodes EXCEPT
                                    ![Server] = Address(Server)]]
    /\ Goto(n, "ready")
    /\ UNCHANGED <<turn, table>>

(* main constructs the application.  Application takes its NetworkIP by     *)
(* value; when the constructor returns, the destructor of the parameter     *)
(* closes the socket the copy in the application shares.                    *)
ConstructApplication(n) ==
    /\ pc[n] = "ready"
    /\ CloseSocket(n)
    /\ Goto(n, "running")
    /\ UNCHANGED <<turn, table, dir>>

ServerStep ==
    \/ TakeRegister
    \/ BuildDirectory
    \/ SendDirectory
    \/ ServerReady

ClientStep(n) == Register(n) \/ TakeDirectory(n)

Step(n) ==
    \/ Launch(n)
    \/ n = Server /\ ServerStep
    \/ n \in Client /\ ClientStep(n)
    \/ ConstructApplication(n)

(* A process in its application takes no further step here; one that failed *)
(* is gone; and one may wait for ever for a process that failed.            *)
Halted ==
    /\ \A n \in Node :
         \/ pc[n] \in {"running", "failed"}
         \/ pc[n] \in {"register", "wait"} /\ \E m \in Node : pc[m] = "failed"
    /\ \A n \in Node : inbox[n] = << >>
    /\ UNCHANGED vars

Next == (\E n \in Node : Step(n)) \/ Halted

Spec == Init /\ [][Next]_vars

(* The operating system launches every process and keeps running it.        *)
FairSpec == Spec /\ \A n \in Node : WF_vars(Step(n))

---------------------------------------------------------------------------
Labels == {"off", "register", "wait", "send", "ready", "running", "failed"}
Entry == [ip : Node \union {Unset}, port : Nat \union {Unset}]
Table == [Node -> Entry]
Message ==
    [kind : {"register"}, sender : Client, address : Entry]
        \union [kind : {"directory"}, nodes : Table]

(* The state of the start-up protocol has the expected shape.               *)
TypeOK ==
    /\ listening \in [Node -> BOOLEAN]
    /\ inbox \in [Node -> Seq(Message)]
    /\ fds \in [Node -> Nat]
    /\ pc \in [Node -> Labels]
    /\ turn \in 1 .. NumNodes
    /\ table \in Table
    /\ dir \in [Node -> Table \union {<< >>}]

HasDirectory(n) == dir[n] # << >>

(* "nodes directory is ordered by node index" (network.h:29): a client that *)
(* has left client_init finds every node at the address it listens on.      *)
DirectoryCorrect ==
    \A n \in Client : HasDirectory(n) =>
        \A m \in Node : dir[n][m] = Address(m)

(* Whatever the order of arrival, every client is told the same directory,  *)
(* the server's own, and no entry of it is one no client has written: the   *)
(* server sends nothing before the last Register.                           *)
DirectoriesAgree ==
    \A n \in Client : HasDirectory(n) =>
        /\ dir[n] = table
        /\ \A m \in Node : dir[n][m].ip # Unset /\ dir[n][m].port # Unset

(* A directory goes only to a node that asked for it and is waiting.        *)
DirectoryExpected ==
    \A n \in Client :
        (\E i \in 1 .. Len(inbox[n]) : inbox[n][i].kind = "directory") =>
            pc[n] = "wait" /\ Len(inbox[n]) = 1

(* Only a client that was launched too early stops: when every node has the *)
(* same port, the server finds a listener at every address it sends to.     *)
ServerSurvives == pc[Server] # "failed"

(* With any launch order: if every client manages to register, every        *)
(* process reaches its application.                                         *)
RegisteredRun ==
    (\A n \in Client : pc[n] \in {"wait", "ready", "running"})
        ~> (\A n \in Node : pc[n] = "running")

============================================================================
