------------------------------ MODULE Network ------------------------------
(* NetworkIP (src/network/network.h) as the applications use it.            *)
(*                                                                          *)
(* Every message travels on a connection of its own: send_m connects to the *)
(* listening socket of the target, writes the message and returns; recv_m   *)
(* accepts the oldest pending connection and reads its message.  The accept *)
(* queue of a listening socket is therefore the mailbox of its process:     *)
(* inbox[n], first in first out, holding at most Backlog + 1 connections    *)
(* (Linux completes one more than the argument of listen).                  *)
(*                                                                          *)
(* connect and write are one step: a receiver that has accepted the         *)
(* connection blocks in read until the bytes are there, so it cannot see    *)
(* the gap while the sender lives.  A sender that ends in the gap leaves a  *)
(* connection without a message: in Startup and Linus no process ends       *)
(* between its connect and its write, WordCount, whose clients free words   *)
(* before they write them, keeps such connections in a variable of its own  *)
(* (deserted).  Neither send_m nor recv_m closes its descriptor: fds[n] counts *)
(* what process n has leaked, up to FdLimit.                                *)
EXTENDS Naturals, Sequences

CONSTANTS
    NumNodes,       \* arg.num_nodes
    Backlog,        \* the argument of listen, 100 in the code
    FdLimit,        \* descriptors a process may leak before socket/accept fail
    ConnectTimeout  \* TRUE: a connect to a full accept queue may give up

ASSUME NumNodesAssumption == NumNodes \in Nat \ {0}
ASSUME NetworkAssumption ==
    /\ Backlog \in Nat
    /\ FdLimit \in Nat
    /\ ConnectTimeout \in BOOLEAN

VARIABLES
    listening,  \* listening[n]: the socket of process n is bound and listening
    inbox,      \* inbox[n]: the pending connections of process n, oldest first
    fds         \* fds[n]: descriptors process n opened in send_m and recv_m

netVars == <<listening, inbox, fds>>

Node == 0 .. NumNodes - 1
Server == 0
Client == Node \ {Server}

---------------------------------------------------------------------------
Full(n) == Len(inbox[n]) > Backlog

(* connect, which blocks while the queue of the target is full.             *)
Connects(n, to) == fds[n] < FdLimit /\ listening[to] /\ ~Full(to)

(* A successful send_m from n to a listening process.                       *)
Send(n, to, msg) ==
    /\ Connects(n, to)
    /\ inbox' = [inbox EXCEPT ![to] = Append(@, msg)]
    /\ fds' = [fds EXCEPT ![n] = @ + 1]
    /\ UNCHANGED listening

(* send_m ends the process: socket() fails its assertion at the descriptor  *)
(* limit, or connect fails and the code calls exit(-1).                     *)
SendFails(n, to) ==
    \/ fds[n] >= FdLimit
    \/ ~listening[to]
    \/ ConnectTimeout /\ Full(to)

(* A successful recv_m by n; the message is Head(inbox[n]).                 *)
Receive(n) ==
    /\ fds[n] < FdLimit
    /\ listening[n]
    /\ inbox[n] # << >>
    /\ inbox' = [inbox EXCEPT ![n] = Tail(@)]
    /\ fds' = [fds EXCEPT ![n] = @ + 1]
    /\ UNCHANGED listening

(* accept returns -1 at once and read(-1) leaves the size as it was, zero:  *)
(* the kind read from the empty buffer is no kind, and recv_m returns a     *)
(* message it never set (network.h:176-202), taken to end the process.      *)
ReceiveFails(n) == fds[n] >= FdLimit \/ ~listening[n]

(* The process ends, or closes its socket: the kernel resets every pending  *)
(* connection, and the messages in them are lost.  The destructor also      *)
(* deletes nodes_, which a later send_m would read; the descriptors of that *)
(* process are closed by then, and it fails either way.                     *)
CloseSocket(n) ==
    /\ listening' = [listening EXCEPT ![n] = FALSE]
    /\ inbox' = [inbox EXCEPT ![n] = << >>]
    /\ UNCHANGED fds

============================================================================
