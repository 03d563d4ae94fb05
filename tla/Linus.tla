------------------------------- MODULE Linus -------------------------------
(* The distributed degrees-of-separation application                        *)
(* (src/applications/linus.h).  Every node holds the three input frames; a  *)
(* stage widens the circle of collaborators by one degree: node 0 deals the *)
(* users of the last round, every node tags the projects they committed to, *)
(* node 0 merges the projects, every node tags the users of these projects, *)
(* and node 0 merges the users.                                             *)
(*                                                                          *)
(* A frame of users or projects is written by SetWriter from a Set, so it   *)
(* is a set of ids in increasing order.  Tagging visits all commits and     *)
(* tests a commit against sets it does not depend on the order of.          *)
(*                                                                          *)
(* ListenerOpen, StaleSet and DoubleFree say which outcomes a run considers *)
(* where the code closes the listening socket (Application), reads a freed  *)
(* Set (UsersTagger) and frees a frame twice (merge, ~KVStore).             *)
EXTENDS Network, Chunks

CONSTANTS
    DEGREES,       \* stages to run, 4 in the code
    LINUS,         \* uid to start from, 4967 in the code
    NumUsers,      \* rows of the users frame
    NumProjects,   \* rows of the projects frame
    CommitSets,    \* the commits frames the program may be run on
    LineRows,      \* rows of a serialized column that fit in its line buffer
    Radix,         \* the base ids are written in, 10 in the code
    ListenerOpen,  \* whether run_ may find the listening sockets open
    StaleSet,      \* what UsersTagger may find where its project set was
    DoubleFree     \* what freeing a frame twice may do

ASSUME LinusAssumption ==
    /\ DEGREES \in Nat
    /\ LINUS \in Nat
    /\ NumUsers \in Nat
    /\ NumProjects \in Nat
    /\ CommitSets \subseteq SUBSET (Nat \X Nat)
    /\ LineRows \in Nat \ {0}
    /\ Radix \in Nat \ {0, 1}
    /\ ListenerOpen \subseteq BOOLEAN
    /\ StaleSet \subseteq {"intact", "recycled"}
    /\ DoubleFree \subseteq {"survives", "aborts"}

VARIABLES
    commits,       \* the commits frame: pairs <<pid, uid>>
    pc,            \* pc[n]: where node n is in its stage
    stage,         \* stage[n]
    next,          \* the loop variable of the server: k, then j
    round2,        \* whose turn it is to get a chunk
    quota,         \* quota[n]: chunks client n has been told to expect
    received,      \* received[n]: messages n has taken in its current loop
    chunkSoFar,    \* chunkSoFar[n]: the new users dealt to n
    pSet, uSet,    \* tagged projects and users of every node
    newProjects,   \* newProjects[n]: of the ProjectsTagger of the stage
    newUsers,      \* newUsers[n]: of the UsersTagger of the stage
    kv             \* kv[n]: what n has put in its store

dealVars == <<next, round2, quota, chunkSoFar>>
setVars == <<pSet, uSet, newProjects, newUsers>>
vars == <<netVars, commits, pc, stage, received, dealVars, setVars, kv>>

UserIds == 0 .. NumUsers - 1
ProjectIds == 0 .. NumProjects - 1

(* The name of a frame in a store: "users-stage-0" or "projects-stage-0",   *)
(* with the index of the node in place of 0 on a client.                    *)
Key == {"users", "projects"} \X Nat
Put(n, key, ids) == kv' = [kv EXCEPT ![n] = [k \in DOMAIN @ \union {key} |->
                                               IF k = key THEN ids ELSE @[k]]]

---------------------------------------------------------------------------
(* The row of id in the frame that holds ids, and the ids in given rows.    *)
RowOf(id, ids) == Cardinality({i \in ids : i < id})
InRows(ids, rows) == {id \in ids : RowOf(id, ids) \in rows}

(* Status::serialize cuts a column at the length of its line buffer, which  *)
(* may be inside a number: the first digits of the id in the first row that *)
(* does not fit arrive as an id.  The outcomes of the cut are a set.        *)
FirstDigits(id) ==
    {p \in 0 .. id : \/ p = id
                     \/ p > 0 /\ \E k \in 1 .. id : p = id \div Radix^k}
Carried(ids) ==
    IF Cardinality(ids) <= LineRows THEN {ids}
    ELSE LET whole == InRows(ids, 0 .. LineRows - 1)
             cut == UNION {FirstDigits(id) : id \in InRows(ids, {LineRows})}
         IN  {whole} \union {whole \union {p} : p \in cut}

(* Messages say neither what their ids are nor which stage they belong to:  *)
(* `of` and `stage` are there for the properties alone.                     *)
CountMsg(count) == [kind |-> "count", count |-> count]
ChunkMsg(ids) == [kind |-> "chunk", ids |-> ids]
DeltaMsg(n, of, ids) ==
    [kind |-> "delta", ids |-> ids, of |-> of, stage |-> stage[n]]

(* The users dealt in this stage, and the number of chunks they make.  The  *)
(* code takes a negative number for the effect of an empty frame.           *)
Dealt == kv[Server][<<"users", stage[Server]>>]
DealtChunks ==
    LET chunks == NumChunks(Cardinality(Dealt))
    IN  IF chunks < 0 THEN 1 ELSE chunks
DealtChunk(j) == InRows(Dealt, Chunk(j, 0 .. Cardinality(Dealt) - 1))

---------------------------------------------------------------------------
(* Set::test answers TRUE for an index the set does not have.               *)
Test(id, set, domain) == id \in set \/ id \notin domain

(* A slip: whoever committed, the project is tagged.                        *)
TaggedProjectsOfAll(n, delta) ==
    {p \in ProjectIds : p \notin pSet[n] /\ \E c \in commits : c[1] = p}

(* ProjectsTagger mapped over commits on node n, with delta as its users.   *)
TaggedProjects(n, delta) ==
    {p \in ProjectIds : /\ ~Test(p, pSet[n], ProjectIds)
                        /\ \E c \in commits :
                             c[1] = p /\ Test(c[2], delta, UserIds)}

(* UsersTagger mapped over commits on node n.  Its set of projects belongs  *)
(* to the ProjectsTagger deleted just before; the first row that map makes  *)
(* may recycle the memory and leave a set of size 0.                        *)
TaggedUsers(n, projects, set) ==
    LET domain == IF set = "recycled" THEN {} ELSE ProjectIds
    IN  {u \in UserIds : /\ ~Test(u, uSet[n], UserIds)
                         /\ \E c \in commits :
                              c[2] = u /\ Test(c[1], projects, domain)}

---------------------------------------------------------------------------
Init ==
    /\ \E open \in ListenerOpen : listening = [n \in Node |-> open]
    /\ inbox = [n \in Node |-> << >>]
    /\ fds = [n \in Node |-> 0]
    /\ commits \in CommitSets
    /\ pc = [n \in Node |-> IF DEGREES = 0 THEN "leave"
                            ELSE IF n = Server THEN "counts" ELSE "quota"]
    /\ stage = [n \in Node |-> 0]
    /\ next = 1
    /\ round2 = Server
    /\ quota = [n \in Node |-> 0]
    /\ received = [n \in Node |-> 0]
    /\ chunkSoFar = [n \in Node |-> {}]
    /\ pSet = [n \in Node |-> {}]
    /\ uSet = [n \in Node |-> {}]
    /\ newProjects = [n \in Node |-> {}]
    /\ newUsers = [n \in Node |-> {}]
    /\ kv = [n \in Node |-> IF n = Server
                            THEN [k \in {<<"users", 0>>} |-> {LINUS}]
                            ELSE << >>]

Goto(n, label) == pc' = [pc EXCEPT ![n] = label]

(* The process ends: by returning from main, or by exit(-1), a failed       *)
(* assertion or a signal.                                                   *)
End(n, label) ==
    /\ Goto(n, label)
    /\ CloseSocket(n)
    /\ UNCHANGED <<commits, stage, received, dealVars, setVars, kv>>
Fail(n) == End(n, "failed")

---------------------------------------------------------------------------
(* Node 0 tells every client how many chunks it will get.                   *)
SendCount ==
    /\ pc[Server] = "counts"
    /\ next < NumNodes
    /\ \/ /\ Send(Server, next, CountMsg(Share(next, DealtChunks, NumNodes)))
          /\ next' = next + 1
          /\ UNCHANGED <<commits, pc, stage, received, round2, quota,
                         chunkSoFar, setVars, kv>>
       \/ SendFails(Server, next) /\ Fail(Server)

CountsSent ==
    /\ pc[Server] = "counts"
    /\ next >= NumNodes
    /\ next' = 0
    /\ round2' = Server
    /\ Goto(Server, "deal")
    /\ UNCHANGED <<netVars, commits, stage, received, quota, chunkSoFar,
                   setVars, kv>>

(* Node 0 deals the users of the last round chunk by chunk, itself first.   *)
DealKeep ==
    /\ pc[Server] = "deal"
    /\ next < DealtChunks
    /\ round2 = Server
    /\ chunkSoFar' = [chunkSoFar EXCEPT ![Server] = @ \union DealtChunk(next)]
    /\ next' = next + 1
    /\ round2' = NextNode(round2, NumNodes)
    /\ UNCHANGED <<netVars, commits, pc, stage, received, quota, setVars, kv>>

DealSend ==
    /\ pc[Server] = "deal"
    /\ next < DealtChunks
    /\ round2 # Server
    /\ \/ /\ \E ids \in Carried(DealtChunk(next)) :
                Send(Server, round2, ChunkMsg(ids))
          /\ next' = next + 1
          /\ round2' = NextNode(round2, NumNodes)
          /\ UNCHANGED <<commits, pc, stage, received, quota, chunkSoFar,
                         setVars, kv>>
       \/ SendFails(Server, round2) /\ Fail(Server)

(* A client takes the number of chunks, then the chunks.                    *)
TakeQuota(n) ==
    /\ pc[n] = "quota"
    /\ \/ /\ Receive(n)
          /\ quota' = [quota EXCEPT ![n] = Head(inbox[n]).count]
          /\ received' = [received EXCEPT ![n] = 0]
          /\ Goto(n, "take")
          /\ UNCHANGED <<commits, stage, next, round2, chunkSoFar, setVars, kv>>
       \/ ReceiveFails(n) /\ Fail(n)

TakeChunk(n) ==
    /\ pc[n] = "take"
    /\ received[n] < quota[n]
    /\ \/ /\ Receive(n)
          /\ chunkSoFar' = [chunkSoFar EXCEPT ![n] = @ \union Head(inbox[n]).ids]
          /\ received' = [received EXCEPT ![n] = @ + 1]
          /\ UNCHANGED <<commits, pc, stage, next, round2, quota, setVars, kv>>
       \/ ReceiveFails(n) /\ Fail(n)

(* All nodes: copy the users dealt into delta and tag their projects.       *)
TagProjects(n) ==
    /\ \/ n = Server /\ pc[n] = "deal" /\ next >= DealtChunks
       \/ pc[n] = "take" /\ received[n] >= quota[n]
    /\ LET delta == chunkSoFar[n] \intersect UserIds
           tagged == TaggedProjects(n, delta)
       IN  /\ newProjects' = [newProjects EXCEPT ![n] = tagged]
           /\ pSet' = [pSet EXCEPT ![n] = @ \union tagged]
    /\ chunkSoFar' = [chunkSoFar EXCEPT ![n] = {}]
    /\ received' = [received EXCEPT ![n] = 0]
    /\ Goto(n, "projects")
    /\ UNCHANGED <<netVars, commits, stage, next, round2, quota, uSet,
                   newUsers, kv>>

(* A slip: the merged projects are not entered in pSet.                     *)
TagUsersNoUnion(n, merged) ==
    /\ \E set \in StaleSet :
          LET tagged == TaggedUsers(n, merged, set)
          IN  /\ newUsers' = [newUsers EXCEPT ![n] = tagged]
              /\ uSet' = [uSet EXCEPT ![n] = @ \union tagged]
    /\ received' = [received EXCEPT ![n] = 0]
    /\ Goto(n, "users")
    /\ UNCHANGED pSet

(* What step does on node n between its two calls of merge, the first of    *)
(* which left `merged` in newProjects.                                      *)
TagUsers(n, merged) ==
    /\ pSet' = [pSet EXCEPT ![n] = @ \union merged]
    /\ \E set \in StaleSet :
          LET tagged == TaggedUsers(n, merged, set)
          IN  /\ newUsers' = [newUsers EXCEPT ![n] = tagged]
              /\ uSet' = [uSet EXCEPT ![n] = @ \union tagged]
    /\ received' = [received EXCEPT ![n] = 0]
    /\ Goto(n, "users")

(* Where a node goes from a stage, if it was the last and if it was not.    *)
After(n, last) ==
    IF last THEN "leave" ELSE IF n = Server THEN "counts" ELSE "quota"

(* Slips: one stage too many, or too few; a client that has found nothing   *)
(* new gives up.                                                            *)
EndStageLate(n) ==
    /\ uSet' = [uSet EXCEPT ![n] = @ \union newUsers[n]]
    /\ stage' = [stage EXCEPT ![n] = @ + 1]
    /\ Goto(n, After(n, stage[n] = DEGREES))
EndStageEarly(n) ==
    /\ uSet' = [uSet EXCEPT ![n] = @ \union newUsers[n]]
    /\ stage' = [stage EXCEPT ![n] = @ + 1]
    /\ Goto(n, After(n, stage[n] + 2 = DEGREES))
EndStageGivesUp(n) ==
    /\ uSet' = [uSet EXCEPT ![n] = @ \union newUsers[n]]
    /\ stage' = [stage EXCEPT ![n] = @ + 1]
    /\ Goto(n, After(n, \/ stage[n] + 1 = DEGREES
                        \/ n # Server /\ newUsers[n] = {}))

(* What step does on node n after its second call of merge.                 *)
EndStage(n) ==
    /\ uSet' = [uSet EXCEPT ![n] = @ \union newUsers[n]]
    /\ stage' = [stage EXCEPT ![n] = @ + 1]
    /\ Goto(n, After(n, stage[n] + 1 = DEGREES))

(* merge on a client: the delta goes to node 0.                             *)
SendProjects(n) ==
    /\ pc[n] = "projects"
    /\ \/ /\ \E ids \in Carried(newProjects[n]) :
                Send(n, Server, DeltaMsg(n, "projects", ids))
          /\ Put(n, <<"projects", stage[n]>>, newProjects[n])
          /\ TagUsers(n, newProjects[n])
          /\ UNCHANGED <<commits, stage, dealVars, newProjects>>
       \/ SendFails(n, Server) /\ Fail(n)

SendUsers(n) ==
    /\ pc[n] = "users"
    /\ \/ /\ \E ids \in Carried(newUsers[n]) :
                Send(n, Server, DeltaMsg(n, "users", ids))
          /\ Put(n, <<"users", stage[n] + 1>>, newUsers[n])
          /\ EndStage(n)
          /\ UNCHANGED <<commits, received, dealVars, pSet, newProjects, newUsers>>
       \/ SendFails(n, Server) /\ Fail(n)

(* merge on node 0 takes as many messages as there are clients, whatever    *)
(* they hold, and frees the frame of each twice.                            *)
Merging == pc[Server] \in {"projects", "users"}

(* Slips: the merge loop stops one message early, or late.                  *)
GatheredEarly == received[Server] >= NumNodes - 2
GatheredLate == received[Server] >= NumNodes

(* merge has taken a message per client.                                    *)
Gathered == received[Server] >= NumNodes - 1

MergeDelta ==
    /\ Merging
    /\ ~Gathered
    /\ \/ /\ "survives" \in DoubleFree
          /\ Receive(Server)
          /\ LET ids == Head(inbox[Server]).ids
             IN  IF pc[Server] = "projects"
                 THEN /\ newProjects' = [newProjects EXCEPT
                            ![Server] = @ \union (ids \intersect ProjectIds)]
                      /\ UNCHANGED newUsers
                 ELSE /\ newUsers' = [newUsers EXCEPT
                            ![Server] = @ \union (ids \intersect UserIds)]
                      /\ UNCHANGED newProjects
          /\ received' = [received EXCEPT ![Server] = @ + 1]
          /\ UNCHANGED <<commits, pc, stage, dealVars, pSet, uSet, kv>>
       \/ ReceiveFails(Server) /\ Fail(Server)
       \/ "aborts" \in DoubleFree /\ inbox[Server] # << >> /\ Fail(Server)

PublishProjects ==
    /\ pc[Server] = "projects"
    /\ Gathered
    /\ Put(Server, <<"projects", stage[Server]>>, newProjects[Server])
    /\ TagUsers(Server, newProjects[Server])
    /\ UNCHANGED <<netVars, commits, stage, dealVars, newProjects>>

PublishUsers ==
    /\ pc[Server] = "users"
    /\ Gathered
    /\ Put(Server, <<"users", stage[Server] + 1>>, newUsers[Server])
    /\ EndStage(Server)
    /\ next' = 1
    /\ UNCHANGED <<netVars, commits, received, round2, quota, chunkSoFar,
                   pSet, newProjects, newUsers>>

(* main returns.  The store still holds the frames that step has deleted.   *)
Leave(n) ==
    /\ pc[n] = "leave"
    /\ \/ "survives" \in DoubleFree /\ End(n, "done")
       \/ "aborts" \in DoubleFree /\ Fail(n)

---------------------------------------------------------------------------
ServerStep ==
    \/ SendCount \/ CountsSent
    \/ DealKeep \/ DealSend
    \/ MergeDelta
    \/ PublishProjects \/ PublishUsers

ClientStep(n) ==
    \/ TakeQuota(n) \/ TakeChunk(n)
    \/ SendProjects(n) \/ SendUsers(n)

Step(n) ==
    \/ n = Server /\ ServerStep
    \/ n \in Client /\ ClientStep(n)
    \/ TagProjects(n)
    \/ Leave(n)

(* Every process has ended.                                                 *)
Finished ==
    /\ \A n \in Node : pc[n] \in {"done", "failed"}
    /\ UNCHANGED vars

Next == (\E n \in Node : Step(n)) \/ Finished

Spec == Init /\ [][Next]_vars

(* The operating system keeps running every process.                        *)
FairSpec == Spec /\ \A n \in Node : WF_vars(Step(n))

---------------------------------------------------------------------------
Labels == {"counts", "deal", "quota", "take", "projects", "users", "leave",
           "done", "failed"}
Ids == SUBSET Nat
Message ==
    [kind : {"count"}, count : Nat]
        \union [kind : {"chunk"}, ids : Ids]
        \union [kind : {"delta"}, ids : Ids, of : {"projects", "users"},
                stage : Nat]

(* The state of the cluster has the expected shape.                         *)
TypeOK ==
    /\ listening \in [Node -> BOOLEAN]
    /\ inbox \in [Node -> Seq(Message)]
    /\ fds \in [Node -> Nat]
    /\ commits \in CommitSets
    /\ pc \in [Node -> Labels]
    /\ stage \in [Node -> 0 .. DEGREES]
    /\ next \in Nat
    /\ round2 \in Node
    /\ quota \in [Node -> Nat]
    /\ received \in [Node -> Nat]
    /\ chunkSoFar \in [Node -> Ids]
    /\ pSet \in [Node -> SUBSET ProjectIds]
    /\ uSet \in [Node -> SUBSET UserIds]
    /\ newProjects \in [Node -> SUBSET ProjectIds]
    /\ newUsers \in [Node -> SUBSET UserIds]
    /\ DOMAIN kv = Node
    /\ \A n \in Node : /\ DOMAIN kv[n] \subseteq Key
                       /\ \A k \in DOMAIN kv[n] : kv[n][k] \in Ids

(* The ids under way to n in its i-th pending message of the given kind.    *)
Pending(n) == 1 .. Len(inbox[n])
Carries(n, i, kind) ==
    IF inbox[n][i].kind = kind THEN inbox[n][i].ids ELSE {}

(* A user is dealt to one node only: no id is in the frames of two nodes or *)
(* in a frame and on its way.                                               *)
NoUserTwice ==
    /\ \A m, n \in Node : m # n => chunkSoFar[m] \intersect chunkSoFar[n] = {}
    /\ \A m, n \in Node : \A i \in Pending(n) :
          Carries(n, i, "chunk") \intersect chunkSoFar[m] = {}

(* The two sides of the protocol agree on what comes next, although no      *)
(* message says what it is: a client that waits for the number of chunks    *)
(* finds that number, one that waits for a chunk finds a chunk of the stage *)
(* it is in, and one that sends finds nothing.                              *)
ClientInOrder ==
    \A n \in Client : inbox[n] # << >> =>
        /\ pc[n] = "quota" => /\ Head(inbox[n]).kind = "count"
                              /\ stage[n] = stage[Server]
        /\ pc[n] = "take" => /\ Head(inbox[n]).kind = "chunk"
                             /\ Len(inbox[n]) <= quota[n] - received[n]
        /\ pc[n] \in {"quota", "take"}

(* Stages do not overlap: every delta node 0 has not merged yet is one of   *)
(* its own stage.                                                           *)
ServerInOrder ==
    \A i \in Pending(Server) : inbox[Server][i].stage = stage[Server]

(* "Gather updates to the given set from all the nodes" (linus.h:295): the  *)
(* merge of the projects takes the projects of the clients, the merge of    *)
(* the users their users.                                                   *)
MergeGathersItsSet ==
    [][Merging /\ received'[Server] > received[Server] =>
          Head(inbox[Server]).of = pc[Server]]_vars

(* Processes return from main at different times, and close the sockets the *)
(* others would send to: nobody is ever about to send to one that has       *)
(* returned, whoever has failed.                                            *)
NoSendToEnded ==
    /\ pc[Server] = "counts" /\ next < NumNodes => pc[next] # "done"
    /\ pc[Server] = "deal" /\ next < DealtChunks => pc[round2] # "done"
    /\ \A n \in Client : pc[n] \in {"projects", "users"} => pc[Server] # "done"

(* Every process ends, and by returning from main.                          *)
AllDone == <>(\A n \in Node : pc[n] = "done")

(* The frames of users, or of projects, that node 0 has published.          *)
UsersOf(s) == kv[Server][<<"users", s>>]
ProjectsFrame(s) == kv[Server][<<"projects", s>>]
PublishedUsers == UNION {UsersOf(s) : s \in 1 .. stage[Server]}
PublishedProjects == UNION {ProjectsFrame(s) : s \in 0 .. stage[Server] - 1}

(* At the end of a stage the sets of node 0, whose sizes it prints, hold    *)
(* exactly what it has published.                                           *)
SetsArePublished ==
    pc[Server] \in {"counts", "leave", "done"} =>
        uSet[Server] = PublishedUsers /\ pSet[Server] = PublishedProjects

(* What the application computes, as node 0 publishes it.                   *)
Circle == INSTANCE Collaborators
    WITH degree <- stage[Server],
         users <- PublishedUsers,
         projects <- PublishedProjects,
         StaleRead <- "recycled" \in StaleSet

(* "Performs a step of the linus calculation" (linus.h:164): what node 0    *)
(* publishes in a stage is the circle of one degree more - or, where the    *)
(* freed set may have been recycled, that circle and users beyond it.       *)
AnswerCorrect == Circle!Spec

============================================================================
