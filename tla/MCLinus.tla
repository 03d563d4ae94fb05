------------------------------ MODULE MCLinus ------------------------------
(* Linus on small clusters and commit graphs.                               *)
EXTENDS Linus

CONSTANTS
    NumPids, NumUids  \* pids and uids the commits mention

(* Every commits frame over these pids and uids.                            *)
AllCommits == SUBSET ((0 .. NumPids - 1) \X (0 .. NumUids - 1))

(* One more, with a first circle of five: users 0 to 4 share project 0, so  *)
(* a client of three nodes gets two chunks of one user.                     *)
WideCommits == {<<0, u>> : u \in 0 .. 4}
AllAndWide == AllCommits \union {WideCommits}

(* What node 0 publishes goes up to the last degree (linus.h, run_).        *)
AnswerGiven == Circle!FairSpec

============================================================================
