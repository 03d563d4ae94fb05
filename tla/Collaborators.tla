--------------------------- MODULE Collaborators ---------------------------
(* What the Linus application computes: the users and projects within a     *)
(* number of degrees of one user (src/applications/linus.h).  In one degree *)
(* every project a known user committed to is tagged, then every user that  *)
(* committed to a tagged project.  A commit that names a user or a project  *)
(* the frames do not have says nothing.                                     *)
(*                                                                          *)
(* The application tests the tagged projects on a Set it has deleted        *)
(* (linus.h:281).  With StaleRead the deleted set may have been recycled:   *)
(* users of the circle are never missed, but any other committer may come   *)
(* with them.                                                               *)
EXTENDS Naturals

CONSTANTS
    UserIds, ProjectIds,  \* the rows of the users and projects frames
    LINUS,                \* the user to start from
    DEGREES,              \* how many degrees to compute
    StaleRead             \* TRUE: the projects may be read from freed memory

VARIABLES
    commits,   \* pairs <<pid, uid>>
    degree,    \* degrees completed
    users,     \* the tagged users
    projects   \* the tagged projects

vars == <<commits, degree, users, projects>>

Known == users \union ({LINUS} \intersect UserIds)

ProjectsOf(us) == {p \in ProjectIds : \E u \in us : <<p, u>> \in commits}
AuthorsOf(ps) == {u \in UserIds : \E p \in ps : <<p, u>> \in commits}

Committers == {u \in UserIds : \E c \in commits : c[2] = u}

(* What the users may become with the given projects tagged.                *)
Circles(ps) ==
    IF StaleRead
    THEN {us \in SUBSET Committers : users \union AuthorsOf(ps) \subseteq us}
    ELSE {AuthorsOf(ps)}

Init ==
    /\ degree = 0
    /\ users = {}
    /\ projects = {}

Widen ==
    /\ degree < DEGREES
    /\ degree' = degree + 1
    /\ projects' = ProjectsOf(Known)
    /\ users' \in Circles(projects')
    /\ UNCHANGED commits

Spec == Init /\ [][Widen]_vars

FairSpec == Spec /\ WF_vars(Widen)

============================================================================
