-------------------------- MODULE MCCollaboration ---------------------------
EXTENDS Collaboration, TLC

Symmetric == Permutations(Students)

\* At most two teams, one student away from the class, no second team
\* next to one under review, no class workspace next to the teams, and calls under
\* way that began in an active class, on a task that students had seen.
Teams == {o \in Students : repo[o].status # "NONE"}
Reviewed == {o \in Students : repo[o].review # "WORKING" \/ repo[o].draft}
Bound ==
    /\ Cardinality(Teams) <= 2 /\ (Reviewed # {} => Cardinality(Teams) = 1)
    /\ Cardinality(Students \ enrolled) <= 1
    /\ (\E o \in Students : repo[o].draft) => \E o \in Students : repo[o].review = "READY_FOR_REVIEW"
    /\ view # NoView => view.class = "ACTIVE" /\ view.task \in {"PUBLISHED", "CLOSED"}
    /\ workspace # {} => Teams = {} /\ Cardinality(workspace) = 1
=============================================================================
