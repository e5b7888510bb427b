------------------------- MODULE MCAccountSessions -------------------------
EXTENDS AccountSessions, TLC
CONSTANT MaxRows
Symmetric == Permutations(Requests) \cup Permutations(Admins)
Bound ==
    /\ Len(session) + Len(token) <= MaxRows
    /\ \A i \in DOMAIN session : session[i].user \notin Admins
    /\ token # <<>> => \A r \in Requests : req[r].user \notin Admins
=============================================================================
