-------------------------- MODULE MCGitPublication --------------------------
(* Two students, of whom Ann leads, and what they ask for. *)
EXTENDS GitPublication

CONSTANTS j1, j2, ann, ben, main, side, other, w1, w2

Ask(actor, operation, source, target) ==
    [actor |-> actor, operation |-> operation, source |-> source, target |-> target]

Commit(actor, branch) == Ask(actor, "COMMIT", branch, branch)
NewBranch(actor, branch) == Ask(actor, "CREATE_BRANCH", main, branch)
FastForward(actor, source, target) == Ask(actor, "FAST_FORWARD", source, target)

Both(r1, r2) == (j1 :> r1) @@ (j2 :> r2)

(* Two commits; a commit and the branch action it meets, as source, as target
   or on a name that was deleted; two new branches. *)
Meetings ==
    {Both(Commit(ann, side), Commit(ben, side)),
     Both(Commit(ann, main), FastForward(ben, main, side)),
     Both(Commit(ben, side), FastForward(ann, side, main)),
     Both(Commit(ben, side), NewBranch(ann, side)),
     Both(NewBranch(ann, side), NewBranch(ben, other))}

AnyWorker == Permutations(Workers)

OneCommit == {[j \in {j1} |-> Commit(ann, main)]}
=============================================================================
