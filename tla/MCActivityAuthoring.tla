------------------------ MODULE MCActivityAuthoring -------------------------
EXTENDS ActivityAuthoring, TLC

(* Three cents over a half and a quarter leave a remainder; ten fit easily. *)
Halves == <<5000, 2500, 2500, 0>>
AllTests == <<10000, 0, 0, 0>>

Draft(mode, total, config) ==
    [mode |-> mode, total |-> total, config |-> config, period |-> Null, rubric |-> Null,
     topic |-> TRUE, due |-> 1, limit |-> 1]
MCDrafts == {Draft("GRADED", 4, Null), Draft("GRADED", 10, Halves)}

MCEdits == {[mode |-> "COMPLETION", total |-> Null], [mode |-> "GRADED", total |-> 3],
            [config |-> AllTests], [rubric |-> <<2>>, period |-> "FINAL"],
            [due |-> 2, limit |-> 3], [due |-> 3, limit |-> 2], [topic |-> TRUE]}

Test(hidden, importance, points) == [hidden |-> hidden, importance |-> importance, points |-> points]
MCTestLists == {<<Test(TRUE, Null, 4)>>, <<Test(FALSE, Null, 2), Test(TRUE, Null, 0)>>,
                <<Test(FALSE, "HIGH", Null), Test(TRUE, Null, Null)>>}
Symmetry == Permutations(Authors)
=============================================================================
