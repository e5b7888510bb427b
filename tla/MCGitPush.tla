----------------------------- MODULE MCGitPush -----------------------------
(* Three pushes in two slots: in a repository with room for one more branch, *)
(* and in a full one that has no room for what the second asks for.          *)
EXTENDS GitPush, TLC

CONSTANTS o1, o2, o3, a, b, c, d, e, f

Ask(create, delete, forward) == [create |-> create, delete |-> delete, forward |-> forward]

Filling == [refs |-> {Main, f},
            asked |-> o1 :> Ask({a, b}, {}, {}) @@ o2 :> Ask({c, d}, {}, {})
                      @@ o3 :> Ask({e}, {f}, {})]
Full == [refs |-> {Main, a, b},
         asked |-> o1 :> Ask({c}, {a}, {}) @@ o2 :> Ask({d, e}, {}, {})
                   @@ o3 :> Ask({}, {}, {Main})]

Meetings == {Filling, Full}
=============================================================================
