-------------------------- MODULE ActivityPromises --------------------------
(***************************************************************************)
(* What is promised to students who work at an activity, and to            *)
(* instructors who edit it, said of its row and its test cases.            *)
(* ActivityAuthoring is the mechanism that keeps it.                       *)
(***************************************************************************)
EXTENDS WeightedGrading

VARIABLES
    status,       \* of the activity; "NONE" before it is created
    version,      \* updated_at, which only the order matters of
    published,    \* published_at is set
    definition,   \* what the activity says of points, attempts and due date
    tests         \* test cases in their order

(* The fields that stay as they are once the activity is published. *)
Frozen == {"mode", "total", "config", "period", "rubric"}

(* Once published, an activity is never a draft again, its scoring and tests
   stay, and its due date and attempts only grow, although they are compared
   before the transaction. *)
PublicationStands ==
    published =>
      /\ published' /\ status' \notin {"NONE", "DRAFT"}
      /\ tests' = tests
      /\ \A x \in Frozen : definition'[x] = definition[x]
      /\ definition'["due"] >= definition["due"]
      /\ definition'["limit"] >= definition["limit"]

(* A version never names two contents, so that no page overwrites what it has
   not shown. *)
Content == <<status, published, definition, tests>>
VersionNamesContent == Content' # Content => version' > version

(* What was published, or shown, is not lost to a call that overlaps. *)
NoLostEdit == [][PublicationStands /\ VersionNamesContent]_Content

-----------------------------------------------------------------------------
(* A missing test point counts as none. *)
TestTotal(t) == Total([i \in DOMAIN t |-> IF t[i].points = Null THEN 0 ELSE t[i].points])

(* What publish asks of definition and tests; the code is never empty. *)
Publishable(d, t) ==
    /\ \E i \in DOMAIN t : ~t[i].hidden
    /\ d["mode"] # "COMPLETION" =>
         /\ TestTotal(t) > 0
         /\ TestTotal(t) <= d["total"]
         /\ RubricAllocationValid(d["rubric"], d["total"] - TestTotal(t))
         /\ d["rubric"] # Null => d["period"] # Null

(* What students see of a published activity was fit to be published: somebody
   can pass a visible test, and tests and rubric fit into the total. *)
PublishedIsSound == published => Publishable(definition, tests)

(* The points of tests and rubric fit the total at any time, whoever changes
   total, mode, configuration or tests at the same time: a weighted activity's
   are fair shares that add up, another's tests do not exceed the total. *)
PointsFit ==
    LET d == definition IN
    status # "NONE" =>
      /\ (d["mode"] = "COMPLETION") = (d["total"] = Null)
      /\ \A i \in DOMAIN tests : (tests[i].points = Null) = (d["mode"] = "COMPLETION")
      /\ d["mode"] = "COMPLETION" => d["rubric"] = Null
      /\ d["mode"] = "GRADED" /\ d["config"] = Null => TestTotal(tests) <= d["total"]
      /\ d["mode"] = "GRADED" /\ d["config"] # Null =>
           LET maximum == d["total"] - Total(d["rubric"])
           IN /\ FairShares(d["total"], d["config"], Distribute(d["total"], d["config"]))
              /\ maximum = CorrectnessMaximum(d["total"], d["config"])
              /\ FairShares(maximum, ImportanceWeights(tests), [i \in DOMAIN tests |-> tests[i].points])

(* What is defined fits together. *)
DefinitionSound == PublishedIsSound /\ PointsFit
=============================================================================
