-------------------------- MODULE WeightedGrading ---------------------------
(***************************************************************************)
(* How the points of an activity are divided                                *)
(* (src/server/src/modules/activities/weighted-grading.ts and               *)
(* activity-grading.ts).                                                    *)
(*                                                                         *)
(* Points are whole cents.  An activity with a configuration (weighted)     *)
(* divides its total over correctness and three rubric criteria by          *)
(* percentages, in hundredths of a percent, and correctness over its test   *)
(* cases by their importance.  An activity without one keeps the points its *)
(* author gave each test.                                                   *)
(***************************************************************************)
EXTENDS Integers, FiniteSets, Sequences, Functions

CONSTANT Null     \* an absent value

Importances == {"NORMAL", "HIGH", "VERY_HIGH"}
Weight(importance) ==
    CASE importance \in {Null, "NORMAL"} -> 1
      [] importance = "HIGH" -> 2
      [] importance = "VERY_HIGH" -> 3

Total(s) == FoldFunction(+, 0, s)

(* What the schemas accept: four percentages that make up the whole, of which
   correctness has some; and a test case. *)
Whole == 10000
Configurations == {c \in [1..4 -> 0..Whole] : c[1] > 0 /\ Total(c) = Whole}
TestCase == [hidden : BOOLEAN, importance : Importances \union {Null}, points : Nat \union {Null}]

(* Largest remainder: everybody gets the floor of his share, and the cents
   that are left go to the largest remainders, the first of equal ones first. *)
Distribute(budget, weights) ==
    LET sum == Total(weights)
        Floor(i) == (budget * weights[i]) \div sum
        Rest(i) == (budget * weights[i]) % sum
        left == budget - Total([i \in DOMAIN weights |-> Floor(i)])
        Before(i) == {j \in DOMAIN weights :
                        \/ Rest(j) > Rest(i)
                        \/ Rest(j) = Rest(i) /\ j < i}
        Extra(i) == IF Cardinality(Before(i)) < left THEN 1 ELSE 0
    IN [i \in DOMAIN weights |-> IF sum = 0 THEN 0 ELSE Floor(i) + Extra(i)]

(* Every positive weight must receive a cent, or the request is refused. *)
Distributable(budget, weights) ==
    \A i \in DOMAIN weights : weights[i] > 0 => Distribute(budget, weights)[i] > 0

(* configuredAllocation: correctness first, criteria without points left out. *)
CorrectnessMaximum(total, config) == Distribute(total, config)[1]
DerivedRubric(total, config) ==
    LET maxima == Distribute(total, config)
    IN Restrict(maxima, {c \in DOMAIN maxima \ {1} : maxima[c] > 0})

ImportanceWeights(tests) == [i \in DOMAIN tests |-> Weight(tests[i].importance)]
(* configuredTestPoints *)
TestPoints(total, config, tests) ==
    Distribute(CorrectnessMaximum(total, config), ImportanceWeights(tests))
Configurable(total, config, tests) ==
    /\ Distributable(total, config)
    /\ Distributable(CorrectnessMaximum(total, config), ImportanceWeights(tests))

(* No rubric fits every activity; a rubric must add up to what tests leave. *)
RubricAllocationValid(rubric, instructorMaximum) ==
    rubric # Null => Total(rubric) = instructorMaximum

(* Each share is within a cent of the exact one and together they are the
   budget: what a division must be, however it is computed. *)
FairShares(budget, weights, shares) ==
    LET sum == Total(weights)
    IN sum > 0 =>
       /\ Total(shares) = budget
       /\ \A i \in DOMAIN weights :
            /\ shares[i] * sum - budget * weights[i] < sum
            /\ budget * weights[i] - shares[i] * sum < sum
=============================================================================
