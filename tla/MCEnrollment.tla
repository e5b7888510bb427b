---------------------------- MODULE MCEnrollment ----------------------------
EXTENDS Enrollment, TLC

\* Instructors are alike, and so are students.
Symmetric == Permutations(Instructors) \cup Permutations(Students)

\* A transaction under way is overtaken by changes of one row at most, and one
\* account at most is not active.
Overtaken ==
    /\ view.under => Cardinality(view.touched) <= 1
    /\ Cardinality(active) >= Cardinality(Users) - 1
=============================================================================
