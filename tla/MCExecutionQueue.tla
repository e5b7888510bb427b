-------------------------- MODULE MCExecutionQueue --------------------------
(* Instances of ExecutionQueue for TLC: jobs of chosen kinds. *)
EXTENDS ExecutionQueue, TLC

CONSTANTS g, c, p

All == (g :> "GRADED") @@ (c :> "COMPLETION") @@ (p :> "PRACTICE")
OneGraded == (g :> "GRADED")

(* Any two of the three are submitted; nothing forces a submission, so that no
   fairness is lost by it. *)
TwoJobs == Cardinality({j \in Jobs : status[j] # "ABSENT"}) <= 2
=============================================================================
