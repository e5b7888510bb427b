------------------------ MODULE MCSubmissionAttempts ------------------------
(* One student's requests: a first one, its repetition (with the same source
   or with another), and one with another key. *)
EXTENDS SubmissionAttempts, TLC

CONSTANTS first, again, other, k1, k2, p1, p2

Keys == (first :> k1) @@ (again :> k1) @@ (other :> k2)
Sources == (first :> {p1}) @@ (again :> {p1, p2}) @@ (other :> {p1})

(* A raised limit is met by two requests, the limit as published by three. *)
ThreeOrRaised == activity.limit = FirstLimit \/ pc[again] = "idle"
=============================================================================
