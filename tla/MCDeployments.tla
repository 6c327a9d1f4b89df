--------------------------- MODULE MCDeployments ---------------------------
(* Deployments on four releases: A, and three that narrow its schema and   *)
(* bring the handlers for it (what conforms to theirs conforms to that of  *)
(* A as well), with other functions over the same schema.                  *)
(* With an active deployment, one to roll back to and a history of one,    *)
(* the fourth is what makes a deployment that has served be trimmed.       *)
EXTENDS Deployments, TLC

CONSTANTS A, s1, s2

MCSchema == [d \in Deployments |-> IF d = A THEN s1 ELSE s2]
MCMigrates == [d \in Deployments |-> IF d = A THEN {} ELSE {s1}]
MCAccepts == {<<s2, s1>>}

Symmetric == Permutations(Requests) \cup Permutations(Deployments \ {A})
=============================================================================
