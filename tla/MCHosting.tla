----------------------------- MODULE MCHosting -----------------------------
(* Two executions that share the one slot of the client. *)
EXTENDS Hosting, TLC
CONSTANTS e1, e2
Both == {e1, e2}
=============================================================================
