----------------------------- MODULE MCRuntime -----------------------------
(* Small instances of the JavaScript runtime for TLC. *)
EXTENDS Runtime, TLC

CONSTANTS c1, c2  \* root invocations

(* A writer beside an action, which may call a mutation, or a verification. *)
SomeKinds == c1 :> {"mutation", "migration"} @@ c2 :> {"httpAction", "verify"}
=============================================================================
