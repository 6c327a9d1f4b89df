---------------------------- MODULE MCRealtime ----------------------------
(* Small instances of the realtime endpoint for TLC. *)
EXTENDS Realtime

CONSTANTS p, q  \* subscription ids

(* Subscribe to one id or the other, or replace the subscription of one. *)
SomeRequests ==
    {[drop |-> {}, add |-> {p}], [drop |-> {p}, add |-> {p}], [drop |-> {}, add |-> {q}]}
=============================================================================
