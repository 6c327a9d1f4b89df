----------------------------- MODULE MCKeyring -----------------------------
(* Three keys, so that one can be used again while another is in its grace
   period. *)
EXTENDS Keyring, TLC
=============================================================================
