---------------------------- MODULE MCKopsSecrets ----------------------------
(***************************************************************************)
(* KopsSecrets with one name, for an entry of two values or for a secret   *)
(* of kops: entries meet only in that a failure ends both loops, and every *)
(* entry's own call can fail.                                              *)
(***************************************************************************)
EXTENDS KopsSecrets

CONSTANTS n1, v1, v2
=============================================================================
