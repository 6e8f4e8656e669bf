---------------------------- MODULE MCHashTable ----------------------------
(* Model values and bounds for checking HashTable with TLC. *)
EXTENDS HashTable, TLC

CONSTANTS k1, k2, k3, k4, v1, v2

(* k1 and k2 always collide; k3 collides with them until the table has      *)
(* eight buckets; k4 has the last slot as its home, so its probes wrap.     *)
MCHash == k1 :> 1 @@ k2 :> 1 @@ k3 :> 5 @@ k4 :> 7
=============================================================================
