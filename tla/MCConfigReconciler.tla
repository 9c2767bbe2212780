-------------------------- MODULE MCConfigReconciler --------------------------
(* Small instances of the config reconciler for TLC.                       *)
EXTENDS ConfigReconciler

OneReplica == [w \in Workers |-> "r1"]
Pairs == [w \in Workers |-> IF w \in {"a1", "a2"} THEN "r1" ELSE "r2"]
=============================================================================
