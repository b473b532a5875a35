--------------------------- MODULE MCKopsSession ---------------------------
(***************************************************************************)
(* KopsSession on small instances: a is a SpotInst cluster, b a Karpenter  *)
(* cluster, so that each one's feature flags are wrong for the other.  The *)
(* list of a names a flag that is reset for the next cluster and one that  *)
(* is not.                                                                 *)
(***************************************************************************)
EXTENDS KopsSession

CONSTANTS a, b

MCFeatureFlags == [k \in {a, b} |-> IF k = a THEN {"SpotinstOcean", "SpotinstOceanTemplate"} ELSE {}]
=============================================================================
