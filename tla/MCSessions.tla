----------------------------- MODULE MCSessions -----------------------------
(* Values for model-checking Sessions on small instances.                  *)
EXTENDS Sessions

CONSTANTS s1, c1, c2, r1, v1, v2
=============================================================================
