---------------------------- MODULE MCTaskStream ----------------------------
(* Values for model-checking TaskStream on small instances.                *)
EXTENDS TaskStream

CONSTANTS a1, a2
=============================================================================
