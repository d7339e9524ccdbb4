------------------------------ MODULE MCModes -------------------------------
(* Values for model-checking Modes on small instances.                     *)
EXTENDS Modes

CONSTANTS s1, s2, g1, g2, g3
=============================================================================
