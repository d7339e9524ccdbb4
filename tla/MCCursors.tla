----------------------------- MODULE MCCursors ------------------------------
(* Values for model-checking Cursors on small instances.                   *)
EXTENDS Cursors

\* Every message weighs the same; EventLimit decides when a session is full.
MCEstimateTokens(m) == 1
=============================================================================
