--------------------------- MODULE MCChainStorage ---------------------------
(* Values for model-checking ChainStorage on small instances.              *)
EXTENDS ChainStorage

\* Every message weighs the same; EventLimit decides when a session is full.
MCEstimateTokens(m) == 1
=============================================================================
