--------------------------- MODULE MCSessionChain ---------------------------
(* Values for model-checking SessionChain on a small instance.             *)
EXTENDS SessionChain

\* Every third message is long: it passes TokenLimit alone.
MCEstimateTokens(m) == IF m % 3 = 0 THEN 3 ELSE 1
=============================================================================
