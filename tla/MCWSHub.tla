------------------------------ MODULE MCWSHub -------------------------------
(* Values for model-checking WSHub on a small instance.                    *)
EXTENDS WSHub

CONSTANTS s1, c1, c2

\* Both clients watch the same session.
MCSessionOf == [c \in Clients |-> s1]
=============================================================================
