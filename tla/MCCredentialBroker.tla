------------------------- MODULE MCCredentialBroker -------------------------
(* Model values for the checks of CredentialBroker.                        *)
EXTENDS CredentialBroker, TLC

CONSTANTS c1, c2, t1

\* Sound: no property tells a client from another.
Symmetry == Permutations(Clients)
=============================================================================
