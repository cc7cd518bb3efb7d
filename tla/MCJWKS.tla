------------------------------- MODULE MCJWKS -------------------------------
(***************************************************************************)
(* JWKS for TLC: two callers, an RSA key and a key of another type.        *)
(***************************************************************************)
EXTENDS JWKS

CONSTANTS p1, p2, rsa, ec

MCCallers == {p1, p2}
MCKids == {rsa, ec}
MCRSAKids == {rsa}

=============================================================================
