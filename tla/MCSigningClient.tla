--------------------------- MODULE MCSigningClient ---------------------------
(* Two calls that may overlap, two addresses of which the signer holds    *)
(* one, a fee and a memo the signer may swap for another, and explicit    *)
(* sequence 0.                                                            *)
EXTENDS SigningClient

MCCallMethods == {"sendTokens", "upload"}
=============================================================================
