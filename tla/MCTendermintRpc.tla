--------------------------- MODULE MCTendermintRpc ---------------------------
EXTENDS TendermintRpc

CONSTANTS c1, c2

MCCallers == {c1, c2}
=============================================================================
