------------------------- MODULE MCStratumV2Session -------------------------
EXTENDS StratumV2Session, TLC

CONSTANTS h1, h2

Symmetry == Permutations(Heights)
=============================================================================
