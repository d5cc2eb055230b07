--------------------------- MODULE MCAccountPool ---------------------------
EXTENDS AccountPool

CONSTANTS admin, bob, g1, t1
=============================================================================
