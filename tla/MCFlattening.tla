---------------------------- MODULE MCFlattening ----------------------------
\* All bodies of up to five statements, all sets of returns, all shuffles.
EXTENDS Flattening
=============================================================================
