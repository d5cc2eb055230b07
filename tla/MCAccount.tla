----------------------------- MODULE MCAccount -----------------------------
EXTENDS Account

CONSTANTS w1, d1, d2, d3
=============================================================================
