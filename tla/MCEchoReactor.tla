--------------------------- MODULE MCEchoReactor ---------------------------
EXTENDS EchoReactor, TLC

CONSTANTS c1, c2

\* One client may outrun the buffers, the other is a bystander.
OneTalks == c1 :> 3 @@ c2 :> 1
=============================================================================
