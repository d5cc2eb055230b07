--------------------------- MODULE MCFrameSearch ---------------------------
\* A page with an iframe that has an iframe of its own; the first search throws
\* in the one in the middle.
EXTENDS FrameSearch

CONSTANTS top, middle, inner, s1, s2

Tree == [f \in Frames |-> IF f = inner THEN middle ELSE top]
FailingMC == {<<middle, s1>>}
============================================================================
