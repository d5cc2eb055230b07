---------------------------- MODULE StraightLine ----------------------------
(***************************************************************************)
(* What a function body means: its statements run in the order in which    *)
(* they are written, up to the first return or the end of the body.        *)
(* Statements are known by their place in the body, counted from 0.        *)
(***************************************************************************)
EXTENDS Naturals, Sequences

CONSTANT MaxStatements   \* bound: the longest function body

VARIABLES
    length,    \* statements of the body
    returns,   \* the statements that return
    trace,     \* the statements that have run
    ended      \* the call is over

vars == <<length, returns, trace, ended>>

Init ==
    /\ length \in 0..MaxStatements
    /\ returns \in SUBSET {k \in 0..MaxStatements : k < length}
    /\ trace = <<>> /\ ended = FALSE

Execute ==
    /\ ~ended /\ Len(trace) < length
    /\ trace' = Append(trace, Len(trace))
    /\ ended' = (Len(trace) \in returns)
    /\ UNCHANGED <<length, returns>>

FallOff ==
    /\ ~ended /\ Len(trace) = length
    /\ ended' = TRUE
    /\ UNCHANGED <<length, returns, trace>>

Next == Execute \/ FallOff

Spec == Init /\ [][Next]_vars
FairSpec == Spec /\ WF_vars(Next)
=============================================================================
