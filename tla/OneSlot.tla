------------------------------ MODULE OneSlot ------------------------------
(***************************************************************************)
(* What an account with draws and deposits in turns promises: one amount   *)
(* is put in, then it is taken out, then the next one is put in.           *)
(***************************************************************************)
EXTENDS Integers

CONSTANT Amount

VARIABLES
    balance,
    full      \* the next move is a draw

vars == <<balance, full>>

Init == balance = 0 /\ full = FALSE

Put == ~full /\ full' = TRUE /\ balance' = Amount

Take == full /\ full' = FALSE /\ balance' = 0

Next == Put \/ Take

Spec == Init /\ [][Next]_vars
=============================================================================
