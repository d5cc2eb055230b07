------------------------------ MODULE Account ------------------------------
(***************************************************************************)
(* The bank account of java/thread/ThreadCommunication_10 and _11: drawers *)
(* and depositors take turns on one account with a flag, wait() and        *)
(* notifyAll() (_10), or a Condition with await() and signalAll() (_11).   *)
(* Both versions have the same control flow; _11 is the one TestClass runs.*)
(*                                                                         *)
(* draw and deposit hold the lock throughout, except inside await(): a     *)
(* call is one step, or two when it awaits.                                *)
(*                                                                         *)
(* The specification is BankSpec, so that a module may extend this one and *)
(* that of another program.                                                *)
(***************************************************************************)
EXTENDS Integers

CONSTANTS
    Drawers, Depositors,   \* the threads: 1 and 3 in TestClass
    Amount,                \* drawAmount and depositAmount: 800 in TestClass
    Calls                  \* calls each thread makes: 100 in the code

ASSUME ThreadsAssumption == Drawers \cap Depositors = {}
ASSUME AmountAssumption == Amount \in Nat \ {0} /\ Calls \in Nat

Threads == Drawers \cup Depositors

VARIABLES
    balance,
    flag,     \* there is money to draw
    state,    \* thread -> "run" | "await" | "signalled"
    calls,    \* thread -> calls of draw or deposit that have returned
    moved     \* history: thread -> times it has moved money

bankVars == <<balance, flag, state, calls, moved>>

BankInit ==
    /\ balance = 0 /\ flag = FALSE
    /\ state = [t \in Threads |-> "run"]
    /\ calls = [t \in Threads |-> 0]
    /\ moved = [t \in Threads |-> 0]

\* Mutant of InLoop: i <= 100 in the loop.
InLoopOnceMore(t) == state[t] = "run" /\ calls[t] <= Calls

\* A thread in its loop, outside draw and deposit.
InLoop(t) == state[t] = "run" /\ calls[t] < Calls
Finished(t) == state[t] = "run" /\ calls[t] = Calls

\* Mutant of SignalAll: signal() wakes one thread only.
SignalOne ==
    IF \E t \in Threads : state[t] = "await"
    THEN \E t \in Threads :
            state[t] = "await" /\ state' = [state EXCEPT ![t] = "signalled"]
    ELSE UNCHANGED state

SignalAll ==
    state' = [t \in Threads |-> IF state[t] = "await" THEN "signalled"
                                                      ELSE state[t]]

\* Mutant of Await: a busy loop instead of await().
AwaitSpinning(t) == UNCHANGED bankVars

Await(t) ==
    /\ state' = [state EXCEPT ![t] = "await"]
    /\ UNCHANGED <<balance, flag, calls, moved>>

Return(t) == calls' = [calls EXCEPT ![t] = @ + 1]

\* draw(): awaits while there is no money; otherwise takes it.
Draw(t) ==
    /\ InLoop(t)
    /\ \/ ~flag /\ Await(t)
       \/ /\ flag
          /\ balance' = balance - Amount
          /\ flag' = FALSE
          /\ moved' = [moved EXCEPT ![t] = @ + 1]
          /\ SignalAll
          /\ Return(t)

\* Mutant of Deposit: flag is not tested.
DepositAlways(t) ==
    /\ InLoop(t)
    /\ balance' = balance + Amount
    /\ flag' = TRUE
    /\ moved' = [moved EXCEPT ![t] = @ + 1]
    /\ SignalAll
    /\ Return(t)

\* deposit(): awaits while there is money; otherwise puts some in.
Deposit(t) ==
    /\ InLoop(t)
    /\ \/ flag /\ Await(t)
       \/ /\ ~flag
          /\ balance' = balance + Amount
          /\ flag' = TRUE
          /\ moved' = [moved EXCEPT ![t] = @ + 1]
          /\ SignalAll
          /\ Return(t)

\* await() returns with the lock and so does the call: the test is an if, not a
\* while, and the money is left alone.
Resume(t) ==
    /\ state[t] = "signalled"
    /\ state' = [state EXCEPT ![t] = "run"]
    /\ Return(t)
    /\ UNCHANGED <<balance, flag, moved>>

\* await() may end without a signal.
SpuriousWakeup(t) ==
    /\ state[t] = "await"
    /\ state' = [state EXCEPT ![t] = "signalled"]
    /\ UNCHANGED <<balance, flag, calls, moved>>

Step(t) ==
    \/ t \in Drawers /\ Draw(t)
    \/ t \in Depositors /\ Deposit(t)
    \/ Resume(t)

\* All threads have returned or await: TestClass either exits or hangs here.
Halted == \A t \in Threads : Finished(t) \/ state[t] = "await"

BankNext ==
    \/ \E t \in Threads : Step(t) \/ SpuriousWakeup(t)
    \/ Halted /\ UNCHANGED bankVars

BankSpec == BankInit /\ [][BankNext]_bankVars

\* A thread that can get the lock eventually does.
BankFairSpec == BankSpec /\ \A t \in Threads : WF_bankVars(Step(t))

-----------------------------------------------------------------------------
\* The account and its threads keep their types; run() makes no more than Calls
\* calls.
BankTypeOK ==
    /\ balance \in Int /\ flag \in BOOLEAN
    /\ state \in [Threads -> {"run", "await", "signalled"}]
    /\ calls \in [Threads -> 0 .. Calls]
    /\ moved \in [Threads -> 0 .. Calls]

\* The account as a buffer for one deposit.
Slot == INSTANCE OneSlot WITH full <- flag

\* Whatever the threads, their signals and wakeups: deposits and draws take
\* turns, each of one amount.
TakesTurns == Slot!Spec

\* The account holds one deposit or nothing, and flag says which.
Alternates == balance = IF flag THEN Amount ELSE 0

\* A thread that awaits could not have moved money now: no signal is lost
\* between the test of flag and await().
NoLostSignal ==
    /\ \A t \in Drawers : state[t] = "await" => ~flag
    /\ \A t \in Depositors : state[t] = "await" => flag

\* Drawers and depositors never wait for each other: when the program hangs,
\* all threads of one side have returned.
NoMutualWait ==
    Halted => \/ \A t \in Drawers : Finished(t)
              \/ \A t \in Depositors : Finished(t)

\* The program comes to rest, possibly with threads awaiting for ever.
Rests == <>Halted

\* Inductive: a thread that is inside a call has not made all of them, and
\* moves money at most once in each.
CallInv ==
    \A t \in Threads :
        /\ state[t] # "run" => calls[t] < Calls
        /\ moved[t] <= calls[t]
=============================================================================
