-------------------------- MODULE Flattening_proofs --------------------------
(***************************************************************************)
(* For function bodies of any length and all random numbers: the flattened *)
(* function implements the straight-line one (the safety part), and the    *)
(* restorers put the statements that they find back in their order.        *)
(***************************************************************************)
EXTENDS Flattening, TLAPS

\* The string leads from every statement to the case that holds it.
DispenserInv ==
    phase = "run" => \A k \in Places : statements[dispenserArr[k]] = k

\* Until the function has returned, its index counts the statements it has run.
IndexInv ==
    /\ phase = "shuffle" => /\ ~ended /\ _index = 0
                           /\ \A r \in Restorers : outcome[r].how = "none"
    /\ ~ended => Len(trace) = _index /\ _index <= length

IInv == TypeOK /\ DispenserInv /\ IndexInv /\ RestoresOriginal

\* The places are those below the length.
LEMMA PlacesBelow ==
    ASSUME TypeOK, NEW k \in Nat
    PROVE  k \in Places <=> k < length
<1>1. length \in 0..MaxStatements
    BY DEF TypeOK
<1> QED
    BY <1>1, LengthAssumption DEF Places

\* The exchange of two places loses no statement.
LEMMA ExchangeKeeps ==
    ASSUME NEW st \in [Places -> Places], NEW a \in Places, NEW b \in Places,
           \A k \in Places : \E p \in Places : st[p] = k
    PROVE  LET new == [st EXCEPT ![a] = st[b], ![b] = st[a]]
           IN  new \in [Places -> Places] /\ \A k \in Places : \E p \in Places : new[p] = k
<1> DEFINE new == [st EXCEPT ![a] = st[b], ![b] = st[a]]
<1>1. new \in [Places -> Places]
    OBVIOUS
<1>2. /\ new[b] = st[a]
      /\ new[a] = st[b]
      /\ \A p \in Places \ {a, b} : new[p] = st[p]
    OBVIOUS
<1>3. ASSUME NEW k \in Places PROVE \E p \in Places : new[p] = k
    <2>1. PICK p \in Places : st[p] = k
        OBVIOUS
    <2> QED
        BY <1>2, <2>1
<1> QED
    BY <1>1, <1>3

\* Shuffle keeps the invariant.
LEMMA ShuffleInv ==
    ASSUME IInv, Shuffle
    PROVE  IInv'
<1>0. TypeOK /\ i \in Nat /\ i > 0 /\ i <= length /\ length \in Nat
    BY LengthAssumption DEF IInv, TypeOK, Shuffle
<1>1. Places' = Places /\ Outcomes' = Outcomes
    BY DEF Shuffle, Places, function, Outcomes
<1>2. i - 1 \in Places
    BY <1>0, PlacesBelow
<1>3. statements' \in [Places -> Places] /\ Permutation'
    <2>1. PICK j \in Places : statements' = [statements EXCEPT ![j] = statements[i - 1],
                                                              ![i - 1] = statements[j]]
        BY DEF Shuffle
    <2>2. statements \in [Places -> Places] /\ \A k \in Places : \E p \in Places : statements[p] = k
        BY <1>0 DEF TypeOK, Permutation
    <2>3. statements' \in [Places -> Places] /\ \A k \in Places : \E p \in Places : statements'[p] = k
        BY <1>2, <2>1, <2>2, ExchangeKeeps
    <2> QED
        BY <1>1, <2>3 DEF Permutation
<1>4. TypeOK'
    BY <1>0, <1>1, <1>3 DEF IInv, TypeOK, Shuffle, function
<1>5. DispenserInv' /\ IndexInv' /\ RestoresOriginal'
    BY DEF IInv, DispenserInv, IndexInv, RestoresOriginal, Shuffle, function
<1> QED
    BY <1>4, <1>5 DEF IInv

\* Assemble makes the string the inverse of the cases.
LEMMA AssembleInv ==
    ASSUME IInv, Assemble
    PROVE  IInv'
<1>0. TypeOK
    BY DEF IInv
<1>1. Places' = Places /\ Outcomes' = Outcomes
    BY DEF Assemble, Places, function, Outcomes
<1>2. dispenserArr' \in [Places -> Places] /\ \A k \in Places : statements[dispenserArr'[k]] = k
    <2>1. ASSUME NEW k \in Places
          PROVE  LET q == CHOOSE p \in Places : statements[p] = k
                 IN  q \in Places /\ statements[q] = k
        BY <1>0 DEF TypeOK, Permutation
    <2> QED
        BY <2>1 DEF Assemble, Dispenser
<1>3. TypeOK'
    BY <1>0, <1>1, <1>2 DEF TypeOK, Permutation, Assemble, function
<1>4. DispenserInv'
    BY <1>1, <1>2 DEF DispenserInv, Assemble
<1>5. IndexInv' /\ RestoresOriginal'
    BY DEF IInv, IndexInv, RestoresOriginal, Assemble, function
<1> QED
    BY <1>3, <1>4, <1>5 DEF IInv

\* While the function runs, its next case holds its next statement.
LEMMA NextStatement ==
    ASSUME IInv, RunCase
    PROVE  /\ _index \in Places /\ Len(trace) = _index
           /\ trace' = Append(trace, _index) /\ ended' = (_index \in returns)
           /\ UNCHANGED <<length, returns>>
<1>1. _index \in Nat /\ _index < length /\ TypeOK
    BY LengthAssumption DEF IInv, TypeOK, RunCase, HasCase
<1>2. _index \in Places
    BY <1>1, PlacesBelow
<1>3. statements[dispenserArr[_index]] = _index
    BY <1>2 DEF IInv, DispenserInv, RunCase
<1> QED
    BY <1>2, <1>3 DEF IInv, IndexInv, RunCase, function

\* The flattened function keeps the invariant.
LEMMA RunInv ==
    ASSUME IInv, RunCase \/ Break
    PROVE  IInv'
<1>0. TypeOK /\ length \in Nat /\ _index \in Nat
    BY LengthAssumption DEF IInv, TypeOK
<1>1. Places' = Places /\ Outcomes' = Outcomes
    BY DEF RunCase, Break, Places, function, Outcomes
<1>2. CASE RunCase
    <2>1. trace' \in Seq(Places) /\ Len(trace') = Len(trace) + 1
        BY <1>0, <1>2, NextStatement DEF TypeOK
    <2>2. ended' \in BOOLEAN
        BY <1>2, NextStatement
    <2>3. _index' = _index + 1 /\ _index < length
        BY <1>2 DEF RunCase, HasCase
    <2>4. TypeOK'
        BY <1>0, <1>1, <1>2, <2>1, <2>2, <2>3 DEF TypeOK, Permutation, RunCase, function, code
    <2>5. IndexInv'
        BY <1>0, <1>2, <2>1, <2>3, NextStatement DEF IInv, IndexInv, RunCase, function, code
    <2>6. DispenserInv' /\ RestoresOriginal'
        BY <1>1, <1>2 DEF IInv, DispenserInv, RestoresOriginal, RunCase, function, code
    <2> QED
        BY <2>4, <2>5, <2>6 DEF IInv
<1>3. CASE Break
    <2>1. _index <= length
        BY <1>3 DEF IInv, IndexInv, Break
    <2>2. TypeOK'
        BY <1>0, <1>1, <1>3, <2>1 DEF TypeOK, Permutation, Break, function, code
    <2>3. DispenserInv' /\ IndexInv' /\ RestoresOriginal'
        BY <1>1, <1>3 DEF IInv, DispenserInv, IndexInv, RestoresOriginal, Break, function, code
    <2> QED
        BY <2>2, <2>3 DEF IInv
<1> QED
    BY <1>2, <1>3

\* The restorers find the statements in the order of the original.
LEMMA RestoreInv ==
    ASSUME IInv, Restore
    PROVE  IInv'
<1>0. TypeOK /\ length \in Nat
    BY LengthAssumption DEF IInv, TypeOK
<1>1. Places' = Places /\ Outcomes' = Outcomes
    BY DEF Restore, Places, function, Outcomes
<1>2. CaseBodies = [k \in 1..length |-> k - 1]
    <2>1. ASSUME NEW k \in 1..length PROVE statements[dispenserArr[k - 1]] = k - 1
        <3>1. k - 1 \in Places
            BY <1>0, PlacesBelow
        <3> QED
            BY <3>1 DEF IInv, DispenserInv, Restore
    <2> QED
        BY <2>1 DEF CaseBodies
<1>3. /\ [k \in 1..length |-> <<CaseBodies[k]>>] = [k \in 1..length |-> <<k - 1>>]
      /\ [k \in 1..length |-> Statements(CaseBodies[k])]
           = [k \in 1..length |-> IF k - 1 \in blank THEN <<>> ELSE <<k - 1>>]
    BY <1>2 DEF Statements
<1>4. PICK r \in Restorers : outcome' = [outcome EXCEPT ![r] = Restored(r)]
    BY DEF Restore
<1>5. \A q \in Restorers : outcome'[q] = IF q = r THEN Restored(r) ELSE outcome[q]
    BY <1>0, <1>4 DEF TypeOK
<1>6. /\ [k \in 1..length |-> <<k - 1>>] \in Seq(Seq(Places))
      /\ [k \in 1..length |-> IF k - 1 \in blank THEN <<>> ELSE <<k - 1>>] \in Seq(Seq(Places))
    <2>1. \A k \in 1..length : k - 1 \in Places
        BY <1>0, PlacesBelow
    <2>2. \A k \in 1..length : <<k - 1>> \in Seq(Places)
        BY <2>1
    <2>3. \A k \in 1..length : (IF k - 1 \in blank THEN <<>> ELSE <<k - 1>>) \in Seq(Places)
        BY <2>2
    <2>4. /\ [k \in 1..length |-> <<k - 1>>] \in [1..length -> Seq(Places)]
          /\ [k \in 1..length |-> IF k - 1 \in blank THEN <<>> ELSE <<k - 1>>]
                \in [1..length -> Seq(Places)]
        BY <2>2, <2>3
    <2>5. ASSUME NEW b \in [1..length -> Seq(Places)] PROVE b \in Seq(Seq(Places))
        BY <1>0, <2>5
    <2> QED
        BY <2>4, <2>5
<1>7. outcome' \in [Restorers -> Outcomes]
    <2>1. Restored(r) \in Outcomes
        <3>1. ASSUME NEW how \in {"restored", "left", "threw"}, NEW d \in BOOLEAN,
                     NEW b \in Seq(Seq(Places))
              PROVE  Written(how, d, b) \in Outcomes
            BY <3>1 DEF Written, Outcomes
        <3>2. <<>> \in Seq(Seq(Places))
            OBVIOUS
        <3>3. [k \in 1..length |-> <<CaseBodies[k]>>] \in Seq(Seq(Places))
            BY <1>3, <1>6
        <3>4. [k \in 1..length |-> Statements(CaseBodies[k])] \in Seq(Seq(Places))
            BY <1>3, <1>6
        <3> QED
            BY <3>1, <3>2, <3>3, <3>4, Zenon DEF Restored
    <2> QED
        BY <1>0, <1>4, <2>1 DEF TypeOK
<1>8. TypeOK'
    BY <1>0, <1>1, <1>7 DEF TypeOK, Permutation, Restore, function, code
<1>9. RestoresOriginal'
    <2>1. length' = length /\ blank' = blank
        BY DEF Restore, function
    <2>2. \/ Restored(r).how # "restored"
          \/ Restored(r) = Written("restored", FALSE, [k \in 1..length |-> <<k - 1>>])
          \/ Restored(r) = Written("restored", TRUE,
                  [k \in 1..length |-> IF k - 1 \in blank THEN <<>> ELSE <<k - 1>>])
        <3>1. Written("left", TRUE, <<>>).how # "restored"
            BY DEF Written
        <3>2. Written("threw", TRUE, <<>>).how # "restored"
            BY DEF Written
        <3> QED
            BY <1>3, <3>1, <3>2, Zenon DEF Restored
    <2>3. ASSUME NEW q \in Restorers, outcome'[q].how = "restored"
          PROVE  \/ outcome'[q] = Written("restored", FALSE, [k \in 1..length |-> <<k - 1>>])
                 \/ outcome'[q] = Written("restored", TRUE,
                        [k \in 1..length |-> IF k - 1 \in blank THEN <<>> ELSE <<k - 1>>])
        <3>1. CASE q = r
            BY <1>5, <2>2, <2>3, <3>1, Zenon
        <3>2. CASE q # r
            <4>1. outcome'[q] = outcome[q]
                BY <1>5, <3>2, Zenon
            <4> QED
                BY <2>3, <4>1, Zenon DEF IInv, RestoresOriginal
        <3> QED
            BY <3>1, <3>2
    <2> QED
        BY <2>1, <2>3, Zenon DEF RestoresOriginal
<1>10. DispenserInv' /\ IndexInv'
    BY <1>1 DEF IInv, DispenserInv, IndexInv, Restore, function, code
<1> QED
    BY <1>8, <1>9, <1>10 DEF IInv

\* The initial states satisfy the invariant.
LEMMA InitInv == Init => IInv
<1> SUFFICES ASSUME Init PROVE IInv
    OBVIOUS
<1>1. length \in Nat /\ i = length
    BY LengthAssumption DEF Init
<1>2. TypeOK
    <2>1. statements \in [Places -> Places] /\ Permutation
        BY DEF Init, Permutation
    <2>2. /\ length \in 0..MaxStatements /\ returns \subseteq Places
          /\ form \in {"own", "index", "name"} /\ phase = "shuffle"
          /\ blank \subseteq Places \ returns /\ (form = "own" => blank = {})
        BY DEF Init
    <2>3. i \in 0..length /\ _index \in 0..(length + 1)
        BY <1>1 DEF Init
    <2>4. trace \in Seq(Places) /\ ended \in BOOLEAN
        <3>1. trace = <<>> /\ ended = FALSE
            BY DEF Init
        <3>2. <<>> \in Seq(Places)
            OBVIOUS
        <3> QED
            BY <3>1, <3>2, Zenon
    <2>5. phase # "run"
        BY <2>2
    <2>6. outcome \in [Restorers -> Outcomes]
        <3>1. <<>> \in Seq(Seq(Places))
            OBVIOUS
        <3> QED
            BY <3>1 DEF Init, Written, Outcomes
    <2> QED
        BY <2>1, <2>2, <2>3, <2>4, <2>5, <2>6, Zenon DEF TypeOK
<1>3. DispenserInv /\ IndexInv /\ RestoresOriginal
    BY <1>1 DEF Init, Written, DispenserInv, IndexInv, RestoresOriginal
<1> QED
    BY <1>2, <1>3 DEF IInv

\* Every step keeps the invariant.
LEMMA NextInv == IInv /\ [Next]_vars => IInv'
<1> SUFFICES ASSUME IInv, [Next]_vars PROVE IInv'
    OBVIOUS
<1>1. CASE UNCHANGED vars
    <2>1. Places' = Places /\ Outcomes' = Outcomes
        BY <1>1 DEF vars, function, Places, Outcomes
    <2> QED
        BY <1>1, <2>1 DEF vars, function, code, IInv, TypeOK, Permutation, DispenserInv,
                          IndexInv, RestoresOriginal
<1>2. CASE Done
    BY <1>1, <1>2 DEF Done
<1> QED
    BY <1>1, <1>2, ShuffleInv, AssembleInv, RunInv, RestoreInv DEF Next
-----------------------------------------------------------------------------
\* Every state is well typed; in particular the shuffle loses no statement.
THEOREM TypeCorrect == Spec => []TypeOK
<1>1. IInv => TypeOK
    BY DEF IInv
<1> QED
    BY <1>1, InitInv, NextInv, PTL DEF Spec

\* Whatever a restorer has taken for flattened code it has put back in the order
\* of the original, for bodies of any length: with the declarations gone and a
\* continue for each empty statement, or with the declarations kept and without
\* the empty statements.
THEOREM RestorersUndo == Spec => []RestoresOriginal
<1>1. IInv => RestoresOriginal
    BY DEF IInv
<1> QED
    BY <1>1, InitInv, NextInv, PTL DEF Spec

\* The flattened function runs like the original: its statements in their order
\* up to the first return or the end. This is the safety part of
\* RunsLikeOriginal.
THEOREM FlatteningImplements == Spec => Original!Spec
<1>1. Init => Original!Init
    BY DEF Init, Original!Init, Places
<1>2. IInv /\ [Next]_vars => [Original!Next]_(Original!vars)
    <2> SUFFICES ASSUME IInv, [Next]_vars
                 PROVE  Original!Next \/ UNCHANGED <<length, returns, trace, ended>>
        BY DEF Original!vars
    <2>0. length \in Nat /\ _index \in Nat /\ TypeOK
        BY LengthAssumption DEF IInv, TypeOK
    <2>1. CASE RunCase
        <3>1. ~ended /\ Len(trace) < length
            BY <2>0, <2>1, NextStatement, PlacesBelow DEF RunCase
        <3> QED
            BY <2>1, <3>1, NextStatement DEF Original!Next, Original!Execute
    <2>2. CASE Break
        <3>1. ~ended /\ Len(trace) = length
            BY <2>0, <2>2 DEF IInv, IndexInv, Break, HasCase
        <3> QED
            BY <2>2, <3>1 DEF Break, function, Original!Next, Original!FallOff
    <2>3. CASE Shuffle \/ Assemble \/ Restore
        BY <2>3 DEF Shuffle, Assemble, Restore, function
    <2>4. CASE Done \/ UNCHANGED vars
        BY <2>4 DEF Done, vars, function
    <2> QED
        BY <2>1, <2>2, <2>3, <2>4 DEF Next
<1> QED
    BY <1>1, <1>2, InitInv, NextInv, PTL DEF Spec, Original!Spec
=============================================================================
