----------------------------- MODULE Flattening -----------------------------
(***************************************************************************)
(* Control-flow flattening and two scripts against it. The obfuscator      *)
(* replaces the body of a function by a loop around a switch: the          *)
(* statements are shuffled into the cases, and a string such as '0|2|1',   *)
(* split into _array, says in which order the loop visits them. The two    *)
(* restorers read the string and the cases of code that was flattened by   *)
(* others, each in a form of its own, and write the body back.             *)
(*                                                                         *)
(* An instance of StraightLine says what the flattened function has to do. *)
(* Statements are opaque: that a let or const of one case is out of scope  *)
(* in the next turn of the loop is left out.                               *)
(***************************************************************************)
EXTENDS Naturals, Sequences

CONSTANT MaxStatements   \* bound: the longest function body

ASSUME LengthAssumption == MaxStatements \in Nat

VARIABLES
    length,         \* statements of the function body
    returns,        \* those that return
    form,           \* how the loop is written: as the obfuscator does ("own"),
                    \* or with string labels, as in the samples of the restorers,
                    \* and "..."["split"] ("index") or "...".split ("name")
    blank,          \* of those forms: empty statements, whose case is a continue
    phase,          \* "shuffle" | "run"
    statements,     \* place -> the statement that the shuffle has put there
    i,              \* of the shuffle: places still to fill
    dispenserArr,   \* statement -> its case
    _index,         \* of the flattened function: next entry of _array
    trace,          \* the statements it has run
    ended,          \* it has returned
    outcome         \* restorer -> what it has made of the code

function == <<length, returns, form, blank>>
code == <<phase, statements, i, dispenserArr>>
vars == <<function, code, _index, trace, ended, outcome>>

Places == {k \in 0..MaxStatements : k < length}

\* The two scripts, by the nodes that they visit.
Restorers == {"MemberExpression", "WhileStatement"}

\* What comes out: what each entry of the string has added to the body, and
\* whether the declarations of the array and the index are still there.
Written(how, declarations, body) ==
    [how |-> how, declarations |-> declarations, body |-> body]

Init ==
    /\ length \in 0..MaxStatements
    /\ returns \in SUBSET Places
    /\ form \in (IF length = 0 THEN {"own"} ELSE {"own", "index", "name"})
    /\ blank \in (IF form = "own" THEN {{}} ELSE SUBSET (Places \ returns))
    /\ phase = "shuffle" /\ i = length
    /\ statements = [k \in Places |-> k]
    /\ dispenserArr = <<>> /\ _index = 0
    /\ trace = <<>> /\ ended = FALSE
    /\ outcome = [r \in Restorers |-> Written("none", TRUE, <<>>)]
-----------------------------------------------------------------------------
(* The obfuscator *)

\* Mutant of Shuffle: an assignment instead of the exchange.
ShuffleCopy ==
    /\ phase = "shuffle" /\ i > 0
    /\ \E j \in {k \in Places : k < i} :
          statements' = [statements EXCEPT ![j] = statements[i - 1]]
    /\ i' = i - 1
    /\ UNCHANGED <<function, phase, dispenserArr, _index, trace, ended, outcome>>

\* Math.floor(Math.random() * i--) is any place below i; the statement there
\* changes places with the one at i - 1.
Shuffle ==
    /\ phase = "shuffle" /\ i > 0
    /\ \E j \in {k \in Places : k < i} :
          statements' = [statements EXCEPT ![j] = statements[i - 1],
                                           ![i - 1] = statements[j]]
    /\ i' = i - 1
    /\ UNCHANGED <<function, phase, dispenserArr, _index, trace, ended, outcome>>

\* Mutant of Dispenser: the statement at each place instead of its inverse.
DispenserOfPlaces(st) == st

\* dispenserArr[v.index] = i for the statement v at place i.
Dispenser(st) == [k \in Places |-> CHOOSE p \in Places : st[p] = k]

\* The cases and the string are put together: case p holds statements[p].
Assemble ==
    /\ phase = "shuffle" /\ i = 0
    /\ dispenserArr' = Dispenser(statements)
    /\ phase' = "run"
    /\ UNCHANGED <<function, statements, i, _index, trace, ended, outcome>>
-----------------------------------------------------------------------------
(* The flattened function *)

\* +_array[_index] is the label of a case. Past the last entry it is NaN, and
\* for an empty body, whose _array is [''], it is 0, which no case has.
HasCase == _index < length

\* The switch takes the case, runs its statement, and continues.
RunCase ==
    LET statement == statements[dispenserArr[_index]] IN
    /\ phase = "run" /\ ~ended /\ HasCase
    /\ trace' = Append(trace, statement)
    /\ ended' = (statement \in returns)
    /\ _index' = _index + 1
    /\ UNCHANGED <<function, code, outcome>>

\* No case: the switch falls through to the break of the loop.
Break ==
    /\ phase = "run" /\ ~ended /\ ~HasCase
    /\ ended' = TRUE /\ _index' = _index + 1
    /\ UNCHANGED <<function, code, trace, outcome>>
-----------------------------------------------------------------------------
(* The restorers *)

\* Mutant of CaseBodies: the bodies in the order of the cases.
CaseBodiesUnordered == [k \in 1..length |-> statements[k - 1]]

\* The bodies of the cases in the order of the split string, as a sequence.
CaseBodies == [k \in 1..length |-> statements[dispenserArr[k - 1]]]

\* The statements of a case but for its continue: none when it is empty.
Statements(k) == IF k \in blank THEN <<>> ELSE <<k>>

\* What a restorer makes of the code. One looks for "..."["split"] and pushes the
\* first statement of each case, which for an empty case is the continue, to the
\* body, from which it has removed the declarations and the loop; it leaves other
\* code as it is. The other replaces every while loop by the statements of its
\* cases without their continue, and keeps the declarations; it throws unless the
\* switch is on a member expression and split is a name.
Restored(r) ==
    IF r = "MemberExpression"
    THEN IF form = "index"
         THEN Written("restored", FALSE, [k \in 1..length |-> <<CaseBodies[k]>>])
         ELSE Written("left", TRUE, <<>>)
    ELSE IF form = "name"
         THEN Written("restored", TRUE, [k \in 1..length |-> Statements(CaseBodies[k])])
         ELSE Written("threw", TRUE, <<>>)

Restore ==
    /\ phase = "run"
    /\ \E r \in Restorers :
          /\ outcome[r].how = "none"
          /\ outcome' = [outcome EXCEPT ![r] = Restored(r)]
    /\ UNCHANGED <<function, code, _index, trace, ended>>

Done ==
    /\ ended /\ \A r \in Restorers : outcome[r].how # "none"
    /\ UNCHANGED vars

Next == Shuffle \/ Assemble \/ RunCase \/ Break \/ Restore \/ Done

Spec == Init /\ [][Next]_vars

\* The obfuscator and the flattened function do not stop on their own.
FairSpec == Spec /\ WF_vars(Next)
-----------------------------------------------------------------------------
\* The shuffle loses no statement.
Permutation == \A k \in Places : \E p \in Places : statements[p] = k

Outcomes ==
    [how : {"none", "restored", "left", "threw"},
     declarations : BOOLEAN, body : Seq(Seq(Places))]

TypeOK ==
    /\ length \in 0..MaxStatements
    /\ returns \subseteq Places
    /\ form \in {"own", "index", "name"}
    /\ blank \subseteq Places \ returns /\ (form = "own" => blank = {})
    /\ phase \in {"shuffle", "run"}
    /\ statements \in [Places -> Places] /\ Permutation
    /\ i \in 0..length
    /\ phase = "run" => i = 0 /\ dispenserArr \in [Places -> Places]
    /\ _index \in 0..(length + 1)
    /\ trace \in Seq(Places) /\ ended \in BOOLEAN
    /\ outcome \in [Restorers -> Outcomes]

\* The function before it was flattened.
Original ==
    INSTANCE StraightLine WITH length <- length, returns <- returns,
                               trace <- trace, ended <- ended

\* Whatever the random numbers: a flattened function runs the statements of the
\* original in their order, stops at the same return, and comes to its end.
RunsLikeOriginal == Original!FairSpec

\* Restoring gives the statements of the original body in their order: with a
\* continue, which there has no loop around it, for each empty statement, or
\* without the empty statements and behind two declarations that are not used.
RestoresOriginal ==
    \A r \in Restorers :
        outcome[r].how = "restored" =>
            outcome[r] \in {Written("restored", FALSE, [k \in 1..length |-> <<k - 1>>]),
                            Written("restored", TRUE,
                                    [k \in 1..length |-> IF k - 1 \in blank THEN <<>>
                                                         ELSE <<k - 1>>])}

=============================================================================
