------------------------- MODULE AccountPool_proofs -------------------------
(***************************************************************************)
(* Proofs about the AccountPool: with one generator and one tester for a   *)
(* site, a stored credential is replaced by nobody and deleted only after  *)
(* a test of that very credential, although both processes act on what     *)
(* they have read before.                                                  *)
(***************************************************************************)
EXTENDS AccountPool, TLAPS

\* The user whom the generator logs in has no credential in the meantime, and
\* holds a new one only between the answer of the site and the HSET.
HandInv ==
    \A g \in Generators :
        /\ gpc[g] \in {"login", "set"} => hand[g].user \in Users /\ ~Has(hand[g].user)
        /\ gpc[g] = "set" => hand[g].credential # None
        /\ gpc[g] = "set" /\ site = "antispider7" => hand[g].credential # Empty
        /\ gpc[g] # "set" => hand[g].credential = None

\* The credentials that are yet to be tested are still the stored ones: the
\* generator replaces none, and only the tester itself deletes.
SnapshotInv ==
    \A t \in Testers, u \in Users :
        snapshot[t][u] \notin {None, Empty} => credential[u] = snapshot[t][u]

\* The tester is about to delete the credential of a user that it has tested.
DeleteInv ==
    \A t \in Testers :
        /\ tpc[t] # "delete" => tuser[t] = {}
        /\ tpc[t] = "delete" => \E u \in Users : tuser[t] = {u}
        /\ \A u \in tuser[t] : snapshot[t][u] # None

IInv == TypeOK /\ HandInv /\ SnapshotInv /\ DeleteInv

USE DEF hashes, gvars, tvars, setup, bounds

\* A login gives a credential that is neither stored nor under test.
LEMMA FreshCredential ==
    ASSUME SingleInstance, IInv, NEW g \in Generators, gpc[g] = "login",
           NEW u \in Users
    PROVE  /\ Fresh(u) \in Credentials
           /\ Fresh(u) # credential[u]
           /\ \A t \in Testers : Fresh(u) # snapshot[t][u]
<1> DEFINE P(c) == /\ c # credential[u]
                   /\ \A t \in Testers : c # snapshot[t][u]
                   /\ \A h \in Generators : hand[h] # [user |-> u, credential |-> c]
<1>1. \A h \in Generators : hand[h].credential = None
    BY DEF SingleInstance, IInv, HandInv
<1>2. \A c \in Credentials, h \in Generators :
          hand[h] # [user |-> u, credential |-> c]
    BY <1>1, CredentialsAssumption
<1>3. \E b \in Credentials \cup {None, Empty} :
          \A t \in Testers : b = snapshot[t][u]
    BY DEF SingleInstance, IInv, TypeOK
<1>4. PICK b \in Credentials \cup {None, Empty} :
          \A t \in Testers : b = snapshot[t][u]
    BY <1>3
<1>5. credential[u] \in Credentials \cup {None, Empty}
    BY DEF IInv, TypeOK
<1>6. \E c \in Credentials : c \notin {credential[u], b}
    BY <1>5, FreshAssumption
<1>7. \E c \in Credentials : P(c)
    BY <1>2, <1>4, <1>6
<1>8. Fresh(u) = CHOOSE c \in Credentials : P(c)
    BY DEF Fresh
<1> HIDE DEF P
<1>9. Fresh(u) \in Credentials /\ P(Fresh(u))
    BY <1>7, <1>8
<1> QED BY <1>9 DEF P

\* What a generator has in hand, with another credential.
LEMMA HandType ==
    ASSUME TypeOK, NEW g \in Generators, NEW c \in Credentials \cup {None, Empty}
    PROVE  [hand[g] EXCEPT !.credential = c]
               \in [user : Users \cup {None}, credential : Credentials \cup {None, Empty}]
<1>1. hand[g] \in [user : Users \cup {None}, credential : Credentials \cup {None, Empty}]
    BY DEF TypeOK
<1> QED BY <1>1

\* The steps of the generator keep the invariant.
LEMMA GeneratorStep ==
    ASSUME SingleInstance, IInv, NEW g \in Generators, Generator(g)
    PROVE  IInv'
<1> USE UsersAssumption, CredentialsAssumption, BoundsAssumption
        DEF IInv, TypeOK, HandInv, SnapshotInv, DeleteInv, Has, NoUser
<1>1. CASE StartRun(g)
  <2>1. TypeOK'
    BY <1>1 DEF StartRun
  <2>2. HandInv'
    BY <1>1 DEF StartRun
  <2>3. SnapshotInv'
    BY <1>1 DEF StartRun
  <2>4. DeleteInv'
    BY <1>1 DEF StartRun
  <2> QED BY <2>1, <2>2, <2>3, <2>4
<1>2. CASE InitSet(g)
  <2>1. TypeOK'
    BY <1>2 DEF InitSet
  <2>2. HandInv'
    BY <1>2 DEF InitSet
  <2>3. SnapshotInv'
    BY <1>2 DEF InitSet
  <2>4. DeleteInv'
    BY <1>2 DEF InitSet
  <2> QED BY <2>1, <2>2, <2>3, <2>4
<1>3. CASE AllAccounts(g)
  <2>1. TypeOK'
    BY <1>3 DEF AllAccounts
  <2>2. HandInv'
    BY <1>3 DEF AllAccounts
  <2>3. SnapshotInv'
    BY <1>3 DEF AllAccounts
  <2>4. DeleteInv'
    BY <1>3 DEF AllAccounts
  <2> QED BY <2>1, <2>2, <2>3, <2>4
<1>4. ASSUME NEW u \in Users, Skip(g, u) PROVE IInv'
  <2>1. TypeOK'
    BY <1>4 DEF Skip
  <2>2. HandInv'
    BY <1>4 DEF Skip
  <2>3. SnapshotInv'
    BY <1>4 DEF Skip
  <2>4. DeleteInv'
    BY <1>4 DEF Skip
  <2> QED BY <2>1, <2>2, <2>3, <2>4
<1>5. ASSUME NEW u \in Users, Login(g, u) PROVE IInv'
  <2>1. TypeOK'
    BY <1>5 DEF Login
  <2>2. HandInv'
    BY <1>5 DEF Login
  <2>3. SnapshotInv'
    BY <1>5 DEF Login
  <2>4. DeleteInv'
    BY <1>5 DEF Login
  <2> QED BY <2>1, <2>2, <2>3, <2>4
<1>6. ASSUME NEW u \in Users, LoggedIn(g, u) PROVE IInv'
  <2>1. /\ Fresh(u) \in Credentials
        /\ \A t \in Testers : Fresh(u) # snapshot[t][u]
    BY <1>6, FreshCredential DEF LoggedIn
  <2> HIDE DEF Fresh
  <2>2. TypeOK'
    <3>1. [hand[g] EXCEPT !.credential = Fresh(u)]
              \in [user : Users \cup {None}, credential : Credentials \cup {None, Empty}]
      BY <2>1, HandType
    <3>2. hand' \in [Generators -> [user : Users \cup {None},
                                    credential : Credentials \cup {None, Empty}]]
      BY <1>6, <3>1 DEF LoggedIn
    <3>3. accepted' \subseteq Users \X Credentials
      BY <1>6, <2>1 DEF LoggedIn
    <3> QED BY <1>6, <3>2, <3>3 DEF LoggedIn
  <2>3. HandInv'
    BY <1>6, <2>1 DEF LoggedIn
  <2>4. SnapshotInv'
    BY <1>6 DEF LoggedIn
  <2>5. DeleteInv'
    BY <1>6, <2>1 DEF LoggedIn
  <2> QED BY <2>2, <2>3, <2>4, <2>5
<1>7. CASE Refused(g)
  <2>1. Fresh(hand[g].user) \in Credentials
    BY <1>7, FreshCredential DEF Refused
  <2>2. PICK c \in Credentials \cup {None, Empty} :
            /\ site = "antispider7" => c = None
            /\ site = "antispider6" => c # None
            /\ \/ hand' = [hand EXCEPT ![g] = NoUser] /\ site = "antispider7"
               \/ hand' = [hand EXCEPT ![g].credential = c] /\ site = "antispider6"
    BY <1>7, <2>1 DEF Refused
  <2>3. TypeOK' /\ HandInv'
    <3>1. hand' \in [Generators -> [user : Users \cup {None},
                                    credential : Credentials \cup {None, Empty}]]
      <4>1. [hand[g] EXCEPT !.credential = c]
                \in [user : Users \cup {None}, credential : Credentials \cup {None, Empty}]
        BY HandType
      <4>2. NoUser \in [user : Users \cup {None}, credential : Credentials \cup {None, Empty}]
        OBVIOUS
      <4>3. CASE site = "antispider7"
        <5>1. hand' = [hand EXCEPT ![g] = NoUser]
          BY <2>2, <4>3
        <5> HIDE DEF NoUser
        <5> QED BY <4>2, <5>1
      <4>4. CASE site = "antispider6"
        BY <2>2, <4>1, <4>4
      <4> QED BY <4>3, <4>4
    <3>2. accepted' \subseteq accepted
      BY <1>7 DEF Refused
    <3>3. \/ gpc' = [gpc EXCEPT ![g] = "loop"] /\ site = "antispider7"
          \/ gpc' = [gpc EXCEPT ![g] = "set"] /\ site = "antispider6"
      BY <1>7 DEF Refused
    <3>4. TypeOK'
      BY <1>7, <3>1, <3>2, <3>3 DEF Refused
    <3>5. HandInv'
      <4>1. /\ gpc[g] = "login" /\ hand[g].user \in Users /\ ~Has(hand[g].user)
            /\ UNCHANGED <<site, credential>>
        BY <1>7 DEF Refused
      <4>2. \A h \in Generators : h = g
        BY DEF SingleInstance
      <4>3. CASE site = "antispider7"
        <5>1. gpc'[g] = "loop" /\ hand'[g] = NoUser
          BY <2>2, <3>3, <4>3
        <5> QED BY <4>2, <5>1
      <4>4. CASE site = "antispider6"
        <5>1. /\ gpc'[g] = "set" /\ hand'[g] = [hand[g] EXCEPT !.credential = c]
              /\ c # None
          BY <2>2, <3>3, <4>4
        <5>2. hand'[g].user = hand[g].user /\ hand'[g].credential = c
          BY <5>1
        <5>3. hand'[g].user \in Users /\ credential'[hand'[g].user] \in {None, Empty}
          BY <4>1, <5>2
        <5> QED BY <4>1, <4>2, <4>4, <5>1, <5>2, <5>3
      <4> QED BY <4>3, <4>4
    <3> QED BY <3>4, <3>5
  <2>4. SnapshotInv'
    BY <1>7 DEF Refused
  <2>5. DeleteInv'
    BY <1>7 DEF Refused
  <2> QED BY <2>3, <2>4, <2>5
<1>8. CASE SetCredential(g)
  <2>1. TypeOK'
    BY <1>8 DEF SetCredential
  <2>2. HandInv'
    BY <1>8 DEF SetCredential, SingleInstance
  <2>3. SnapshotInv'
    BY <1>8 DEF SetCredential
  <2>4. DeleteInv'
    BY <1>8 DEF SetCredential
  <2> QED BY <2>1, <2>2, <2>3, <2>4
<1>9. CASE EndRun(g)
  <2>1. TypeOK'
    BY <1>9 DEF EndRun
  <2>2. HandInv'
    BY <1>9 DEF EndRun
  <2>3. SnapshotInv'
    BY <1>9 DEF EndRun
  <2>4. DeleteInv'
    BY <1>9 DEF EndRun
  <2> QED BY <2>1, <2>2, <2>3, <2>4
<1> QED
    BY <1>1, <1>2, <1>3, <1>4, <1>5, <1>6, <1>7, <1>8, <1>9 DEF Generator

\* The steps of the tester keep the invariant.
LEMMA TesterStep ==
    ASSUME SingleInstance, IInv, NEW t \in Testers, Tester(t)
    PROVE  IInv'
<1> USE CredentialsAssumption, BoundsAssumption
        DEF IInv, TypeOK, HandInv, SnapshotInv, DeleteInv, Has, Tested
<1>1. CASE AllCredentials(t)
  <2>1. TypeOK'
    BY <1>1 DEF AllCredentials
  <2>2. HandInv'
    BY <1>1 DEF AllCredentials
  <2>3. SnapshotInv'
    BY <1>1 DEF AllCredentials
  <2>4. DeleteInv'
    BY <1>1 DEF AllCredentials
  <2> QED BY <2>1, <2>2, <2>3, <2>4
<1>2. ASSUME NEW u \in Users, TestKeeps(t, u) PROVE IInv'
  <2>1. TypeOK'
    BY <1>2 DEF TestKeeps
  <2>2. HandInv'
    BY <1>2 DEF TestKeeps
  <2>3. SnapshotInv'
    BY <1>2 DEF TestKeeps
  <2>4. DeleteInv'
    BY <1>2 DEF TestKeeps
  <2> QED BY <2>1, <2>2, <2>3, <2>4
<1>3. ASSUME NEW u \in Users, TestRefused(t, u) PROVE IInv'
  <2>1. TypeOK'
    BY <1>3 DEF TestRefused
  <2>2. HandInv'
    BY <1>3 DEF TestRefused
  <2>3. SnapshotInv'
    BY <1>3 DEF TestRefused
  <2>4. DeleteInv'
    BY <1>3 DEF TestRefused
  <2> QED BY <2>1, <2>2, <2>3, <2>4
<1>4. CASE Delete(t)
  <2>1. PICK u \in Users :
            /\ tuser[t] = {u}
            /\ credential' = [credential EXCEPT ![u] = None]
            /\ snapshot' = [snapshot EXCEPT ![t][u] = None]
    <3>1. PICK v \in tuser[t] : /\ credential' = [credential EXCEPT ![v] = None]
                                /\ Tested(t, v)
      BY <1>4 DEF Delete
    <3>2. PICK u \in Users : tuser[t] = {u}
      BY <1>4 DEF Delete
    <3>3. u = v
      BY <3>1, <3>2
    <3> QED BY <3>1, <3>2, <3>3
  <2>2. TypeOK'
    BY <1>4, <2>1 DEF Delete
  <2>3. HandInv'
    BY <1>4, <2>1 DEF Delete
  <2>4. SnapshotInv'
    BY <1>4, <2>1 DEF Delete, SingleInstance
  <2>5. DeleteInv'
    BY <1>4, <2>1 DEF Delete, SingleInstance
  <2> QED BY <2>2, <2>3, <2>4, <2>5
<1>5. CASE EndRound(t)
  <2>1. TypeOK'
    BY <1>5 DEF EndRound
  <2>2. HandInv'
    BY <1>5 DEF EndRound
  <2>3. SnapshotInv'
    BY <1>5 DEF EndRound
  <2>4. DeleteInv'
    BY <1>5 DEF EndRound
  <2> QED BY <2>1, <2>2, <2>3, <2>4
<1> QED BY <1>1, <1>2, <1>3, <1>4, <1>5 DEF Tester

\* So do deaths, restarts, the server, and the site.
LEMMA Step == SingleInstance /\ IInv /\ [Next]_vars => IInv'
<1> SUFFICES ASSUME SingleInstance, IInv, [Next]_vars PROVE IInv'
    OBVIOUS
<1> USE CredentialsAssumption, BoundsAssumption
        DEF IInv, TypeOK, HandInv, SnapshotInv, DeleteInv, Has, NoUser
<1>1. ASSUME NEW g \in Generators, GeneratorDies(g) PROVE IInv'
  <2>1. TypeOK'
    BY <1>1 DEF GeneratorDies
  <2>2. HandInv'
    BY <1>1 DEF GeneratorDies
  <2>3. SnapshotInv'
    BY <1>1 DEF GeneratorDies
  <2>4. DeleteInv'
    BY <1>1 DEF GeneratorDies
  <2> QED BY <2>1, <2>2, <2>3, <2>4
<1>2. ASSUME NEW t \in Testers, TesterDies(t) PROVE IInv'
  <2>1. TypeOK'
    BY <1>2 DEF TesterDies
  <2>2. HandInv'
    BY <1>2 DEF TesterDies
  <2>3. SnapshotInv'
    BY <1>2 DEF TesterDies
  <2>4. DeleteInv'
    BY <1>2 DEF TesterDies
  <2> QED BY <2>1, <2>2, <2>3, <2>4
<1>3. CASE Restart
  <2>1. TypeOK'
    BY <1>3 DEF Restart
  <2>2. HandInv'
    BY <1>3 DEF Restart
  <2>3. SnapshotInv'
    BY <1>3 DEF Restart
  <2>4. DeleteInv'
    BY <1>3 DEF Restart
  <2> QED BY <2>1, <2>2, <2>3, <2>4
<1>4. CASE Expire
  <2>1. TypeOK'
    BY <1>4 DEF Expire
  <2>2. HandInv'
    BY <1>4 DEF Expire
  <2>3. SnapshotInv'
    BY <1>4 DEF Expire
  <2>4. DeleteInv'
    BY <1>4 DEF Expire
  <2> QED BY <2>1, <2>2, <2>3, <2>4
<1>5. ASSUME NEW u \in Users, Add(u) PROVE IInv'
  <2>1. TypeOK'
    BY <1>5 DEF Add
  <2>2. HandInv'
    BY <1>5 DEF Add
  <2>3. SnapshotInv'
    BY <1>5 DEF Add
  <2>4. DeleteInv'
    BY <1>5 DEF Add
  <2> QED BY <2>1, <2>2, <2>3, <2>4
<1>6. CASE UNCHANGED vars
  <2>1. TypeOK'
    BY <1>6 DEF vars
  <2>2. HandInv'
    BY <1>6 DEF vars
  <2>3. SnapshotInv'
    BY <1>6 DEF vars
  <2>4. DeleteInv'
    BY <1>6 DEF vars
  <2> QED BY <2>1, <2>2, <2>3, <2>4
<1> QED
    BY <1>1, <1>2, <1>3, <1>4, <1>5, <1>6, GeneratorStep, TesterStep DEF Next

\* The initial states satisfy the invariant.
LEMMA Start == Init => IInv
BY UsersAssumption, CredentialsAssumption, BoundsAssumption
DEF Init, IInv, TypeOK, HandInv, SnapshotInv, DeleteInv, Has, NoUser

\* With one generator and one tester the variables have their types; in
\* particular the generator of antispider7 never stores an empty credential.
THEOREM TypeCorrect ==
    ASSUME SingleInstance
    PROVE  Spec => []TypeOK
<1>1. IInv /\ [Next]_vars => IInv'
    BY Step
<1>2. IInv => TypeOK
    BY DEF IInv
<1> QED BY <1>1, <1>2, Start, PTL DEF Spec

\* generate() replaces no stored credential, and delete() of the tester takes the
\* one that test() was called with, except where that one was empty.
THEOREM TestedIsDeleted ==
    ASSUME SingleInstance
    PROVE  Spec => DeletesWhatItTested
<1> DEFINE S == \A u \in Users :
                   credential[u] \in Credentials /\ credential'[u] # credential[u] =>
                       /\ credential'[u] = None
                       /\ \E t \in Testers :
                             tuser[t] = {u} /\ snapshot[t][u] \in {credential[u], Empty}
<1>1. IInv /\ [Next]_vars => IInv'
    BY Step
<1>2. IInv /\ [Next]_vars => [S]_vars
  <2> SUFFICES ASSUME IInv, Next, NEW u \in Users, credential[u] \in Credentials,
                      credential'[u] # credential[u]
               PROVE  /\ credential'[u] = None
                      /\ \E t \in Testers :
                            tuser[t] = {u} /\ snapshot[t][u] \in {credential[u], Empty}
    OBVIOUS
  <2>1. ASSUME NEW g \in Generators, SetCredential(g) PROVE FALSE
    <3>1. hand[g].user \in Users /\ ~Has(hand[g].user)
      BY <2>1 DEF SetCredential, IInv, HandInv
    <3>2. hand[g].user = u
      BY <2>1, <3>1 DEF SetCredential, IInv, TypeOK
    <3> QED BY <3>1, <3>2, CredentialsAssumption DEF Has
  <2>2. \E t \in Testers : Delete(t)
    BY <2>1
    DEF Next, Generator, Tester, GeneratorDies, TesterDies, Restart, Expire, Add,
        StartRun, InitSet, AllAccounts, Skip, Login, LoggedIn, Refused, EndRun,
        AllCredentials, TestKeeps, TestRefused, EndRound
  <2>3. PICK t \in Testers : Delete(t)
    BY <2>2
  <2>4. tuser[t] = {u} /\ snapshot[t][u] # None /\ credential'[u] = None
    BY <2>3 DEF Delete, IInv, TypeOK, DeleteInv
  <2>5. snapshot[t][u] \in {credential[u], Empty}
    BY <2>4 DEF IInv, SnapshotInv
  <2> QED BY <2>4, <2>5
<1> HIDE DEF S
<1>3. Spec => [][S]_vars
    BY <1>1, <1>2, Start, PTL DEF Spec
<1> QED BY <1>3 DEF S, DeletesWhatItTested
=============================================================================
