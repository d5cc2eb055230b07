---------------------------- MODULE AccountPool ----------------------------
(***************************************************************************)
(* The AccountPool: generators log accounts in and store the credentials,  *)
(* testers try the stored credentials and delete those whose test is not   *)
(* answered with status 200.                                               *)
(* They are processes that share two Redis hashes, accounts and            *)
(* credentials; one step is one Redis command or one answer of the site.   *)
(*                                                                         *)
(* Passwords are left out: a login may be refused. The routes /random and  *)
(* /count only read. The credentials of a user are told apart as far as    *)
(* they are in use; one that is not in use any more may stand for another. *)
(***************************************************************************)
EXTENDS Naturals

CONSTANTS
    Users,
    Defaults,      \* the users that init() adds
    Generators, Testers,
    Credentials,
    None,          \* no entry in the hash
    Empty,         \* the empty string, made of no cookies
    MaxExpiries,   \* bound: credentials that the site ceases to accept
    MaxDeaths      \* bound: exceptions that end a process

ASSUME UsersAssumption == Defaults \subseteq Users
ASSUME CredentialsAssumption ==
    None \notin Credentials /\ Empty \notin Credentials /\ None # Empty
\* There is a credential besides the stored one and the one under test.
ASSUME FreshAssumption ==
    \A a, b \in Credentials \cup {None, Empty} : \E c \in Credentials : c \notin {a, b}
ASSUME BoundsAssumption == MaxExpiries \in Nat /\ MaxDeaths \in Nat

VARIABLES
    site,         \* "antispider6" | "antispider7"
    supervised,   \* supervisord starts a process that has died again
    accounts,     \* keys of the hash account:site
    credential,   \* the hash credential:site
    accepted,     \* <<user, credential>> that the site accepts
    gpc,          \* generator -> where it is
    gtodo,        \* generator -> users its loop has yet to look at
    hand,         \* generator -> the user it logs in, and the credential
    tpc,          \* tester -> where it is
    snapshot,     \* tester -> what is left to test of what all() returned
    tuser,        \* tester -> the user whose credential it is to delete, as a set
    expiries, deaths

hashes == <<accounts, credential>>
gvars == <<gpc, gtodo, hand>>
tvars == <<tpc, snapshot, tuser>>
setup == <<site, supervised>>
bounds == <<expiries, deaths>>
vars == <<setup, hashes, accepted, gvars, tvars, bounds>>

NoUser == [user |-> None, credential |-> None]

Init ==
    /\ site \in {"antispider6", "antispider7"} /\ supervised \in BOOLEAN
    /\ accounts = {} /\ credential = [u \in Users |-> None] /\ accepted = {}
    /\ gpc = [g \in Generators |-> "sleep"]
    /\ gtodo = [g \in Generators |-> {}]
    /\ hand = [g \in Generators |-> NoUser]
    /\ tpc = [t \in Testers |-> "sleep"]
    /\ snapshot = [t \in Testers |-> [u \in Users |-> None]]
    /\ tuser = [t \in Testers |-> {}]
    /\ expiries = 0 /\ deaths = 0
-----------------------------------------------------------------------------
(* The generator *)

\* init() of antispider6 adds its users to an empty hash, that of antispider7
\* always.
StartRun(g) ==
    /\ gpc[g] = "sleep"
    /\ gpc' = [gpc EXCEPT ![g] = "init"]
    /\ gtodo' = [gtodo EXCEPT ![g] =
                    IF site = "antispider7" \/ accounts = {} THEN Defaults ELSE {}]
    /\ UNCHANGED <<setup, hashes, accepted, hand, tvars, bounds>>

InitSet(g) ==
    /\ gpc[g] = "init"
    /\ \E u \in gtodo[g] :
          /\ accounts' = accounts \cup {u}
          /\ gtodo' = [gtodo EXCEPT ![g] = @ \ {u}]
    /\ UNCHANGED <<setup, credential, accepted, gpc, hand, tvars, bounds>>

\* run() reads all accounts.
AllAccounts(g) ==
    /\ gpc[g] = "init" /\ gtodo[g] = {}
    /\ gpc' = [gpc EXCEPT ![g] = "loop"]
    /\ gtodo' = [gtodo EXCEPT ![g] = accounts]
    /\ UNCHANGED <<setup, hashes, accepted, hand, tvars, bounds>>

\* Mutant of Has: nothing is looked up.
HasNothing(u) == FALSE

\* credential_operator.get(username) is true: the empty string is not.
Has(u) == credential[u] \notin {None, Empty}

\* The credential is looked up twice in a row, in run() and in generate();
\* nothing is done in between, so that both are one step.
Skip(g, u) ==
    /\ gpc[g] = "loop" /\ u \in gtodo[g] /\ Has(u)
    /\ gtodo' = [gtodo EXCEPT ![g] = @ \ {u}]
    /\ UNCHANGED <<setup, hashes, accepted, gpc, hand, tvars, bounds>>

Login(g, u) ==
    /\ gpc[g] = "loop" /\ u \in gtodo[g] /\ ~Has(u)
    /\ gtodo' = [gtodo EXCEPT ![g] = @ \ {u}]
    /\ hand' = [hand EXCEPT ![g].user = u]
    /\ gpc' = [gpc EXCEPT ![g] = "login"]
    /\ UNCHANGED <<setup, hashes, accepted, tvars, bounds>>

\* A credential of u that nobody holds.
Fresh(u) ==
    CHOOSE c \in Credentials :
        /\ c # credential[u]
        /\ \A t \in Testers : c # snapshot[t][u]
        /\ \A g \in Generators : hand[g] # [user |-> u, credential |-> c]

\* The site accepts the login and gives a cookie or a token.
LoggedIn(g, u) ==
    /\ gpc[g] = "login" /\ hand[g].user = u
    /\ hand' = [hand EXCEPT ![g].credential = Fresh(u)]
    /\ accepted' = accepted \cup {<<u, Fresh(u)>>}
    /\ gpc' = [gpc EXCEPT ![g] = "set"]
    /\ UNCHANGED <<setup, hashes, gtodo, tvars, bounds>>

\* Mutant of Refused: the status of the answer is not looked at.
RefusedStored(g) ==
    /\ gpc[g] = "login"
    /\ gpc' = [gpc EXCEPT ![g] = "set"]
    /\ \E c \in {Empty, Fresh(hand[g].user)} :
          /\ hand' = [hand EXCEPT ![g].credential = c]
          /\ accepted' = accepted \ {<<hand[g].user, c>>}
    /\ UNCHANGED <<setup, hashes, gtodo, tvars, bounds>>

\* The site refuses the login: antispider7 looks at the status, antispider6
\* takes the cookies of the answer, if there are any.
Refused(g) ==
    /\ gpc[g] = "login"
    /\ \/ /\ site = "antispider7"
          /\ gpc' = [gpc EXCEPT ![g] = "loop"]
          /\ hand' = [hand EXCEPT ![g] = NoUser]
          /\ UNCHANGED accepted
       \/ /\ site = "antispider6"
          /\ gpc' = [gpc EXCEPT ![g] = "set"]
          /\ \E c \in {Empty, Fresh(hand[g].user)} :
                /\ hand' = [hand EXCEPT ![g].credential = c]
                /\ accepted' = accepted \ {<<hand[g].user, c>>}
    /\ UNCHANGED <<setup, hashes, gtodo, tvars, bounds>>

SetCredential(g) ==
    /\ gpc[g] = "set"
    /\ credential' = [credential EXCEPT ![hand[g].user] = hand[g].credential]
    /\ hand' = [hand EXCEPT ![g] = NoUser]
    /\ gpc' = [gpc EXCEPT ![g] = "loop"]
    /\ UNCHANGED <<setup, accounts, accepted, gtodo, tvars, bounds>>

EndRun(g) ==
    /\ gpc[g] = "loop" /\ gtodo[g] = {}
    /\ gpc' = [gpc EXCEPT ![g] = "sleep"]
    /\ UNCHANGED <<setup, hashes, accepted, gtodo, hand, tvars, bounds>>
-----------------------------------------------------------------------------
(* The tester *)

\* run() reads all credentials.
AllCredentials(t) ==
    /\ tpc[t] = "sleep"
    /\ tpc' = [tpc EXCEPT ![t] = "loop"]
    /\ snapshot' = [snapshot EXCEPT ![t] = credential]
    /\ UNCHANGED <<setup, hashes, accepted, gvars, tuser, bounds>>

Tested(t, u) == snapshot' = [snapshot EXCEPT ![t][u] = None]

\* Status 200, or a ConnectionError: the credential stays.
TestKeeps(t, u) ==
    /\ tpc[t] = "loop" /\ snapshot[t][u] # None
    /\ Tested(t, u)
    /\ UNCHANGED <<setup, hashes, accepted, gvars, tpc, tuser, bounds>>

\* Another status: a refusal, but also an error of the site or a limit on the
\* number of requests, which a credential that it accepts may meet as well.
TestRefused(t, u) ==
    /\ tpc[t] = "loop" /\ snapshot[t][u] # None
    /\ tpc' = [tpc EXCEPT ![t] = "delete"]
    /\ tuser' = [tuser EXCEPT ![t] = {u}]
    /\ UNCHANGED <<setup, hashes, accepted, gvars, snapshot, bounds>>

\* delete(username): whatever is stored by now.
Delete(t) ==
    /\ tpc[t] = "delete"
    /\ \E u \in tuser[t] :
          /\ credential' = [credential EXCEPT ![u] = None]
          /\ Tested(t, u)
    /\ tuser' = [tuser EXCEPT ![t] = {}]
    /\ tpc' = [tpc EXCEPT ![t] = "loop"]
    /\ UNCHANGED <<setup, accounts, accepted, gvars, bounds>>

EndRound(t) ==
    /\ tpc[t] = "loop" /\ \A u \in Users : snapshot[t][u] = None
    /\ tpc' = [tpc EXCEPT ![t] = "sleep"]
    /\ UNCHANGED <<setup, hashes, accepted, gvars, snapshot, tuser, bounds>>
-----------------------------------------------------------------------------
(* Processes, the server, and the site *)

\* An exception that is not caught, such as requests.ReadTimeout or one of
\* Redis: the loop of run_generator() is over.
GeneratorDies(g) ==
    /\ deaths < MaxDeaths /\ deaths' = deaths + 1
    /\ gpc[g] \notin {"sleep", "dead"}
    /\ gpc' = [gpc EXCEPT ![g] = "dead"]
    /\ gtodo' = [gtodo EXCEPT ![g] = {}]
    /\ hand' = [hand EXCEPT ![g] = NoUser]
    /\ UNCHANGED <<setup, hashes, accepted, tvars, expiries>>

\* The same in run_tester().
TesterDies(t) ==
    /\ deaths < MaxDeaths /\ deaths' = deaths + 1
    /\ tpc[t] \notin {"sleep", "dead"}
    /\ tpc' = [tpc EXCEPT ![t] = "dead"]
    /\ snapshot' = [snapshot EXCEPT ![t] = [u \in Users |-> None]]
    /\ tuser' = [tuser EXCEPT ![t] = {}]
    /\ UNCHANGED <<setup, hashes, accepted, gvars, expiries>>

\* Mutant of Restart: only testers are started again.
RestartTesters ==
    /\ supervised
    /\ \E t \in Testers : tpc[t] = "dead" /\ tpc' = [tpc EXCEPT ![t] = "sleep"]
    /\ UNCHANGED <<setup, hashes, accepted, gvars, snapshot, tuser, bounds>>

\* supervisord starts what has ended with an error.
Restart ==
    /\ supervised
    /\ \/ /\ \E g \in Generators :
                gpc[g] = "dead" /\ gpc' = [gpc EXCEPT ![g] = "sleep"]
          /\ UNCHANGED tpc
       \/ /\ \E t \in Testers :
                tpc[t] = "dead" /\ tpc' = [tpc EXCEPT ![t] = "sleep"]
          /\ UNCHANGED gpc
    /\ UNCHANGED <<setup, hashes, accepted, gtodo, hand, snapshot, tuser, bounds>>

\* /<website>/add/<username>/<password>
Add(u) ==
    /\ u \notin accounts
    /\ accounts' = accounts \cup {u}
    /\ UNCHANGED <<setup, credential, accepted, gvars, tvars, bounds>>

\* The site ceases to accept a credential.
Expire ==
    /\ expiries < MaxExpiries /\ expiries' = expiries + 1
    /\ \E a \in accepted : accepted' = accepted \ {a}
    /\ UNCHANGED <<setup, hashes, gvars, tvars, deaths>>

Generator(g) ==
    \/ StartRun(g) \/ InitSet(g) \/ AllAccounts(g)
    \/ \E u \in Users : Skip(g, u) \/ Login(g, u) \/ LoggedIn(g, u)
    \/ Refused(g) \/ SetCredential(g) \/ EndRun(g)

Tester(t) ==
    \/ AllCredentials(t) \/ Delete(t) \/ EndRound(t)
    \/ \E u \in Users : TestKeeps(t, u) \/ TestRefused(t, u)

Next ==
    \/ \E g \in Generators : Generator(g) \/ GeneratorDies(g)
    \/ \E t \in Testers : Tester(t) \/ TesterDies(t)
    \/ Restart \/ Expire
    \/ \E u \in Users : Add(u)

Spec == Init /\ [][Next]_vars

\* The processes go on, their sleeps are bounded, and supervisord starts them
\* again. A login that is tried again and again succeeds in the end, and the test
\* of a credential that the site does not accept, made again and again, is
\* answered with a refusal in the end.
FairSpec ==
    /\ Spec
    /\ WF_vars(Restart)
    /\ \A g \in Generators :
          WF_vars(Generator(g)) /\ \A u \in Users : SF_vars(LoggedIn(g, u))
    /\ \A t \in Testers :
          /\ WF_vars(Tester(t))
          /\ \A u \in Users :
                SF_vars(<<u, snapshot[t][u]>> \notin accepted /\ TestRefused(t, u))
-----------------------------------------------------------------------------
TypeOK ==
    /\ site \in {"antispider6", "antispider7"} /\ supervised \in BOOLEAN
    /\ accounts \subseteq Users
    /\ credential \in [Users -> Credentials \cup {None, Empty}]
    /\ site = "antispider7" => \A u \in Users : credential[u] # Empty
    /\ accepted \subseteq Users \X Credentials
    /\ gpc \in [Generators -> {"sleep", "init", "loop", "login", "set", "dead"}]
    /\ gtodo \in [Generators -> SUBSET Users]
    /\ hand \in [Generators -> [user : Users \cup {None},
                                credential : Credentials \cup {None, Empty}]]
    /\ tpc \in [Testers -> {"sleep", "loop", "delete", "dead"}]
    /\ snapshot \in [Testers -> [Users -> Credentials \cup {None, Empty}]]
    /\ tuser \in [Testers -> SUBSET Users]
    /\ expiries \in 0..MaxExpiries /\ deaths \in 0..MaxDeaths

\* What run.py starts for a site.
SingleInstance ==
    (\A g, h \in Generators : g = h) /\ (\A t, u \in Testers : t = u)

Accepted(u) == <<u, credential[u]>> \in accepted

\* With one generator and one tester, a stored credential is never replaced, and
\* what the tester deletes by the name of its user is the very credential that it
\* has tested, although both processes act on what they have read before: except
\* on antispider6, where the tester may have read an empty credential, which the
\* generator takes for none and replaces meanwhile.
DeletesWhatItTested ==
    [][\A u \in Users :
          credential[u] \in Credentials /\ credential'[u] # credential[u] =>
              /\ credential'[u] = None
              /\ \E t \in Testers :
                    tuser[t] = {u} /\ snapshot[t][u] \in {credential[u], Empty}]_vars

\* Every account gets a credential that the site accepts, again and again:
\* expired and useless ones are found and replaced. Without supervisord that
\* is over once a process has died.
Refilled ==
    \A u \in Users :
        u \in accounts ~>
            \/ Accepted(u)
            \/ /\ ~supervised
               /\ \/ \E g \in Generators : gpc[g] = "dead"
                  \/ \E t \in Testers : tpc[t] = "dead"

=============================================================================
