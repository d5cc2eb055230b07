----------------------------- MODULE ProxyPool -----------------------------
(***************************************************************************)
(* The proxy pool of spider/util/ProxyPool: getter, tester and server      *)
(* processes that share one Redis sorted set of proxy addresses and talk   *)
(* to each other through nothing else.  Every Redis command is atomic; an  *)
(* operation of RedisClient that issues several of them is several steps.  *)
(*                                                                         *)
(* The deployment may run several replicas of each process.  Redis, the    *)
(* crawled sites and the proxies themselves are outside the repository.    *)
(***************************************************************************)
EXTENDS Integers, FiniteSets

CONSTANTS
    Proxies,     \* addresses of the right format, as they are crawled
    Canon,       \* address -> what convert_proxy_or_proxies makes of it
    Getters, Testers, Servers,   \* the processes
    ScoreMin, ScoreInit, ScoreMax,   \* 0, 10 and 100 in setting.py
    NumberMax,   \* PROXY_NUMBER_MAX
    CrawlMax,    \* bound: addresses one run of the getter crawls
    Dead,        \* proxies that fail every test
    OtherErrors, \* proxies whose tests may raise an exception not in EXCEPTIONS
    MaxKills     \* bound: tester processes killed and started again

\* int(port) drops leading zeros: applying it twice changes nothing more.
ASSUME CanonAssumption ==
    /\ Canon \in [Proxies -> Proxies]
    /\ \A p \in Proxies : Canon[Canon[p]] = Canon[p]
ASSUME ScoreAssumption ==
    /\ ScoreMin \in Nat /\ ScoreInit \in Nat /\ ScoreMax \in Nat
    /\ ScoreMin < ScoreInit /\ ScoreInit < ScoreMax
ASSUME BoundAssumption ==
    NumberMax \in Nat /\ CrawlMax \in Nat /\ MaxKills \in Nat
ASSUME OutcomeAssumption == OtherErrors \subseteq Proxies /\ Dead \subseteq Proxies

VARIABLES
    pool,     \* members of the sorted set
    score,    \* their scores; 0 for addresses outside the pool
    gpc,      \* getter -> "sleep" | "crawl" | "zadd"
    gproxy,   \* getter -> the address add() found missing, as a set
    crawled,  \* getter -> addresses crawled in this run
    tpc,      \* tester -> "sleep" | "scan" | "test" | "zscore" | "zrem"
    must,     \* tester -> members its ZSCAN still owes it
    tasks,    \* tester -> addresses of the batch whose test() is running
    tproxy,   \* tester -> the proxy whose decrease() is under way, as a set
    spc,      \* server -> "idle" | "rank"
    served,   \* server -> the last proxy /random answered with, as a set
    passed,   \* history: proxies whose latest test was passed
    kills     \* history: testers killed so far

redis == <<pool, score>>
gvars == <<gpc, gproxy, crawled>>
tvars == <<tpc, must, tasks, tproxy>>
svars == <<spc, served>>
vars == <<redis, gvars, tvars, svars, passed, kills>>

Init ==
    /\ pool = {} /\ score = [p \in Proxies |-> 0]
    /\ gpc = [g \in Getters |-> "sleep"]
    /\ gproxy = [g \in Getters |-> {}]
    /\ crawled = [g \in Getters |-> 0]
    /\ tpc = [t \in Testers |-> "sleep"]
    /\ must = [t \in Testers |-> {}]
    /\ tasks = [t \in Testers |-> {}]
    /\ tproxy = [t \in Testers |-> {}]
    /\ spc = [s \in Servers |-> "idle"] /\ served = [s \in Servers |-> {}]
    /\ passed = {} /\ kills = 0

-----------------------------------------------------------------------------
(* Commands of the sorted set, and the operations that are one command. *)

Zadd(p, s) == pool' = pool \cup {p} /\ score' = [score EXCEPT ![p] = s]

\* exists(proxy): ZSCORE is not None.
Exists(p) == p \in pool

\* count() and is_full(): ZCARD against the limit.
Full == Cardinality(pool) >= NumberMax

\* convert_proxy_or_proxies: every address read from Redis goes through it.
Convert(p) == Canon[p]

\* Mutant of SetMax: the maximum is added to the score, as in decrease().
SetMaxAdds(p) == Zadd(p, score[p] + ScoreMax)

\* max(proxy).
SetMax(p) == Zadd(p, ScoreMax)

\* ZINCRBY -1 creates a missing member with score -1.
ZincrbyDown(p) ==
    Zadd(p, IF p \in pool THEN score[p] - 1 ELSE -1)

\* A removed member is no longer owed by any ZSCAN.
Zrem(p) ==
    /\ pool' = pool \ {p} /\ score' = [score EXCEPT ![p] = 0]
    /\ must' = [t \in Testers |-> must[t] \ {p}]

-----------------------------------------------------------------------------
(* Getter. *)

\* Mutant of StartCrawl: is_full() is not called.
StartCrawlUnchecked(g) ==
    /\ gpc[g] = "sleep"
    /\ gpc' = [gpc EXCEPT ![g] = "crawl"]
    /\ crawled' = [crawled EXCEPT ![g] = 0]
    /\ UNCHANGED <<redis, gproxy, tvars, svars, passed, kills>>

\* is_full(): a full pool ends the run; it is not looked at again.
StartCrawl(g) ==
    /\ gpc[g] = "sleep"
    /\ ~Full
    /\ gpc' = [gpc EXCEPT ![g] = "crawl"]
    /\ crawled' = [crawled EXCEPT ![g] = 0]
    /\ UNCHANGED <<redis, gproxy, tvars, svars, passed, kills>>

\* Mutant of AddExists: the answer of exists() is ignored.
AddWithoutExists(g, p) ==
    /\ gpc[g] = "crawl" /\ crawled[g] < CrawlMax
    /\ crawled' = [crawled EXCEPT ![g] = @ + 1]
    /\ gpc' = [gpc EXCEPT ![g] = "zadd"]
    /\ gproxy' = [gproxy EXCEPT ![g] = {p}]
    /\ UNCHANGED <<redis, tvars, svars, passed, kills>>

\* add(proxy), first command: exists(proxy).
AddExists(g, p) ==
    /\ gpc[g] = "crawl" /\ crawled[g] < CrawlMax
    /\ crawled' = [crawled EXCEPT ![g] = @ + 1]
    /\ IF Exists(p)
       THEN UNCHANGED <<gpc, gproxy>>
       ELSE /\ gpc' = [gpc EXCEPT ![g] = "zadd"]
            /\ gproxy' = [gproxy EXCEPT ![g] = {p}]
    /\ UNCHANGED <<redis, tvars, svars, passed, kills>>

\* add(proxy), second command: zadd with the initial score.
AddZadd(g) ==
    /\ gpc[g] = "zadd"
    /\ \E p \in gproxy[g] : Zadd(p, ScoreInit)
    /\ gpc' = [gpc EXCEPT ![g] = "crawl"]
    /\ gproxy' = [gproxy EXCEPT ![g] = {}]
    /\ UNCHANGED <<crawled, tvars, svars, passed, kills>>

\* The crawlers are exhausted, or a crawler or a command of Redis raised, also
\* between the two commands of add(), and run() logged it.
EndCrawl(g) ==
    /\ gpc[g] \in {"crawl", "zadd"}
    /\ gpc' = [gpc EXCEPT ![g] = "sleep"]
    /\ gproxy' = [gproxy EXCEPT ![g] = {}]
    /\ UNCHANGED <<redis, crawled, tvars, svars, passed, kills>>

-----------------------------------------------------------------------------
(* Tester. *)

\* Mutant of StartRound: only proxies that are known to work are tested again.
StartRoundBestOnly(t) ==
    /\ tpc[t] = "sleep"
    /\ tpc' = [tpc EXCEPT ![t] = "scan"]
    /\ must' = [must EXCEPT ![t] = {p \in pool : score[p] = ScoreMax}]
    /\ UNCHANGED <<redis, gvars, tasks, tproxy, svars, passed, kills>>

\* run(): a new iteration over the pool, cursor 0.
StartRound(t) ==
    /\ tpc[t] = "sleep"
    /\ tpc' = [tpc EXCEPT ![t] = "scan"]
    /\ must' = [must EXCEPT ![t] = pool]
    /\ UNCHANGED <<redis, gvars, tasks, tproxy, svars, passed, kills>>

\* Where the tester is once only the tests T of its batch are left: the next
\* batch is fetched when all have ended, until the cursor is back at 0.
AfterTest(t, T) ==
    IF T # {} THEN "test" ELSE IF must[t] # {} THEN "scan" ELSE "sleep"

\* batch(cursor, TEST_BATCH): ZSCAN returns some members; a full iteration
\* returns every member that is there from its beginning to its end.
Batch(t) ==
    /\ tpc[t] = "scan"
    /\ \E S \in SUBSET pool :
          /\ must[t] # {} => S \cap must[t] # {}
          /\ tasks' = [tasks EXCEPT ![t] = S]
          /\ must' = [must EXCEPT ![t] = @ \ S]
          /\ tpc' = [tpc EXCEPT ![t] =
                        IF S # {} THEN "test"
                        ELSE IF must[t] \ S # {} THEN "scan" ELSE "sleep"]
    /\ UNCHANGED <<redis, gvars, tproxy, svars, passed, kills>>

\* test(proxy) gets a valid status: redis.max(proxy).
TestValid(t, p) ==
    /\ tpc[t] = "test" /\ p \in tasks[t] /\ Convert(p) \notin Dead
    /\ SetMax(Convert(p))
    /\ passed' = passed \cup {Convert(p)}
    /\ tasks' = [tasks EXCEPT ![t] = @ \ {p}]
    /\ tpc' = [tpc EXCEPT ![t] = AfterTest(t, tasks[t] \ {p})]
    /\ UNCHANGED <<gvars, must, tproxy, svars, kills>>

\* Mutant of TestInvalid: the batch is tested again, by mistake, while a
\* decrease() is under way.
TestInvalidTwice(t, p) ==
    /\ tpc[t] = "test" /\ p \in tasks[t]
    /\ ZincrbyDown(Convert(p))
    /\ passed' = passed \ {Convert(p)}
    /\ tproxy' = [tproxy EXCEPT ![t] = {Convert(p)}]
    /\ tpc' = [tpc EXCEPT ![t] = "zscore"]
    /\ UNCHANGED <<gvars, must, tasks, svars, kills>>

\* Another status, or one of EXCEPTIONS: decrease(proxy), first command.
\* decrease() does not await, so the other tests of this batch wait for it.
TestInvalid(t, p) ==
    /\ tpc[t] = "test" /\ p \in tasks[t]
    /\ ZincrbyDown(Convert(p))
    /\ passed' = passed \ {Convert(p)}
    /\ tasks' = [tasks EXCEPT ![t] = @ \ {p}]
    /\ tproxy' = [tproxy EXCEPT ![t] = {Convert(p)}]
    /\ tpc' = [tpc EXCEPT ![t] = "zscore"]
    /\ UNCHANGED <<gvars, must, svars, kills>>

\* Any other exception ends the task; asyncio.wait does not raise it.
TestError(t, p) ==
    /\ tpc[t] = "test" /\ p \in tasks[t] /\ Convert(p) \in OtherErrors
    /\ tasks' = [tasks EXCEPT ![t] = @ \ {p}]
    /\ tpc' = [tpc EXCEPT ![t] = AfterTest(t, tasks[t] \ {p})]
    /\ UNCHANGED <<redis, gvars, must, tproxy, svars, passed, kills>>

\* Mutant of DecreaseZscore: the proxy is removed one point too early.
DecreaseZscoreEarly(t) ==
    /\ tpc[t] = "zscore"
    /\ \E p \in tproxy[t] :
          IF Exists(p) /\ score[p] <= ScoreMin + 1
          THEN tpc' = [tpc EXCEPT ![t] = "zrem"] /\ UNCHANGED tproxy
          ELSE /\ tpc' = [tpc EXCEPT ![t] = AfterTest(t, tasks[t])]
               /\ tproxy' = [tproxy EXCEPT ![t] = {}]
    /\ UNCHANGED <<redis, gvars, must, tasks, svars, passed, kills>>

\* Mutant of DecreaseZscore: < instead of <=.
DecreaseZscoreLate(t) ==
    /\ tpc[t] = "zscore"
    /\ \E p \in tproxy[t] :
          IF Exists(p) /\ score[p] < ScoreMin
          THEN tpc' = [tpc EXCEPT ![t] = "zrem"] /\ UNCHANGED tproxy
          ELSE /\ tpc' = [tpc EXCEPT ![t] = AfterTest(t, tasks[t])]
               /\ tproxy' = [tproxy EXCEPT ![t] = {}]
    /\ UNCHANGED <<redis, gvars, must, tasks, svars, passed, kills>>

\* decrease(proxy), second command: zscore.  A score that has run out is
\* removed next; None, of a member removed meanwhile, is a TypeError that ends
\* the task.
DecreaseZscore(t) ==
    /\ tpc[t] = "zscore"
    /\ \E p \in tproxy[t] :
          IF Exists(p) /\ score[p] <= ScoreMin
          THEN tpc' = [tpc EXCEPT ![t] = "zrem"] /\ UNCHANGED tproxy
          ELSE /\ tpc' = [tpc EXCEPT ![t] = AfterTest(t, tasks[t])]
               /\ tproxy' = [tproxy EXCEPT ![t] = {}]
    /\ UNCHANGED <<redis, gvars, must, tasks, svars, passed, kills>>

\* decrease(proxy), third command: zrem.
DecreaseZrem(t) ==
    /\ tpc[t] = "zrem"
    /\ \E p \in tproxy[t] : Zrem(p)
    /\ tpc' = [tpc EXCEPT ![t] = AfterTest(t, tasks[t])]
    /\ tproxy' = [tproxy EXCEPT ![t] = {}]
    /\ UNCHANGED <<gvars, tasks, svars, passed, kills>>

\* The scheduler terminates the process, or it dies, between two commands; it
\* is started again.
KillTester(t) ==
    /\ kills < MaxKills
    /\ kills' = kills + 1
    /\ tpc' = [tpc EXCEPT ![t] = "sleep"]
    /\ must' = [must EXCEPT ![t] = {}]
    /\ tasks' = [tasks EXCEPT ![t] = {}]
    /\ tproxy' = [tproxy EXCEPT ![t] = {}]
    /\ UNCHANGED <<redis, gvars, svars, passed>>

-----------------------------------------------------------------------------
(* Server. *)

\* Mutant of Best: everything that has not failed a test yet.
BestFromInit == {p \in pool : score[p] >= ScoreInit}

\* zrangebyscore(MAX, MAX).
Best == {p \in pool : score[p] = ScoreMax}

\* zrevrange(SCORE_MIN, SCORE_MAX): the scores serve as ranks, so this is the
\* first ScoreMax - ScoreMin + 1 members from the top.
TopRanked ==
    {p \in pool : Cardinality({q \in pool : score[q] > score[p]})
                      <= ScoreMax - ScoreMin}

\* /random: one of the best, if there are any.
RandomBest(s) ==
    /\ spc[s] = "idle"
    /\ IF Best # {}
       THEN /\ \E p \in Best : served' = [served EXCEPT ![s] = {Convert(p)}]
            /\ UNCHANGED spc
       ELSE /\ spc' = [spc EXCEPT ![s] = "rank"]
            /\ UNCHANGED served
    /\ UNCHANGED <<redis, gvars, tvars, passed, kills>>

\* /random, second command: one by rank, or PoolEmptyException.
RandomRank(s) ==
    /\ spc[s] = "rank"
    /\ spc' = [spc EXCEPT ![s] = "idle"]
    /\ IF TopRanked # {}
       THEN \E p \in TopRanked : served' = [served EXCEPT ![s] = {Convert(p)}]
       ELSE served' = [served EXCEPT ![s] = {}]
    /\ UNCHANGED <<redis, gvars, tvars, passed, kills>>

-----------------------------------------------------------------------------
Getter(g) ==
    \/ StartCrawl(g) \/ AddZadd(g) \/ EndCrawl(g)
    \/ \E p \in Proxies : AddExists(g, p)

Tester(t) ==
    \/ StartRound(t) \/ Batch(t) \/ DecreaseZscore(t) \/ DecreaseZrem(t)
    \/ \E p \in Proxies : TestValid(t, p) \/ TestInvalid(t, p) \/ TestError(t, p)

Server(s) == RandomBest(s) \/ RandomRank(s)

Next ==
    \/ \E g \in Getters : Getter(g)
    \/ \E t \in Testers : Tester(t) \/ KillTester(t)
    \/ \E s \in Servers : Server(s)

Spec == Init /\ [][Next]_vars

\* The scheduler keeps every process running; a tester between two cycles
\* sleeps for a bounded time.
FairSpec == Spec /\ \A t \in Testers : WF_vars(Tester(t))

-----------------------------------------------------------------------------
\* Members of the sorted set are addresses with a score of at most SCORE_MAX, an
\* address outside it has no score, and getter, tester and server are where their
\* code can be.
TypeOK ==
    /\ pool \subseteq Proxies /\ score \in [Proxies -> Int]
    /\ \A p \in Proxies : IF p \in pool THEN score[p] <= ScoreMax ELSE score[p] = 0
    /\ gpc \in [Getters -> {"sleep", "crawl", "zadd"}]
    /\ gproxy \in [Getters -> SUBSET Proxies]
    /\ crawled \in [Getters -> 0 .. CrawlMax]
    /\ tpc \in [Testers -> {"sleep", "scan", "test", "zscore", "zrem"}]
    /\ must \in [Testers -> SUBSET Proxies]
    /\ tasks \in [Testers -> SUBSET Proxies]
    /\ tproxy \in [Testers -> SUBSET Proxies]
    /\ spc \in [Servers -> {"idle", "rank"}]
    /\ served \in [Servers -> SUBSET Proxies]
    /\ passed \subseteq Proxies
    /\ kills \in 0 .. MaxKills

\* decrease(): a proxy leaves the pool only when its score has run out.  The
\* score is read two commands before the proxy is removed.
RemoveOnlyExhausted ==
    [][\A p \in Proxies :
          p \in pool /\ p \notin pool' => score[p] <= ScoreMin]_vars

\* A proxy that is not in the pool comes in through add() only, with the
\* initial score: neither max() nor decrease() brings back one that was
\* removed after the batch was read.
ReturnOnlyFresh ==
    [][\A p \in Proxies :
          p \notin pool /\ p \in pool' => score'[p] = ScoreInit]_vars

\* A proxy that passed its test keeps the maximal score until a test fails:
\* add() does not reset it although it checks and writes in two commands.
ValidScoreSticks ==
    [][\A p \in Proxies :
          p \in pool /\ score[p] = ScoreMax /\ p \in pool'
              => score'[p] \in {ScoreMax, ScoreMax - 1}]_vars

\* The pool is checked against NumberMax once per run of the getter, so it
\* overshoots, but by no more than what one run crawls.
OvershootBounded == Cardinality(pool) <= NumberMax + CrawlMax - 1

\* A member whose score has run out, which /all hides and /count counts, is one
\* that a tester is about to remove.  It takes three commands, and testers of
\* other replicas decrease, remove and revalidate the same proxy meanwhile.
ExhaustedIsBeingRemoved ==
    \A p \in pool : score[p] <= ScoreMin =>
        \E t \in Testers : tpc[t] \in {"zscore", "zrem"} /\ p \in tproxy[t]

\* /random answers with a proxy whose latest test did not pass only when it
\* found no proxy with the maximal score and went on to choose by rank.
UntestedOnlyByRank ==
    [][\A s \in Servers :
          served'[s] # served[s] /\ ~(served'[s] \subseteq passed)
              => spc[s] = "rank"]_vars

-----------------------------------------------------------------------------
(* Inductive invariants behind the properties above. *)

\* One process of each kind, and addresses crawled in canonical form.
SingleInstance ==
    /\ \A g, h \in Getters : g = h
    /\ \A t, u \in Testers : t = u
    /\ \A p \in Proxies : Canon[p] = p

\* decrease() works on one proxy at a time.
TesterInv ==
    \A t \in Testers :
        /\ \A p, q \in tproxy[t] : p = q
        /\ tpc[t] \notin {"zscore", "zrem"} => tproxy[t] = {}

\* With a single instance what a process read stays true until it writes: the
\* address add() missed is still missing, the proxies under test are still in
\* the pool, a score that ran out has not been renewed.
ReadsStayTrue ==
    /\ \A g \in Getters : gproxy[g] \cap pool = {}
    /\ \A t \in Testers :
          /\ tasks[t] \subseteq pool /\ tproxy[t] \subseteq pool
          /\ tasks[t] \cap tproxy[t] = {}
          /\ tpc[t] = "zrem" => \A p \in tproxy[t] : score[p] <= ScoreMin

\* What a getter that is running has crawled is what the pool may hold more
\* than is_full() allowed it to start with.
CrawlInv ==
    /\ IsFiniteSet(pool)
    /\ OvershootBounded
    /\ \A g \in Getters :
          /\ gpc[g] = "crawl" => Cardinality(pool) < NumberMax + crawled[g]
          /\ gpc[g] = "zadd" => Cardinality(pool) + 1 < NumberMax + crawled[g]

\* Only max() gives the maximal score, to a converted address.
MaxMeansPassed ==
    \A p \in pool : score[p] = ScoreMax => p \in passed /\ Canon[p] = p

-----------------------------------------------------------------------------
(* Liveness. *)

\* README: the tester sifts out proxies that do not work.  One that fails every
\* test leaves the pool, however often the getter crawls it again and whatever
\* the tests of the others raise.
DeadLeave == \A p \in Dead : []<>(p \notin pool)
=============================================================================
