--------------------------- MODULE ProxyPool_proofs ---------------------------
(***************************************************************************)
(* Proofs about the proxy pool.  For any number of replicas: a score of    *)
(* 100 means that the latest test was passed, so /random serves an untried *)
(* proxy by rank only, and a member whose score ran out is being removed.  *)
(* For a single instance: the check-then-act sequences of RedisClient act  *)
(* as if they were atomic, and the pool exceeds its limit by less than one *)
(* crawl brings.                                                           *)
(***************************************************************************)
EXTENDS ProxyPool, FiniteSetTheorems, TLAPS

\* Abbreviations that every proof expands.
USE DEF Exists, Full, Convert, SetMax

\* Every step of every process keeps the type invariant.
LEMMA TypeStep == TypeOK /\ [Next]_vars => TypeOK'
<1> SUFFICES ASSUME TypeOK, [Next]_vars PROVE TypeOK'
    OBVIOUS
<1> USE CanonAssumption, ScoreAssumption, BoundAssumption
        DEF TypeOK, redis, gvars, tvars, svars
<1>1. ASSUME NEW g \in Getters, StartCrawl(g) PROVE TypeOK'
    BY <1>1 DEF StartCrawl
<1>2. ASSUME NEW g \in Getters, NEW p \in Proxies, AddExists(g, p) PROVE TypeOK'
    BY <1>2 DEF AddExists
<1>3. ASSUME NEW g \in Getters, AddZadd(g) PROVE TypeOK'
    BY <1>3 DEF AddZadd, Zadd
<1>4. ASSUME NEW g \in Getters, EndCrawl(g) PROVE TypeOK'
    BY <1>4 DEF EndCrawl
<1>5. ASSUME NEW t \in Testers, StartRound(t) PROVE TypeOK'
    BY <1>5 DEF StartRound
<1>6. ASSUME NEW t \in Testers, Batch(t) PROVE TypeOK'
    BY <1>6 DEF Batch
<1>7. ASSUME NEW t \in Testers, NEW p \in Proxies, TestValid(t, p) PROVE TypeOK'
    BY <1>7 DEF TestValid, Zadd, AfterTest
<1>8. ASSUME NEW t \in Testers, NEW p \in Proxies, TestInvalid(t, p)
      PROVE  TypeOK'
    BY <1>8 DEF TestInvalid, ZincrbyDown, Zadd
<1>9. ASSUME NEW t \in Testers, NEW p \in Proxies, TestError(t, p) PROVE TypeOK'
    BY <1>9 DEF TestError, AfterTest
<1>10. ASSUME NEW t \in Testers, DecreaseZscore(t) PROVE TypeOK'
    BY <1>10 DEF DecreaseZscore, AfterTest
<1>11. ASSUME NEW t \in Testers, DecreaseZrem(t) PROVE TypeOK'
    BY <1>11 DEF DecreaseZrem, Zrem, AfterTest
<1>12. ASSUME NEW t \in Testers, KillTester(t) PROVE TypeOK'
    BY <1>12 DEF KillTester
<1>13. ASSUME NEW s \in Servers, RandomBest(s) PROVE TypeOK'
    BY <1>13 DEF RandomBest, Best
<1>14. ASSUME NEW s \in Servers, RandomRank(s) PROVE TypeOK'
  <2>1. TopRanked \subseteq Proxies
    BY DEF TopRanked
  <2> QED BY <1>14, <2>1 DEF RandomRank
<1>15. CASE UNCHANGED vars
    BY <1>15 DEF vars
<1>16. QED
    BY <1>1, <1>2, <1>3, <1>4, <1>5, <1>6, <1>7, <1>8, <1>9, <1>10, <1>11,
       <1>12, <1>13, <1>14, <1>15
    DEF Next, Getter, Tester, Server

\* The pool starts in a state of the right types.
LEMMA TypeInit == Init => TypeOK
BY BoundAssumption DEF Init, TypeOK

\* The variables of the proxy pool always have their types.
THEOREM TypeCorrect == Spec => []TypeOK
BY TypeInit, TypeStep, PTL DEF Spec

-----------------------------------------------------------------------------
\* A tester has at most one decrease() under way.
LEMMA TesterStep == TypeOK /\ TesterInv /\ [Next]_vars => TesterInv'
<1> SUFFICES ASSUME TypeOK, TesterInv, [Next]_vars PROVE TesterInv'
    OBVIOUS
<1> USE DEF TypeOK, TesterInv, tvars
<1>1. ASSUME NEW g \in Getters, Getter(g) PROVE TesterInv'
    BY <1>1 DEF Getter, StartCrawl, AddExists, AddZadd, EndCrawl
<1>2. ASSUME NEW t \in Testers, StartRound(t) \/ Batch(t) PROVE TesterInv'
    BY <1>2 DEF StartRound, Batch
<1>3. ASSUME NEW t \in Testers, NEW p \in Proxies,
             TestValid(t, p) \/ TestInvalid(t, p) \/ TestError(t, p)
      PROVE  TesterInv'
    BY <1>3 DEF TestValid, TestInvalid, TestError, AfterTest
<1>4. ASSUME NEW t \in Testers, DecreaseZscore(t) PROVE TesterInv'
    BY <1>4 DEF DecreaseZscore, AfterTest
<1>5. ASSUME NEW t \in Testers, DecreaseZrem(t) PROVE TesterInv'
    BY <1>5 DEF DecreaseZrem, AfterTest
<1>6. ASSUME NEW t \in Testers, KillTester(t) PROVE TesterInv'
    BY <1>6 DEF KillTester
<1>7. ASSUME NEW s \in Servers, Server(s) PROVE TesterInv'
    BY <1>7 DEF Server, RandomBest, RandomRank
<1>8. CASE UNCHANGED vars
    BY <1>8 DEF vars
<1>9. QED
    BY <1>1, <1>2, <1>3, <1>4, <1>5, <1>6, <1>7, <1>8 DEF Next, Tester

\* As long as no tester is killed, whoever lets a score run out is about to
\* remove the proxy.
LEMMA ExhaustedStep ==
    ASSUME MaxKills = 0
    PROVE  TypeOK /\ TesterInv /\ ExhaustedIsBeingRemoved /\ [Next]_vars
               => ExhaustedIsBeingRemoved'
<1> SUFFICES ASSUME TypeOK, TesterInv, ExhaustedIsBeingRemoved, [Next]_vars
             PROVE  ExhaustedIsBeingRemoved'
    OBVIOUS
<1> USE CanonAssumption, ScoreAssumption
        DEF TypeOK, TesterInv, ExhaustedIsBeingRemoved, redis, tvars
<1>1. ASSUME NEW g \in Getters, Getter(g) PROVE ExhaustedIsBeingRemoved'
    BY <1>1 DEF Getter, StartCrawl, AddExists, AddZadd, EndCrawl, Zadd
<1>2. ASSUME NEW t \in Testers, StartRound(t) \/ Batch(t)
      PROVE  ExhaustedIsBeingRemoved'
  <2>1. UNCHANGED <<pool, score, tproxy>>
    BY <1>2 DEF StartRound, Batch
  <2>2. tproxy[t] = {} /\ \A u \in Testers : u # t => tpc'[u] = tpc[u]
    BY <1>2 DEF StartRound, Batch
  <2> QED BY <2>1, <2>2
<1>3. ASSUME NEW t \in Testers, NEW p \in Proxies, TestValid(t, p)
      PROVE  ExhaustedIsBeingRemoved'
  <2>1. tproxy' = tproxy /\ tproxy[t] = {}
    BY <1>3 DEF TestValid
  <2>2. \A u \in Testers : u # t => tpc'[u] = tpc[u]
    BY <1>3 DEF TestValid
  <2>3. \A q \in pool' : q # Canon[p] => q \in pool /\ score'[q] = score[q]
    BY <1>3 DEF TestValid, Zadd
  <2>4. score'[Canon[p]] = ScoreMax
    BY <1>3 DEF TestValid, Zadd
  <2> QED BY <2>1, <2>2, <2>3, <2>4
<1>4. ASSUME NEW t \in Testers, NEW p \in Proxies, TestInvalid(t, p)
      PROVE  ExhaustedIsBeingRemoved'
  <2>1. tproxy[t] = {} /\ tproxy'[t] = {Canon[p]} /\ tpc'[t] = "zscore"
    BY <1>4 DEF TestInvalid
  <2>2. \A u \in Testers : u # t => tpc'[u] = tpc[u] /\ tproxy'[u] = tproxy[u]
    BY <1>4 DEF TestInvalid
  <2>3. \A q \in pool' : q # Canon[p] => q \in pool /\ score'[q] = score[q]
    BY <1>4 DEF TestInvalid, ZincrbyDown, Zadd
  <2> QED BY <2>1, <2>2, <2>3
<1>5. ASSUME NEW t \in Testers, NEW p \in Proxies, TestError(t, p)
      PROVE  ExhaustedIsBeingRemoved'
  <2>1. UNCHANGED <<pool, score, tproxy>> /\ tproxy[t] = {}
    BY <1>5 DEF TestError
  <2>2. \A u \in Testers : u # t => tpc'[u] = tpc[u]
    BY <1>5 DEF TestError
  <2> QED BY <2>1, <2>2
<1>6. ASSUME NEW t \in Testers, DecreaseZscore(t)
      PROVE  ExhaustedIsBeingRemoved'
    BY <1>6 DEF DecreaseZscore
<1>7. ASSUME NEW t \in Testers, DecreaseZrem(t) PROVE ExhaustedIsBeingRemoved'
    BY <1>7 DEF DecreaseZrem, Zrem
<1>8. ASSUME NEW t \in Testers, KillTester(t) PROVE ExhaustedIsBeingRemoved'
    BY <1>8 DEF KillTester
<1>9. ASSUME NEW s \in Servers, Server(s) PROVE ExhaustedIsBeingRemoved'
    BY <1>9 DEF Server, RandomBest, RandomRank
<1>10. CASE UNCHANGED vars
    BY <1>10 DEF vars
<1>11. QED
    BY <1>1, <1>2, <1>3, <1>4, <1>5, <1>6, <1>7, <1>8, <1>9, <1>10
    DEF Next, Tester

\* With any number of replicas whose testers are not killed half-way, a member
\* whose score has run out is one that some tester is about to remove.
THEOREM ExhaustedAreRemoved ==
    ASSUME MaxKills = 0
    PROVE  Spec => []ExhaustedIsBeingRemoved
<1>1. Init => TypeOK /\ TesterInv /\ ExhaustedIsBeingRemoved
    BY TypeInit DEF Init, TesterInv, ExhaustedIsBeingRemoved
<1>2. TypeOK /\ TesterInv /\ ExhaustedIsBeingRemoved /\ [Next]_vars
          => (TypeOK /\ TesterInv /\ ExhaustedIsBeingRemoved)'
    BY TypeStep, TesterStep, ExhaustedStep
<1> QED BY <1>1, <1>2, PTL DEF Spec

-----------------------------------------------------------------------------
\* Only max() gives the maximal score, and a failed test takes it away.
LEMMA MaxStep == TypeOK /\ MaxMeansPassed /\ [Next]_vars => MaxMeansPassed'
<1> SUFFICES ASSUME TypeOK, MaxMeansPassed, [Next]_vars PROVE MaxMeansPassed'
    OBVIOUS
<1> USE CanonAssumption, ScoreAssumption DEF TypeOK, MaxMeansPassed, redis
<1>1. ASSUME NEW g \in Getters, Getter(g) PROVE MaxMeansPassed'
    BY <1>1 DEF Getter, StartCrawl, AddExists, AddZadd, EndCrawl, Zadd
<1>2. ASSUME NEW t \in Testers, NEW p \in Proxies, TestValid(t, p)
      PROVE  MaxMeansPassed'
    BY <1>2 DEF TestValid, Zadd
<1>3. ASSUME NEW t \in Testers, NEW p \in Proxies, TestInvalid(t, p)
      PROVE  MaxMeansPassed'
  <2> DEFINE c == Canon[p]
  <2>1. c \in Proxies /\ Canon[c] = c
    OBVIOUS
  <2>2. score'[c] < ScoreMax
    BY <1>3, <2>1 DEF TestInvalid, ZincrbyDown, Zadd
  <2>3. ASSUME NEW q \in pool', q # c
        PROVE  q \in pool /\ score'[q] = score[q]
    BY <1>3, <2>1, <2>3 DEF TestInvalid, ZincrbyDown, Zadd
  <2>4. passed' = passed \ {c}
    BY <1>3 DEF TestInvalid
  <2> HIDE DEF c
  <2>5. ASSUME NEW q \in pool'
        PROVE  /\ score'[q] <= ScoreMax
               /\ score'[q] = ScoreMax => q \in passed' /\ Canon[q] = q
    <3>1. CASE q = c
      <4>1. score'[c] \in Int
        BY <1>3, <2>1, TypeStep
      <4> QED BY <2>2, <3>1, <4>1
    <3>2. CASE q # c
      BY <2>3, <2>4, <3>2
    <3> QED BY <3>1, <3>2
  <2> QED BY <2>5
<1>4. ASSUME NEW t \in Testers, NEW p \in Proxies, TestError(t, p)
      PROVE  MaxMeansPassed'
    BY <1>4 DEF TestError
<1>5. ASSUME NEW t \in Testers, StartRound(t) \/ Batch(t) \/ DecreaseZscore(t)
      PROVE  MaxMeansPassed'
    BY <1>5 DEF StartRound, Batch, DecreaseZscore
<1>6. ASSUME NEW t \in Testers, DecreaseZrem(t) PROVE MaxMeansPassed'
    BY <1>6 DEF DecreaseZrem, Zrem
<1>7. ASSUME NEW t \in Testers, KillTester(t) PROVE MaxMeansPassed'
    BY <1>7 DEF KillTester
<1>8. ASSUME NEW s \in Servers, Server(s) PROVE MaxMeansPassed'
    BY <1>8 DEF Server, RandomBest, RandomRank
<1>9. CASE UNCHANGED vars
    BY <1>9 DEF vars
<1>10. QED
    BY <1>1, <1>2, <1>3, <1>4, <1>5, <1>6, <1>7, <1>8, <1>9 DEF Next, Tester

\* With any number of replicas /random answers with an untried or failed proxy
\* only on the second command, after it found none with the maximal score.
THEOREM UntestedServedByRankOnly == Spec => UntestedOnlyByRank
<1> DEFINE A == \A s \in Servers :
                    served'[s] # served[s] /\ ~(served'[s] \subseteq passed)
                        => spc[s] = "rank"
<1>1. Init => TypeOK /\ MaxMeansPassed
    BY TypeInit DEF Init, MaxMeansPassed
<1>2. TypeOK /\ MaxMeansPassed /\ [Next]_vars => (TypeOK /\ MaxMeansPassed)'
    BY TypeStep, MaxStep
<1>3. TypeOK /\ MaxMeansPassed /\ [Next]_vars => [A]_vars
  <2> SUFFICES ASSUME TypeOK, MaxMeansPassed, Next,
                      NEW s \in Servers, served'[s] # served[s],
                      ~(served'[s] \subseteq passed)
               PROVE  spc[s] = "rank"
      OBVIOUS
  <2>1. ASSUME NEW g \in Getters, Getter(g) PROVE FALSE
    BY <2>1 DEF Getter, StartCrawl, AddExists, AddZadd, EndCrawl, svars
  <2>2. ASSUME NEW t \in Testers, Tester(t) \/ KillTester(t) PROVE FALSE
    BY <2>2 DEF Tester, KillTester, StartRound, Batch, DecreaseZscore,
                DecreaseZrem, TestValid, TestInvalid, TestError, svars
  <2>3. ASSUME NEW u \in Servers, RandomBest(u) PROVE FALSE
    <3>1. u = s /\ \E p \in Best : served'[s] = {Canon[p]}
      BY <2>3 DEF RandomBest, TypeOK
    <3>2. \A p \in Best : Canon[p] \in passed
      BY DEF Best, MaxMeansPassed
    <3> QED BY <3>1, <3>2
  <2>4. ASSUME NEW u \in Servers, RandomRank(u) PROVE spc[s] = "rank"
    <3>1. u = s
      BY <2>4 DEF RandomRank, TypeOK
    <3> QED BY <2>4, <3>1 DEF RandomRank
  <2> QED BY <2>1, <2>2, <2>3, <2>4 DEF Next, Server
<1> QED BY <1>1, <1>2, <1>3, PTL DEF Spec, UntestedOnlyByRank

-----------------------------------------------------------------------------
\* With a single instance nobody invalidates what a process has read.
LEMMA ReadsStep ==
    ASSUME SingleInstance
    PROVE  TypeOK /\ TesterInv /\ ReadsStayTrue /\ [Next]_vars => ReadsStayTrue'
<1> SUFFICES ASSUME TypeOK, TesterInv, ReadsStayTrue, [Next]_vars
             PROVE  ReadsStayTrue'
    OBVIOUS
<1> USE DEF TypeOK, TesterInv, ReadsStayTrue, SingleInstance, redis, gvars, tvars
<1>1. ASSUME NEW g \in Getters, StartCrawl(g) \/ EndCrawl(g)
      PROVE  ReadsStayTrue'
    BY <1>1 DEF StartCrawl, EndCrawl
<1>2. ASSUME NEW g \in Getters, NEW p \in Proxies, AddExists(g, p)
      PROVE  ReadsStayTrue'
    BY <1>2 DEF AddExists
<1>3. ASSUME NEW g \in Getters, AddZadd(g) PROVE ReadsStayTrue'
    BY <1>3 DEF AddZadd, Zadd
<1>4. ASSUME NEW t \in Testers, StartRound(t) \/ Batch(t) PROVE ReadsStayTrue'
    BY <1>4 DEF StartRound, Batch
<1>5. ASSUME NEW t \in Testers, NEW p \in Proxies, TestValid(t, p)
      PROVE  ReadsStayTrue'
    BY <1>5 DEF TestValid, Zadd, AfterTest
<1>6. ASSUME NEW t \in Testers, NEW p \in Proxies, TestInvalid(t, p)
      PROVE  ReadsStayTrue'
    BY <1>6 DEF TestInvalid, ZincrbyDown, Zadd
<1>7. ASSUME NEW t \in Testers, NEW p \in Proxies, TestError(t, p)
      PROVE  ReadsStayTrue'
    BY <1>7 DEF TestError, AfterTest
<1>8. ASSUME NEW t \in Testers, DecreaseZscore(t) PROVE ReadsStayTrue'
    BY <1>8 DEF DecreaseZscore, AfterTest
<1>9. ASSUME NEW t \in Testers, DecreaseZrem(t) PROVE ReadsStayTrue'
    BY <1>9 DEF DecreaseZrem, Zrem, AfterTest
<1>10. ASSUME NEW t \in Testers, KillTester(t) PROVE ReadsStayTrue'
    BY <1>10 DEF KillTester
<1>11. ASSUME NEW s \in Servers, Server(s) PROVE ReadsStayTrue'
    BY <1>11 DEF Server, RandomBest, RandomRank
<1>12. CASE UNCHANGED vars
    BY <1>12 DEF vars
<1>13. QED
    BY <1>1, <1>2, <1>3, <1>4, <1>5, <1>6, <1>7, <1>8, <1>9, <1>10, <1>11,
       <1>12
    DEF Next, Getter, Tester

\* What a step of a single instance may do to the pool and its scores.
LEMMA PoolStep ==
    ASSUME SingleInstance, TypeOK, TesterInv, ReadsStayTrue, Next,
           NEW p \in Proxies
    PROVE  /\ p \in pool /\ p \notin pool' => score[p] <= ScoreMin
           /\ p \notin pool /\ p \in pool' => score'[p] = ScoreInit
           /\ p \in pool /\ score[p] = ScoreMax /\ p \in pool'
                  => score'[p] \in {ScoreMax, ScoreMax - 1}
<1> USE DEF TypeOK, ReadsStayTrue, SingleInstance, redis
<1> DEFINE Goal == /\ p \in pool /\ p \notin pool' => score[p] <= ScoreMin
                   /\ p \notin pool /\ p \in pool' => score'[p] = ScoreInit
                   /\ p \in pool /\ score[p] = ScoreMax /\ p \in pool'
                          => score'[p] \in {ScoreMax, ScoreMax - 1}
<1>1. ASSUME NEW g \in Getters, AddZadd(g) PROVE Goal
    BY <1>1 DEF AddZadd, Zadd
<1>2. ASSUME NEW t \in Testers, NEW q \in Proxies, TestValid(t, q) PROVE Goal
    BY <1>2 DEF TestValid, Zadd
<1>3. ASSUME NEW t \in Testers, NEW q \in Proxies, TestInvalid(t, q) PROVE Goal
    BY <1>3 DEF TestInvalid, ZincrbyDown, Zadd
<1>4. ASSUME NEW t \in Testers, DecreaseZrem(t) PROVE Goal
    BY <1>4 DEF DecreaseZrem, Zrem
<1>5. ASSUME pool' = pool, score' = score PROVE Goal
    BY <1>5, Zenon
<1> HIDE DEF Goal, TypeOK, ReadsStayTrue, SingleInstance
<1>6. ASSUME NEW g \in Getters, Getter(g) PROVE Goal
  <2>1. CASE AddZadd(g)
    BY <1>1, <2>1
  <2>2. CASE ~AddZadd(g)
    BY <1>5, <1>6, <2>2 DEF Getter, StartCrawl, AddExists, EndCrawl
  <2> QED BY <2>1, <2>2
<1>7. ASSUME NEW t \in Testers, Tester(t) \/ KillTester(t) PROVE Goal
    BY <1>2, <1>3, <1>4, <1>5, <1>7
       DEF Tester, KillTester, StartRound, Batch, DecreaseZscore, TestError
<1>8. ASSUME NEW s \in Servers, Server(s) PROVE Goal
    BY <1>5, <1>8 DEF Server, RandomBest, RandomRank
<1>9. Goal
    BY <1>6, <1>7, <1>8 DEF Next
<1> QED BY <1>9 DEF Goal

\* In a single instance a proxy leaves the pool only with an exhausted score,
\* comes in only fresh, and loses the maximal score only to a failed test,
\* although add() and decrease() are not atomic and testers may be killed.
LEMMA AtomicOperations ==
    ASSUME SingleInstance
    PROVE  Spec => RemoveOnlyExhausted /\ ReturnOnlyFresh /\ ValidScoreSticks
<1> DEFINE IInv == TypeOK /\ TesterInv /\ ReadsStayTrue
           R == \A p \in Proxies :
                    p \in pool /\ p \notin pool' => score[p] <= ScoreMin
           F == \A p \in Proxies :
                    p \notin pool /\ p \in pool' => score'[p] = ScoreInit
           V == \A p \in Proxies :
                    p \in pool /\ score[p] = ScoreMax /\ p \in pool'
                        => score'[p] \in {ScoreMax, ScoreMax - 1}
<1>1. Init => IInv
    BY TypeInit DEF Init, TesterInv, ReadsStayTrue
<1>2. IInv /\ [Next]_vars => IInv'
    BY TypeStep, TesterStep, ReadsStep
<1>3. IInv /\ [Next]_vars => [R]_vars /\ [F]_vars /\ [V]_vars
    BY PoolStep
<1> HIDE DEF IInv, R, F, V
<1>4. Spec => [][R]_vars /\ [][F]_vars /\ [][V]_vars
    BY <1>1, <1>2, <1>3, PTL DEF Spec
<1> QED
    BY <1>4
    DEF R, F, V, RemoveOnlyExhausted, ReturnOnlyFresh, ValidScoreSticks

\* In a single instance a proxy leaves the pool only with an exhausted score:
\* no add() or max() comes between the ZSCORE and the ZREM of decrease().
THEOREM RemovesExhausted ==
    ASSUME SingleInstance
    PROVE  Spec => RemoveOnlyExhausted
BY AtomicOperations

\* In a single instance a proxy comes into the pool only with the initial
\* score: neither max() nor decrease() brings back what was removed.
THEOREM ReturnsFresh ==
    ASSUME SingleInstance
    PROVE  Spec => ReturnOnlyFresh
BY AtomicOperations

\* In a single instance a maximal score is lost only to a failed test: add()
\* does not overwrite what max() has written after its check.
THEOREM ValidSticks ==
    ASSUME SingleInstance
    PROVE  Spec => ValidScoreSticks
BY AtomicOperations

-----------------------------------------------------------------------------
\* In a single instance only AddZadd makes the pool larger, by one member:
\* what is being tested, and hence what is written back, is in the pool.
LEMMA PoolSize ==
    ASSUME SingleInstance, TypeOK, TesterInv, ReadsStayTrue, IsFiniteSet(pool),
           [Next]_vars
    PROVE  /\ IsFiniteSet(pool')
           /\ Cardinality(pool) \in Nat /\ Cardinality(pool') \in Nat
           /\ \/ Cardinality(pool') <= Cardinality(pool)
              \/ /\ \E g \in Getters : AddZadd(g)
                 /\ Cardinality(pool') = Cardinality(pool) + 1
<1>1. pool' \subseteq pool \/
          \E g \in Getters : AddZadd(g) /\ \E p \in gproxy[g] : pool' = pool \cup {p}
  <2>1. ASSUME NEW g \in Getters, AddZadd(g)
        PROVE  \E p \in gproxy[g] : pool' = pool \cup {p}
    BY <2>1 DEF AddZadd, Zadd
  <2>2. ASSUME NEW g \in Getters, Getter(g), ~AddZadd(g) PROVE pool' = pool
    BY <2>2 DEF Getter, StartCrawl, AddExists, EndCrawl, redis
  <2>3. ASSUME NEW t \in Testers, NEW p \in Proxies,
               TestValid(t, p) \/ TestInvalid(t, p)
        PROVE  pool' \subseteq pool
    <3>1. p \in pool /\ Canon[p] = p
      BY <2>3 DEF TestValid, TestInvalid, ReadsStayTrue, SingleInstance
    <3> QED BY <2>3, <3>1 DEF TestValid, TestInvalid, ZincrbyDown, Zadd
  <2>4. ASSUME NEW t \in Testers, DecreaseZrem(t) PROVE pool' \subseteq pool
    BY <2>4 DEF DecreaseZrem, Zrem
  <2>5. ASSUME NEW t \in Testers, Tester(t) \/ KillTester(t)
        PROVE  pool' \subseteq pool
    BY <2>3, <2>4, <2>5
       DEF Tester, KillTester, StartRound, Batch, DecreaseZscore, TestError,
           redis
  <2>6. ASSUME NEW s \in Servers, Server(s) PROVE pool' = pool
    BY <2>6 DEF Server, RandomBest, RandomRank, redis
  <2> QED BY <2>1, <2>2, <2>5, <2>6 DEF Next, vars, redis
<1>2. Cardinality(pool) \in Nat
    BY FS_CardinalityType
<1>3. CASE pool' \subseteq pool
  <2>1. IsFiniteSet(pool') /\ Cardinality(pool') <= Cardinality(pool)
    BY <1>3, FS_Subset
  <2> QED BY <1>2, <2>1, FS_CardinalityType
<1>4. ASSUME NEW g \in Getters, AddZadd(g), NEW p \in gproxy[g],
             pool' = pool \cup {p}
      PROVE  /\ IsFiniteSet(pool') /\ Cardinality(pool') \in Nat
             /\ Cardinality(pool') = Cardinality(pool) + 1
  <2>1. p \notin pool
    BY <1>4 DEF ReadsStayTrue
  <2> QED BY <1>2, <1>4, <2>1, FS_AddElement
<1> QED BY <1>1, <1>2, <1>3, <1>4

\* A run of the getter pays for every member it adds with an address crawled.
LEMMA CrawlStep ==
    ASSUME SingleInstance, TypeOK, TypeOK', TesterInv, ReadsStayTrue, CrawlInv,
           [Next]_vars
    PROVE  CrawlInv'
<1> DEFINE n == Cardinality(pool)
           m == Cardinality(pool')
<1>1. /\ IsFiniteSet(pool') /\ n \in Nat /\ m \in Nat
      /\ \/ m <= n
         \/ /\ \E g \in Getters : AddZadd(g)
            /\ m = n + 1
  <2>1. IsFiniteSet(pool)
    BY DEF CrawlInv
  <2> QED BY <2>1, PoolSize
<1>2. \A g \in Getters : crawled[g] \in Nat /\ crawled[g] <= CrawlMax
    BY BoundAssumption DEF TypeOK
<1>3. /\ n <= NumberMax + CrawlMax - 1
      /\ \A g \in Getters : gpc[g] = "crawl" => n < NumberMax + crawled[g]
      /\ \A g \in Getters : gpc[g] = "zadd" => n + 1 < NumberMax + crawled[g]
    BY DEF CrawlInv, OvershootBounded
<1> HIDE DEF m
<1>4. /\ m <= NumberMax + CrawlMax - 1
      /\ \A g \in Getters : gpc'[g] = "crawl" => m < NumberMax + crawled'[g]
      /\ \A g \in Getters : gpc'[g] = "zadd" => m + 1 < NumberMax + crawled'[g]
  <2> USE BoundAssumption
  <2>1. ASSUME NEW g \in Getters, StartCrawl(g)
        PROVE  /\ n < NumberMax /\ m <= n
               /\ gpc'[g] = "crawl" /\ crawled'[g] = 0
    <3>1. pool' = pool
      BY <2>1 DEF StartCrawl, redis
    <3> QED BY <1>1, <2>1, <3>1 DEF StartCrawl, TypeOK, m
  <2>2. ASSUME NEW g \in Getters, NEW p \in Proxies, AddExists(g, p)
        PROVE  /\ m <= n /\ gpc[g] = "crawl" /\ crawled'[g] = crawled[g] + 1
               /\ gpc'[g] \in {"crawl", "zadd"}
    <3>1. ~\E h \in Getters : AddZadd(h)
      BY <2>2 DEF AddExists, AddZadd, SingleInstance
    <3> QED BY <1>1, <2>2, <3>1 DEF AddExists, TypeOK
  <2>3. ASSUME NEW g \in Getters, AddZadd(g)
        PROVE  /\ m <= n + 1 /\ gpc[g] = "zadd" /\ gpc'[g] = "crawl"
               /\ crawled'[g] = crawled[g]
    BY <1>1, <2>3 DEF AddZadd, TypeOK
  <2>4. ASSUME NEW g \in Getters, EndCrawl(g)
        PROVE  m <= n /\ gpc'[g] = "sleep"
    <3>1. pool' = pool
      BY <2>4 DEF EndCrawl, redis
    <3> QED BY <1>1, <2>4, <3>1 DEF EndCrawl, TypeOK, m
  <2>5. ASSUME ~\E g \in Getters : Getter(g)
        PROVE  m <= n /\ gpc' = gpc /\ crawled' = crawled
    <3>1. gpc' = gpc /\ crawled' = crawled
      BY <2>5 DEF Next, Tester, KillTester, StartRound, Batch, DecreaseZscore,
                  DecreaseZrem, TestValid, TestInvalid, TestError, Server,
                  RandomBest, RandomRank, vars, gvars
    <3> QED BY <1>1, <2>5, <3>1 DEF Getter
  <2> HIDE DEF n
  <2>6. \A g, h \in Getters : g = h
    BY DEF SingleInstance
  <2>7. CASE \E g \in Getters : StartCrawl(g)
    BY <1>1, <1>2, <1>3, <2>1, <2>6, <2>7
  <2>8. CASE \E g \in Getters : \E p \in Proxies : AddExists(g, p)
    BY <1>1, <1>2, <1>3, <2>2, <2>6, <2>8
  <2>9. CASE \E g \in Getters : AddZadd(g)
    BY <1>1, <1>2, <1>3, <2>3, <2>6, <2>9
  <2>10. CASE \E g \in Getters : EndCrawl(g)
    BY <1>1, <1>2, <1>3, <2>4, <2>6, <2>10
  <2>11. CASE ~\E g \in Getters : Getter(g)
    BY <1>1, <1>2, <1>3, <2>5, <2>11
  <2> QED BY <2>7, <2>8, <2>9, <2>10, <2>11 DEF Getter
<1> QED BY <1>1, <1>4 DEF CrawlInv, OvershootBounded, m

\* In a single instance the pool exceeds PROXY_NUMBER_MAX by less than what one
\* run of the getter crawls, although is_full() is asked once per run and the
\* tester writes to the pool all the time.
THEOREM PoolOvershootBounded ==
    ASSUME SingleInstance, NumberMax # 0
    PROVE  Spec => []OvershootBounded
<1> DEFINE Inv == TypeOK /\ TesterInv /\ ReadsStayTrue /\ CrawlInv
<1>1. Init => Inv
  <2> SUFFICES ASSUME Init PROVE TesterInv /\ ReadsStayTrue /\ CrawlInv
    BY TypeInit
  <2>1. TesterInv /\ ReadsStayTrue
    BY DEF Init, TesterInv, ReadsStayTrue
  <2>2. IsFiniteSet(pool) /\ Cardinality(pool) = 0
    BY FS_EmptySet DEF Init
  <2>3. OvershootBounded
    BY <2>2, BoundAssumption DEF OvershootBounded
  <2> QED BY <2>1, <2>2, <2>3 DEF Init, CrawlInv
<1>2. Inv /\ [Next]_vars => Inv'
    BY TypeStep, TesterStep, ReadsStep, CrawlStep
<1>3. Inv => OvershootBounded
    BY DEF CrawlInv
<1> HIDE DEF Inv
<1> QED BY <1>1, <1>2, <1>3, PTL DEF Spec
=============================================================================
