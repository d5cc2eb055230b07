----------------------------- MODULE OneToMany -----------------------------
(***************************************************************************)
(* The Kafka consumer of Foundation/MQ/kafka/.../multiThread/OneToMany:    *)
(* one thread polls a KafkaConsumer and commits offsets, a pool of worker  *)
(* threads processes the polled batches and reports, per partition, the    *)
(* offset after the last record in the shared map `offsets'.               *)
(*                                                                         *)
(* The group coordinator and the other members of the group are outside    *)
(* the repository; they are modelled from how the program uses them.  A    *)
(* record is a pair <<partition, offset>>, its payload is irrelevant.      *)
(***************************************************************************)
EXTENDS Naturals, Sequences, FiniteSets

CONSTANTS
    Partitions,      \* partitions of the subscribed topic
    LogEnd,          \* offsets 0 .. LogEnd-1 of every partition hold a record
    Threads,         \* threads of the ThreadPoolExecutor (threadNumber)
    QueueCap,        \* capacity of its ArrayBlockingQueue (1000 in the code)
    MaxRebalances,   \* bound: rebalances the coordinator starts
    MaxCrashes       \* bound: crashes of the process

ASSUME LogEndAssumption == LogEnd \in Nat
ASSUME QueueCapAssumption == QueueCap \in Nat
ASSUME BoundsAssumption == MaxRebalances \in Nat /\ MaxCrashes \in Nat

(***************************************************************************)
(* CallerRunsPolicy makes the polling thread run a batch itself, so it is  *)
(* one of the runners of ConsumerWorker.run().                             *)
(***************************************************************************)
Poller == "poller"
ASSUME PollerAssumption == Poller \notin Threads

Runners == Threads \cup {Poller}

Offset == 0 .. LogEnd
OffsetMap == [Partitions -> Offset]

\* `offsets' without entries.  A reported offset is lastOffset + 1 >= 1, so 0
\* stands for a partition that is not a key of the map.
NoKey == 0
EmptyMap == [p \in Partitions |-> NoKey]

\* ConsumerRecords: partition p holds the records lo[p] .. hi[p]-1.
Batch == [lo : OffsetMap, hi : OffsetMap]
NoBatch == [lo |-> EmptyMap, hi |-> EmptyMap]
PartitionsOf(b) == {p \in Partitions : b.lo[p] < b.hi[p]}
Holds(b, p, o) == b.lo[p] <= o /\ o < b.hi[p]
RecordsOf(b, p) == {p} \X {o \in Offset : Holds(b, p, o)}

Records == Partitions \X Offset

VARIABLES
    cpc,         \* where the polling thread is in consume() and commitOffsets()
    mpc,         \* where main is: in Thread.sleep, or in close()
    position,    \* the KafkaConsumer's fetch position of each partition
    assigned,    \* the partitions the KafkaConsumer believes it owns
    wakeup,      \* the KafkaConsumer's pending wakeup
    shutdown,    \* executors.shutdown() was called
    hand,        \* the batch between poll() and executors.submit()
    queue,       \* the executor's work queue
    tstate,      \* runner -> "new" | "idle" | "run"
    batch,       \* runner -> the records of its ConsumerWorker
    todo,        \* runner -> partitions of its batch it has not processed
    cur,         \* runner -> the partition it processed and has yet to report
    offsets,     \* the shared map: reported and not yet committed
    pending,     \* unmodfiedMap: the copy that commitOffsets() is committing
    committed,   \* the coordinator's committed offsets
    member,      \* the coordinator counts this process as a group member
    processed,   \* history: records that some consumer has processed
    lost,        \* history: records in flight in the pool at a crash
    rebalances,  \* history: rebalances so far
    crashes      \* history: crashes so far

consumerVars == <<position, assigned, wakeup>>
pool == <<shutdown, queue, tstate, batch, todo, cur>>
hist == <<processed, lost, rebalances, crashes>>
vars == <<cpc, mpc, consumerVars, hand, pool, offsets, pending, committed,
          member, hist>>

Alive == cpc # "down"
Stopped == cpc \in {"closed", "dead"}

\* The records accepted by the executor and not yet processed: in a batch
\* that waits in the queue, or in a partition a runner has not come to.
InFlight ==
    {rec \in Records :
        \/ \E r \in Runners :
              rec[1] \in todo[r] /\ Holds(batch[r], rec[1], rec[2])
        \/ \E i \in 1 .. Len(queue) : Holds(queue[i], rec[1], rec[2])}

\* The pool before the first submit(): no thread has been created.
FreshThreads == [r \in Runners |-> IF r = Poller THEN "idle" ELSE "new"]

Init ==
    /\ position = EmptyMap /\ assigned = {} /\ wakeup = FALSE
    /\ hand = NoBatch
    /\ shutdown = FALSE /\ queue = << >> /\ tstate = FreshThreads
    /\ batch = [r \in Runners |-> NoBatch]
    /\ todo = [r \in Runners |-> {}] /\ cur = [r \in Runners |-> {}]
    /\ offsets = EmptyMap /\ pending = EmptyMap
    /\ member = FALSE
    /\ cpc = "poll" /\ mpc = "sleep"
    /\ committed = EmptyMap
    /\ processed = {} /\ lost = {}
    /\ rebalances = 0 /\ crashes = 0

-----------------------------------------------------------------------------
(* Commits: what commitSync(m) leaves at the coordinator. *)

Overwrite(base, m) ==
    [p \in Partitions |-> IF m[p] = NoKey THEN base[p] ELSE m[p]]

-----------------------------------------------------------------------------
(* The polling thread: consume(). *)

\* Mutant of PollRecords: the fetch position does not advance.
PollRecordsAgain ==
    /\ cpc = "poll" /\ ~wakeup
    /\ \E hi \in OffsetMap :
          /\ \A p \in Partitions : position[p] <= hi[p]
          /\ \A p \in Partitions \ assigned : hi[p] = position[p]
          /\ hi # position
          /\ hand' = [lo |-> position, hi |-> hi]
    /\ cpc' = "submit"
    /\ UNCHANGED <<mpc, position, assigned, wakeup, pool, offsets, pending,
                   committed, member, hist>>

\* consumer.poll(1000L) returns records of the assigned partitions, from the
\* fetch position on; the next poll continues behind them.
PollRecords ==
    /\ cpc = "poll" /\ ~wakeup
    /\ \E hi \in OffsetMap :
          /\ \A p \in Partitions : position[p] <= hi[p]
          /\ \A p \in Partitions \ assigned : hi[p] = position[p]
          /\ hi # position
          /\ hand' = [lo |-> position, hi |-> hi]
          /\ position' = hi
    /\ cpc' = "submit"
    /\ UNCHANGED <<mpc, assigned, wakeup, pool, offsets, pending, committed,
                   member, hist>>

\* poll(1000L) times out without records: nothing is submitted.
PollNothing ==
    /\ cpc = "poll" /\ ~wakeup
    /\ cpc' = "commit"
    /\ UNCHANGED <<mpc, consumerVars, hand, pool, offsets, pending, committed,
                   member, hist>>

\* Runner r starts ConsumerWorker.run() on b.
StartWorker(r, b) ==
    /\ tstate' = [tstate EXCEPT ![r] = "run"]
    /\ batch' = [batch EXCEPT ![r] = b]
    /\ todo' = [todo EXCEPT ![r] = PartitionsOf(b)]

\* Mutant of Submit: a hand-over queue, which never holds a batch.
SubmitHandsOver ==
    /\ cpc = "submit"
    /\ hand' = NoBatch
    /\ \/ /\ ~shutdown
          /\ \E t \in Threads : tstate[t] # "run" /\ StartWorker(t, hand)
          /\ cpc' = "commit"
       \/ /\ ~shutdown
          /\ \A t \in Threads : tstate[t] = "run"
          /\ StartWorker(Poller, hand)
          /\ cpc' = "run"
       \/ /\ shutdown
          /\ cpc' = "commit" /\ UNCHANGED <<tstate, batch, todo>>
    /\ UNCHANGED <<mpc, consumerVars, queue, shutdown, cur, offsets, pending,
                   committed, member, hist>>

\* executors.submit(): a core thread that does not exist yet is created for
\* the batch; after that batches are queued while there is room; then
\* CallerRunsPolicy runs the batch in the polling thread, and drops it when
\* the executor has been shut down.
Submit ==
    /\ cpc = "submit"
    /\ hand' = NoBatch
    /\ \/ /\ ~shutdown
          /\ \E t \in Threads : tstate[t] = "new" /\ StartWorker(t, hand)
          /\ cpc' = "commit" /\ UNCHANGED queue
       \/ /\ ~shutdown
          /\ \A t \in Threads : tstate[t] # "new"
          /\ Len(queue) < QueueCap
          /\ queue' = Append(queue, hand)
          /\ cpc' = "commit" /\ UNCHANGED <<tstate, batch, todo>>
       \/ /\ ~shutdown
          /\ \A t \in Threads : tstate[t] # "new"
          /\ Len(queue) >= QueueCap
          /\ StartWorker(Poller, hand)
          /\ cpc' = "run" /\ UNCHANGED queue
       \/ /\ shutdown
          /\ cpc' = "commit" /\ UNCHANGED <<queue, tstate, batch, todo>>
    /\ UNCHANGED <<mpc, consumerVars, shutdown, cur, offsets, pending,
                   committed, member, hist>>

\* The synchronized block of commitOffsets(): copy and clear the map.  An
\* empty map ends commitOffsets(): the loop polls again, finally closes.
TakeOffsets ==
    /\ cpc \in {"commit", "finally"}
    /\ \/ /\ offsets = EmptyMap
          /\ cpc' = IF cpc = "commit" THEN "poll" ELSE "close"
          /\ UNCHANGED <<offsets, pending>>
       \/ /\ offsets # EmptyMap
          /\ pending' = offsets
          /\ offsets' = EmptyMap
          /\ cpc' = IF cpc = "commit" THEN "sync" ELSE "finallySync"
    /\ UNCHANGED <<mpc, consumerVars, hand, pool, committed, member, hist>>

\* consumer.commitSync(unmodfiedMap), outside the lock.
CommitSync ==
    /\ cpc \in {"sync", "finallySync"}
    /\ member /\ ~wakeup
    /\ committed' = Overwrite(committed, pending)
    /\ pending' = EmptyMap
    /\ cpc' = IF cpc = "sync" THEN "poll" ELSE "close"
    /\ UNCHANGED <<mpc, consumerVars, hand, pool, offsets, member, hist>>

\* commitSync throws: CommitFailedException when the group has gone on without
\* this member, WakeupException, which takes the wakeup of close(), or
\* TimeoutException when the coordinator does not answer, whether or not the
\* request has reached it.  In the loop each leads to finally; thrown inside
\* finally it skips consumer.close() and ends the thread.  The copied offsets are
\* gone.
CommitSyncThrows ==
    /\ cpc \in {"sync", "finallySync"}
    /\ \/ UNCHANGED committed
       \/ member /\ committed' = Overwrite(committed, pending)
    /\ wakeup' \in {wakeup, FALSE}
    /\ pending' = EmptyMap
    /\ cpc' = IF cpc = "sync" THEN "finally" ELSE "dead"
    /\ UNCHANGED <<mpc, position, assigned, hand, pool, offsets, member, hist>>

\* Mutant of PollWakeup: WakeupException is caught inside the loop.
PollWakeupIgnored ==
    /\ cpc \in {"poll", "revoked"} /\ wakeup
    /\ wakeup' = FALSE
    /\ cpc' = "poll"
    /\ UNCHANGED <<mpc, position, assigned, hand, pool, offsets, pending,
                   committed, member, hist>>

\* poll() throws WakeupException, also while it is rejoining the group.
PollWakeup ==
    /\ cpc \in {"poll", "revoked"} /\ wakeup
    /\ wakeup' = FALSE
    /\ cpc' = "finally"
    /\ UNCHANGED <<mpc, position, assigned, hand, pool, offsets, pending,
                   committed, member, hist>>

\* consumer.close() leaves the group.
CloseConsumer ==
    /\ cpc = "close"
    /\ cpc' = "closed"
    /\ assigned' = {} /\ member' = FALSE
    /\ UNCHANGED <<mpc, position, wakeup, hand, pool, offsets, pending,
                   committed, hist>>

-----------------------------------------------------------------------------
(* The rebalance listener, called by the polling thread inside poll(). *)

SubMaps(m) ==
    {[p \in Partitions |-> IF p \in S THEN m[p] ELSE NoKey] :
        S \in SUBSET Partitions}

\* A worker may be inside its synchronized put, which the listener ignores.
Racing == \E r \in Runners : cur[r] # {}

\* commitSync(offsets) copies the HashMap without the lock: exactly, unless a
\* worker is putting, when the copy may miss entries.
ListenerCopies == IF Racing THEN SubMaps(offsets) ELSE {offsets}

\* The coordinator rebalances the group: onPartitionsRevoked commits
\* `offsets' and does not clear it.
Revoke ==
    /\ cpc = "poll" /\ ~wakeup
    /\ member /\ rebalances < MaxRebalances
    /\ rebalances' = rebalances + 1
    /\ \E m \in ListenerCopies : committed' = Overwrite(committed, m)
    /\ assigned' = {}
    /\ cpc' = "revoked"
    /\ UNCHANGED <<mpc, position, wakeup, hand, pool, offsets, pending, member,
                   processed, lost, crashes>>

\* The copy in the listener hits a ConcurrentModificationException, or the
\* coordinator does not answer in time, whether or not the request has reached it.
\* poll() passes that on and consume() does not catch it: finally.
RevokeThrows ==
    /\ cpc = "poll" /\ ~wakeup
    /\ member /\ rebalances < MaxRebalances
    /\ rebalances' = rebalances + 1
    /\ \/ UNCHANGED committed
       \/ \E m \in ListenerCopies : committed' = Overwrite(committed, m)
    /\ assigned' = {}
    /\ cpc' = "finally"
    /\ UNCHANGED <<mpc, position, wakeup, hand, pool, offsets, pending, member,
                   processed, lost, crashes>>

\* A process outside the group joins it.  One that was expelled while it held
\* partitions runs onPartitionsRevoked first (by way of onPartitionsLost),
\* whose commitSync fails unless there is nothing to commit.
Rejoin ==
    /\ cpc = "poll" /\ ~wakeup /\ ~member
    /\ cpc' = IF assigned # {} /\ offsets # EmptyMap THEN "finally" ELSE "revoked"
    /\ assigned' = {}
    /\ UNCHANGED <<mpc, position, wakeup, hand, pool, offsets, pending,
                   committed, member, hist>>

\* onPartitionsAssigned clears the map, without the lock, whatever workers of
\* the previous assignment have reported; fetching resumes at the committed
\* offsets of the partitions S.
Assign ==
    /\ cpc = "revoked" /\ ~wakeup
    /\ \E S \in SUBSET Partitions :
          /\ assigned' = S
          /\ position' = [p \in Partitions |->
                             IF p \in S THEN committed[p] ELSE position[p]]
    /\ offsets' = EmptyMap
    /\ member' = TRUE
    /\ cpc' = "poll"
    /\ UNCHANGED <<mpc, wakeup, hand, pool, pending, committed, hist>>

-----------------------------------------------------------------------------
(* The worker threads, and the polling thread under CallerRunsPolicy. *)

\* An idle pool thread takes the batch at the head of the queue.
TakeBatch(t) ==
    /\ Alive /\ tstate[t] = "idle" /\ queue # << >>
    /\ StartWorker(t, Head(queue))
    /\ queue' = Tail(queue)
    /\ UNCHANGED <<cpc, mpc, consumerVars, hand, shutdown, cur, offsets,
                   pending, committed, member, hist>>

\* Mutant of Process: the inner loop stops before the last record.
ProcessAllButLast(r) ==
    /\ tstate[r] = "run" /\ cur[r] = {}
    /\ \E p \in todo[r] :
          /\ processed' = processed \cup
                 (RecordsOf(batch[r], p) \ {<<p, batch[r].hi[p] - 1>>})
          /\ todo' = [todo EXCEPT ![r] = @ \ {p}]
          /\ cur' = [cur EXCEPT ![r] = {p}]
    /\ UNCHANGED <<cpc, mpc, consumerVars, hand, shutdown, queue, tstate, batch,
                   offsets, pending, committed, member, lost, rebalances,
                   crashes>>

\* The inner loop of run(): the records of one partition are processed.
Process(r) ==
    /\ tstate[r] = "run" /\ cur[r] = {}
    /\ \E p \in todo[r] :
          /\ processed' = processed \cup RecordsOf(batch[r], p)
          /\ todo' = [todo EXCEPT ![r] = @ \ {p}]
          /\ cur' = [cur EXCEPT ![r] = {p}]
    /\ UNCHANGED <<cpc, mpc, consumerVars, hand, shutdown, queue, tstate, batch,
                   offsets, pending, committed, member, lost, rebalances,
                   crashes>>

\* Mutant of Reported: one past the offset after the last record.
ReportedOffByOne(m, p, next) ==
    IF m[p] <= next THEN [m EXCEPT ![p] = next + 1] ELSE m

\* offsets.put(partition, lastOffset + 1), unless the map holds a larger one.
Reported(m, p, next) == IF m[p] <= next THEN [m EXCEPT ![p] = next] ELSE m

\* The synchronized block of run(); after the last partition run() returns.
Report(r) ==
    /\ tstate[r] = "run"
    /\ \E p \in cur[r] : offsets' = Reported(offsets, p, batch[r].hi[p])
    /\ cur' = [cur EXCEPT ![r] = {}]
    /\ IF todo[r] = {}
       THEN /\ tstate' = [tstate EXCEPT ![r] = "idle"]
            /\ batch' = [batch EXCEPT ![r] = NoBatch]
            /\ cpc' = IF r = Poller THEN "commit" ELSE cpc
       ELSE UNCHANGED <<tstate, batch, cpc>>
    /\ UNCHANGED <<mpc, consumerVars, hand, shutdown, queue, todo, pending,
                   committed, member, hist>>

-----------------------------------------------------------------------------
(* main: close() after 20 seconds. *)

Wakeup ==
    /\ Alive /\ mpc = "sleep"
    /\ mpc' = "wokeUp"
    /\ wakeup' = TRUE
    /\ UNCHANGED <<cpc, position, assigned, hand, pool, offsets, pending,
                   committed, member, hist>>

Shutdown ==
    /\ Alive /\ mpc = "wokeUp"
    /\ mpc' = "done"
    /\ shutdown' = TRUE
    /\ UNCHANGED <<cpc, consumerVars, hand, queue, tstate, batch, todo, cur,
                   offsets, pending, committed, member, hist>>

-----------------------------------------------------------------------------
(* The environment: coordinator, other group members, crashes. *)

\* The coordinator expels a member that has not polled for too long.
Expel ==
    /\ member /\ cpc # "revoked" /\ rebalances < MaxRebalances
    /\ member' = FALSE
    /\ rebalances' = rebalances + 1
    /\ UNCHANGED <<cpc, mpc, consumerVars, hand, pool, offsets, pending,
                   committed, processed, lost, crashes>>

\* Another member owns p, processes records from the committed offset on and
\* commits them.
OtherConsumes(p) ==
    /\ cpc # "revoked"
    /\ ~member \/ p \notin assigned
    /\ \E hi \in Offset :
          /\ committed[p] < hi
          /\ processed' = processed \cup
                 ({p} \X {o \in Offset : committed[p] <= o /\ o < hi})
          /\ committed' = [committed EXCEPT ![p] = hi]
    /\ UNCHANGED <<cpc, mpc, consumerVars, hand, pool, offsets, pending, member,
                   lost, rebalances, crashes>>

\* The process dies with everything it holds in memory.
Crash ==
    /\ Alive /\ crashes < MaxCrashes
    /\ position' = EmptyMap /\ assigned' = {} /\ wakeup' = FALSE
    /\ hand' = NoBatch
    /\ shutdown' = FALSE /\ queue' = << >> /\ tstate' = FreshThreads
    /\ batch' = [r \in Runners |-> NoBatch]
    /\ todo' = [r \in Runners |-> {}] /\ cur' = [r \in Runners |-> {}]
    /\ offsets' = EmptyMap /\ pending' = EmptyMap
    /\ member' = FALSE
    /\ cpc' = "down" /\ mpc' = "sleep"
    /\ lost' = lost \cup (InFlight \ processed)
    /\ crashes' = crashes + 1
    /\ UNCHANGED <<committed, processed, rebalances>>

\* It is started again.
Restart ==
    /\ cpc = "down"
    /\ cpc' = "poll"
    /\ UNCHANGED <<mpc, consumerVars, hand, pool, offsets, pending, committed,
                   member, hist>>

-----------------------------------------------------------------------------
PollingThread ==
    \/ PollRecords \/ PollNothing \/ Submit \/ TakeOffsets \/ CommitSync
    \/ CommitSyncThrows \/ PollWakeup \/ CloseConsumer
    \/ Revoke \/ RevokeThrows \/ Rejoin \/ Assign

Worker(r) == (r # Poller /\ TakeBatch(r)) \/ Process(r) \/ Report(r)

Environment ==
    \/ Expel \/ Crash \/ Restart
    \/ \E p \in Partitions : OtherConsumes(p)

\* The program has ended: main returned, the polling thread stopped, the pool
\* drained.
Quiet ==
    /\ mpc = "done" /\ Stopped
    /\ queue = << >>
    /\ \A r \in Runners : tstate[r] # "run"

Terminated == Quiet /\ UNCHANGED vars

Next ==
    \/ PollingThread
    \/ \E r \in Runners : Worker(r)
    \/ Wakeup \/ Shutdown
    \/ Environment
    \/ Terminated

Spec == Init /\ [][Next]_vars

\* Threads of the process keep running, and main's sleep ends.
Fairness ==
    /\ WF_vars(PollingThread)
    /\ \A r \in Runners : WF_vars(Worker(r))
    /\ WF_vars(Wakeup) /\ WF_vars(Shutdown)

FairSpec == Spec /\ Fairness

-----------------------------------------------------------------------------
\* The fields of ConsumerThreadHandler, its pool and the coordinator keep their
\* types; no reported or committed offset lies behind the end of the log.
TypeOK ==
    /\ cpc \in {"poll", "submit", "run", "commit", "sync", "revoked",
                "finally", "finallySync", "close", "closed", "dead", "down"}
    /\ mpc \in {"sleep", "wokeUp", "done"}
    /\ position \in OffsetMap /\ assigned \in SUBSET Partitions
    /\ wakeup \in BOOLEAN /\ shutdown \in BOOLEAN /\ member \in BOOLEAN
    /\ hand \in Batch /\ queue \in Seq(Batch)
    /\ tstate \in [Runners -> {"new", "idle", "run"}]
    /\ batch \in [Runners -> Batch]
    /\ todo \in [Runners -> SUBSET Partitions]
    /\ cur \in [Runners -> SUBSET Partitions]
    /\ offsets \in OffsetMap /\ pending \in OffsetMap /\ committed \in OffsetMap
    /\ processed \in SUBSET Records /\ lost \in SUBSET Records
    /\ rebalances \in Nat /\ crashes \in Nat

\* Every record behind the offsets of map m is in S.
Covers(S, m) ==
    \A p \in Partitions : \A o \in Offset : o < m[p] => <<p, o>> \in S

Accounted == processed \cup InFlight \cup lost

\* No record is skipped silently: behind a committed offset every record has
\* been processed by somebody, or is still in the pool of the process that
\* polled it, or was there when that process crashed.  Holds although batches
\* finish in any order, the listener clears the map under the workers' feet,
\* commits fail half-way and close() drops a batch.
NoSilentSkip == Covers(Accounted, committed)

\* kafka.md: a message's offset is committed only after it has been consumed.
ConsumedBeforeCommit == Covers(processed, committed)

\* What makes NoSilentSkip inductive.  Everything that may become a committed
\* offset covers accounted records only: the map, its copy, the ends of the
\* batches in the pool, and the position the next poll starts at, as long as
\* close() has not made the executor drop a batch.
Exited == {"finally", "finallySync", "close", "closed", "dead"}

PoolInv ==
    /\ \A r \in Runners : tstate[r] # "run" => todo[r] = {}
    /\ \A r \in Runners : cur[r] # {} => tstate[r] = "run"
    /\ tstate[Poller] = "run" => cpc = "run"
    /\ cpc = "submit" => hand.hi = position
    /\ cpc = "down" => mpc = "sleep" /\ ~shutdown

CloseInv ==
    /\ mpc # "sleep" => wakeup \/ cpc \in Exited
    /\ shutdown => mpc # "sleep"

CoverInv ==
    /\ Covers(Accounted, committed)
    /\ Covers(Accounted, offsets) /\ Covers(Accounted, pending)
    /\ \A r \in Runners : Covers(Accounted, batch[r].hi)
    /\ \A i \in 1 .. Len(queue) : Covers(Accounted, queue[i].hi)
    /\ cpc = "submit" => Covers(Accounted, hand.lo)
    /\ ~shutdown /\ cpc # "submit" => Covers(Accounted, position)

IInv == TypeOK /\ PoolInv /\ CloseInv /\ CoverInv

\* As long as there has been no rebalance, commitOffsets() never moves the
\* committed offset of a partition back, nor does a restart after a crash.
CommitNeverRegresses ==
    [][rebalances = 0 =>
          \A p \in Partitions : committed[p] <= committed'[p]]_vars

\* With one pool thread, and as long as CallerRunsPolicy never makes the
\* polling thread overtake it, batches are processed in the order of polling.
OneThread == \A s, t \in Threads : s = t
CallerNeverRuns == cpc # "run"

\* What makes ConsumedBeforeCommit inductive then.  Everything that may become
\* a committed offset covers processed records only, and the start of a batch
\* covers, besides those, only records of batches in front of it.
Ahead ==
    [i \in Nat |->
        {rec \in Records :
            \/ \E r \in Runners :
                  rec[1] \in todo[r] /\ Holds(batch[r], rec[1], rec[2])
            \/ \E j \in 1 .. i : Holds(queue[j], rec[1], rec[2])}]

\* How far a runner has come with its batch.
Progress ==
    [r \in Runners |->
        [p \in Partitions |->
            IF p \in todo[r] THEN batch[r].lo[p] ELSE batch[r].hi[p]]]

FifoInv ==
    /\ queue # << >> => \A t \in Threads : tstate[t] # "new"
    /\ \A r \in Runners : cur[r] \cap todo[r] = {}
    /\ Covers(processed, committed)
    /\ Covers(processed, offsets) /\ Covers(processed, pending)
    /\ \A r \in Runners : Covers(processed, Progress[r])
    /\ \A i \in 1 .. Len(queue) :
          Covers(processed \cup Ahead[i - 1], queue[i].lo)
    /\ cpc = "submit" => Covers(processed \cup Ahead[Len(queue)], hand.lo)
    /\ ~shutdown /\ cpc # "submit" =>
          Covers(processed \cup Ahead[Len(queue)], position)

\* What makes CommitNeverRegresses inductive.  Until the first rebalance the
\* offsets stand in the order in which they travel: committed, pending,
\* reported, being processed, queued, polled.
AtMost(m, n) == \A p \in Partitions : m[p] <= n[p]
AtMostKeys(m, n) == \A p \in Partitions : n[p] = NoKey \/ m[p] <= n[p]

\* committed, restricted to the partitions that no other member commits.
Own == [p \in Partitions |-> IF p \in assigned THEN committed[p] ELSE NoKey]

\* Before it joins the group the process has nothing polled or reported.
JoinInv ==
    /\ assigned # {} => member
    /\ cpc = "revoked" => ~member
    /\ ~member /\ cpc # "closed" =>
          /\ queue = << >> /\ cpc # "submit"
          /\ \A r \in Runners : tstate[r] # "run"
    /\ cpc # "closed" => \A p \in Partitions \ assigned : position[p] = NoKey

OrderInv ==
    /\ AtMostKeys(Own, pending) /\ AtMostKeys(Own, offsets)
    /\ AtMostKeys(pending, offsets)
    /\ \A m \in {Own, pending, offsets} :
          /\ AtMost(m, position)
          /\ \A r \in Runners : tstate[r] = "run" => AtMost(m, batch[r].hi)
          /\ \A i \in 1 .. Len(queue) : AtMost(m, queue[i].hi)
    /\ \A r \in Runners : tstate[r] = "run" =>
          /\ AtMost(batch[r].hi, position)
          /\ \A i \in 1 .. Len(queue) : AtMost(batch[r].hi, queue[i].hi)
    /\ \A i \in 1 .. Len(queue) :
          /\ AtMost(queue[i].hi, position)
          /\ \A j \in i .. Len(queue) : AtMost(queue[i].hi, queue[j].hi)

ChainInv == rebalances = 0 => JoinInv /\ OrderInv

\* close() ends the program: the polling thread leaves consume() and every
\* batch that the executor accepted is processed to its end.
CloseEnds == (mpc = "done") ~> Quiet

=============================================================================
