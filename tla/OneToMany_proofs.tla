-------------------------- MODULE OneToMany_proofs --------------------------
(***************************************************************************)
(* Proofs about the multi-threaded Kafka consumer: its variables keep      *)
(* their types and no record behind a committed offset is skipped          *)
(* silently, for any number of partitions, records, threads, rebalances    *)
(* and crashes. With one worker and a queue that never fills, records are  *)
(* consumed before their offset is committed, and commits move forward     *)
(* until the first rebalance.                                              *)
(***************************************************************************)
EXTENDS OneToMany, TLAPS

\* 0 is an offset, so the empty map and the empty batch have their types.
LEMMA EmptyTypes == EmptyMap \in OffsetMap /\ NoBatch \in Batch
BY LogEndAssumption DEF EmptyMap, NoKey, OffsetMap, Offset, NoBatch, Batch

\* Overwriting one offset map by another gives an offset map.
LEMMA OverwriteType ==
    ASSUME NEW m \in OffsetMap, NEW n \in OffsetMap
    PROVE  Overwrite(m, n) \in OffsetMap
BY DEF Overwrite, OffsetMap

\* The maps that the rebalance listener may commit are offset maps.
LEMMA ListenerCopiesType ==
    ASSUME offsets \in OffsetMap
    PROVE  ListenerCopies \subseteq OffsetMap
BY LogEndAssumption
   DEF ListenerCopies, SubMaps, OffsetMap, Offset, NoKey

\* Every step of the consumer keeps the type invariant.
LEMMA TypeStep == TypeOK /\ [Next]_vars => TypeOK'
<1> SUFFICES ASSUME TypeOK, [Next]_vars PROVE TypeOK'
    OBVIOUS
<1> USE LogEndAssumption DEF TypeOK
<1>1. CASE PollRecords
    BY <1>1 DEF PollRecords, pool, hist, Batch
<1>2. CASE PollNothing
    BY <1>2 DEF PollNothing, consumerVars, pool, hist
<1>3. CASE Submit
  <2> USE <1>3 DEF Submit, consumerVars, hist
  <2>1. hand' \in Batch /\ queue' \in Seq(Batch)
    BY EmptyTypes DEF StartWorker
  <2>2. /\ tstate' \in [Runners -> {"new", "idle", "run"}]
        /\ batch' \in [Runners -> Batch]
        /\ todo' \in [Runners -> SUBSET Partitions]
    BY DEF StartWorker, PartitionsOf, Runners
  <2> QED BY <2>1, <2>2
<1>4. CASE TakeOffsets
    BY <1>4, EmptyTypes DEF TakeOffsets, consumerVars, pool, hist
<1>5. CASE CommitSync
    BY <1>5, EmptyTypes, OverwriteType
       DEF CommitSync, consumerVars, pool, hist
<1>6. CASE CommitSyncThrows
    BY <1>6, EmptyTypes, OverwriteType
       DEF CommitSyncThrows, pool, hist
<1>7. CASE PollWakeup
    BY <1>7 DEF PollWakeup, pool, hist
<1>8. CASE CloseConsumer
    BY <1>8 DEF CloseConsumer, pool, hist
<1>9. CASE Revoke
    BY <1>9, ListenerCopiesType, OverwriteType DEF Revoke, pool
<1>10. CASE RevokeThrows
    BY <1>10, ListenerCopiesType, OverwriteType DEF RevokeThrows, pool
<1>11. CASE Rejoin
    BY <1>11 DEF Rejoin, pool, hist
<1>12. CASE Assign
    BY <1>12, EmptyTypes DEF Assign, pool, hist, OffsetMap
<1>13. ASSUME NEW t \in Threads, TakeBatch(t) PROVE TypeOK'
  <2> USE <1>13 DEF TakeBatch, StartWorker, consumerVars, hist
  <2>1. Head(queue) \in Batch /\ queue' \in Seq(Batch)
    OBVIOUS
  <2> QED BY <2>1 DEF PartitionsOf, Runners
<1>14. ASSUME NEW r \in Runners, Process(r) PROVE TypeOK'
  <2> USE <1>14 DEF Process, consumerVars
  <2>1. processed' \in SUBSET Records
    BY DEF RecordsOf, Records
  <2> QED BY <2>1
<1>15. ASSUME NEW r \in Runners, Report(r) PROVE TypeOK'
  <2> USE <1>15 DEF Report, consumerVars, hist
  <2>1. PICK p \in cur[r] : offsets' = Reported(offsets, p, batch[r].hi[p])
    OBVIOUS
  <2>2. offsets' \in OffsetMap
    BY <2>1 DEF Reported, OffsetMap, Batch
  <2> QED BY <2>2, EmptyTypes
<1>16. CASE Wakeup
    BY <1>16 DEF Wakeup, pool, hist
<1>17. CASE Shutdown
    BY <1>17 DEF Shutdown, consumerVars, hist
<1>18. CASE Expel
  <2> USE <1>18 DEF Expel, consumerVars, pool
  <2>1. member' \in BOOLEAN
    OBVIOUS
  <2>2. rebalances' \in Nat
    OBVIOUS
  <2> QED BY <2>1, <2>2, Zenon
<1>19. ASSUME NEW p \in Partitions, OtherConsumes(p) PROVE TypeOK'
    BY <1>19 DEF OtherConsumes, consumerVars, pool, OffsetMap, Records
<1>20. CASE Crash
  <2> USE <1>20 DEF Crash
  <2>1. tstate' \in [Runners -> {"new", "idle", "run"}]
    BY DEF FreshThreads
  <2>2. /\ batch' \in [Runners -> Batch]
        /\ todo' \in [Runners -> SUBSET Partitions]
        /\ cur' \in [Runners -> SUBSET Partitions]
    BY EmptyTypes
  <2>3. lost' \in SUBSET Records
    BY DEF InFlight
  <2>4. /\ cpc' = "down" /\ mpc' = "sleep"
        /\ position' \in OffsetMap /\ assigned' \in SUBSET Partitions
        /\ wakeup' \in BOOLEAN /\ shutdown' \in BOOLEAN /\ member' \in BOOLEAN
    BY EmptyTypes, Zenon
  <2>5. /\ hand' \in Batch /\ queue' \in Seq(Batch)
        /\ offsets' \in OffsetMap /\ pending' \in OffsetMap
        /\ committed' \in OffsetMap /\ processed' \in SUBSET Records
    BY EmptyTypes
  <2>6. rebalances' \in Nat /\ crashes' \in Nat
    OBVIOUS
  <2> QED BY <2>1, <2>2, <2>3, <2>4, <2>5, <2>6
<1>21. CASE Restart
    BY <1>21 DEF Restart, consumerVars, pool, hist
<1>22. CASE UNCHANGED vars
    BY <1>22 DEF vars, consumerVars, pool, hist
<1>23. QED
    BY <1>1, <1>2, <1>3, <1>4, <1>5, <1>6, <1>7, <1>8, <1>9, <1>10, <1>11,
       <1>12, <1>13, <1>14, <1>15, <1>16, <1>17, <1>18, <1>19, <1>20, <1>21,
       <1>22
    DEF Next, PollingThread, Worker, Environment, Terminated, Runners

-----------------------------------------------------------------------------
\* The bookkeeping of runners, polling thread and close() is kept by every
\* step: in particular main has woken up a polling thread that is still in
\* its loop before it shuts the executor down.
LEMMA ControlStep ==
    TypeOK /\ PoolInv /\ CloseInv /\ [Next]_vars => (PoolInv /\ CloseInv)'
<1> SUFFICES ASSUME TypeOK, PoolInv, CloseInv, [Next]_vars
             PROVE  PoolInv' /\ CloseInv'
    OBVIOUS
<1> USE PollerAssumption DEF TypeOK, PoolInv, CloseInv, Exited, Runners
<1>1. CASE PollRecords
    BY <1>1 DEF PollRecords, pool, hist
<1>2. CASE PollNothing
    BY <1>2 DEF PollNothing, consumerVars, pool, hist
<1>3. CASE Submit
    BY <1>3 DEF Submit, StartWorker, consumerVars, hist
<1>4. CASE TakeOffsets
    BY <1>4 DEF TakeOffsets, consumerVars, pool, hist
<1>5. CASE CommitSync
    BY <1>5 DEF CommitSync, consumerVars, pool, hist
<1>6. CASE CommitSyncThrows
    BY <1>6 DEF CommitSyncThrows, pool, hist
<1>7. CASE PollWakeup
    BY <1>7 DEF PollWakeup, pool, hist
<1>8. CASE CloseConsumer
    BY <1>8 DEF CloseConsumer, pool, hist
<1>9. CASE Revoke
    BY <1>9 DEF Revoke, pool
<1>10. CASE RevokeThrows
    BY <1>10 DEF RevokeThrows, pool
<1>11. CASE Rejoin
    BY <1>11 DEF Rejoin, pool, hist
<1>12. CASE Assign
    BY <1>12 DEF Assign, pool, hist
<1>13. ASSUME NEW t \in Threads, TakeBatch(t) PROVE PoolInv' /\ CloseInv'
    BY <1>13 DEF TakeBatch, StartWorker, consumerVars, hist
<1>14. ASSUME NEW r \in Runners, Process(r) PROVE PoolInv' /\ CloseInv'
    BY <1>14 DEF Process, consumerVars
<1>15. ASSUME NEW r \in Runners, Report(r) PROVE PoolInv' /\ CloseInv'
    BY <1>15 DEF Report, consumerVars, hist
<1>16. CASE Wakeup
    BY <1>16 DEF Wakeup, Alive, pool, hist
<1>17. CASE Shutdown
    BY <1>17 DEF Shutdown, Alive, consumerVars, hist
<1>18. CASE Expel
    BY <1>18 DEF Expel, consumerVars, pool
<1>19. ASSUME NEW p \in Partitions, OtherConsumes(p)
       PROVE  PoolInv' /\ CloseInv'
    BY <1>19 DEF OtherConsumes, consumerVars, pool
<1>20. CASE Crash
    BY <1>20 DEF Crash, FreshThreads
<1>21. CASE Restart
    BY <1>21 DEF Restart, consumerVars, pool, hist
<1>22. CASE UNCHANGED vars
    BY <1>22 DEF vars, consumerVars, pool, hist
<1>23. QED
    BY <1>1, <1>2, <1>3, <1>4, <1>5, <1>6, <1>7, <1>8, <1>9, <1>10, <1>11,
       <1>12, <1>13, <1>14, <1>15, <1>16, <1>17, <1>18, <1>19, <1>20, <1>21,
       <1>22
    DEF Next, PollingThread, Worker, Environment, Terminated

-----------------------------------------------------------------------------
\* A larger set of records covers what a smaller one does.
LEMMA CoversMono ==
    ASSUME NEW S, NEW T, NEW m, S \subseteq T, Covers(S, m)
    PROVE  Covers(T, m)
BY DEF Covers

\* The initial offsets, all 0, have no records behind them.
LEMMA CoversEmpty == ASSUME NEW S PROVE Covers(S, EmptyMap)
BY LogEndAssumption DEF Covers, EmptyMap, NoKey, Offset

\* Committing a covered map over covered offsets leaves covered offsets.
LEMMA CoversOverwrite ==
    ASSUME NEW S, NEW m \in OffsetMap, NEW n \in OffsetMap,
           Covers(S, m), Covers(S, n)
    PROVE  Covers(S, Overwrite(m, n))
BY DEF Covers, Overwrite, OffsetMap

\* The maps that the rebalance listener may commit are as covered as offsets.
LEMMA CoversCopies ==
    ASSUME NEW S, offsets \in OffsetMap, Covers(S, offsets),
           NEW m \in ListenerCopies
    PROVE  Covers(S, m)
BY LogEndAssumption
   DEF Covers, ListenerCopies, SubMaps, OffsetMap, Offset, NoKey

\* Steps that leave processed, lost, queue, batch and todo alone account for
\* the same records.
LEMMA AccountedSame ==
    ASSUME UNCHANGED <<processed, lost, queue, batch, todo>>
    PROVE  Accounted' = Accounted
BY DEF Accounted, InFlight

\* executors.submit() turns the polled batch into records in flight, unless
\* it drops them.
LEMMA SubmitAccounts ==
    ASSUME TypeOK, PoolInv, CoverInv, Submit
    PROVE  /\ Accounted \subseteq Accounted'
           /\ ~shutdown => Covers(Accounted', hand.hi)
<1> USE DEF TypeOK
<1>1. ASSUME NEW r \in Runners, tstate[r] # "run", StartWorker(r, hand),
             UNCHANGED <<queue, processed, lost>>
      PROVE  /\ Accounted \subseteq Accounted'
             /\ Covers(Accounted \cup Accounted', hand.lo) =>
                    Covers(Accounted', hand.hi)
  <2>1. todo[r] = {}
    BY <1>1 DEF PoolInv
  <2>2. InFlight \subseteq InFlight'
    BY <1>1, <2>1 DEF InFlight, StartWorker
  <2>3. Accounted \subseteq Accounted'
    BY <1>1, <2>2 DEF Accounted
  <2>4. ASSUME NEW p \in Partitions, NEW o \in Offset, Holds(hand, p, o)
        PROVE  <<p, o>> \in InFlight'
    <3>1. p \in todo'[r] /\ batch'[r] = hand
      BY <1>1, <2>4, LogEndAssumption
         DEF StartWorker, PartitionsOf, Holds, Batch, OffsetMap, Offset
    <3> QED BY <3>1, <2>4 DEF InFlight, Records
  <2>5. ASSUME Covers(Accounted \cup Accounted', hand.lo),
               NEW p \in Partitions, NEW o \in Offset, o < hand.hi[p]
        PROVE  <<p, o>> \in Accounted'
    <3>1. CASE o < hand.lo[p]
      BY <2>3, <2>5, <3>1 DEF Covers
    <3>2. CASE ~(o < hand.lo[p])
      <4>1. Holds(hand, p, o)
        BY <2>5, <3>2, LogEndAssumption DEF Holds, Batch, OffsetMap, Offset
      <4> QED BY <2>4, <4>1 DEF Accounted
    <3> QED BY <3>1, <3>2
  <2> QED BY <2>3, <2>5 DEF Covers
<1>2. CASE queue' = Append(queue, hand) /\ UNCHANGED <<tstate, batch, todo>>
  <2>1. UNCHANGED <<processed, lost>>
    BY DEF Submit, hist
  <2>2. /\ Len(queue') = Len(queue) + 1
        /\ queue'[Len(queue')] = hand
        /\ \A i \in 1 .. Len(queue) : queue'[i] = queue[i]
        /\ 1 .. Len(queue) \subseteq 1 .. Len(queue')
        /\ Len(queue') \in 1 .. Len(queue')
    BY <1>2
  <2>3. InFlight \subseteq InFlight'
    BY <1>2, <2>2 DEF InFlight
  <2>4. Accounted \subseteq Accounted'
    BY <2>1, <2>3 DEF Accounted
  <2>5. ASSUME NEW p \in Partitions, NEW o \in Offset, o < hand.hi[p]
        PROVE  <<p, o>> \in Accounted'
    <3>1. CASE o < hand.lo[p]
      BY <2>4, <3>1 DEF Covers, CoverInv, Submit
    <3>2. CASE ~(o < hand.lo[p])
      <4>1. Holds(hand, p, o)
        BY <2>5, <3>2, LogEndAssumption DEF Holds, Batch, OffsetMap, Offset
      <4>2. <<p, o>> \in InFlight'
        BY <2>2, <4>1 DEF InFlight, Records
      <4> QED BY <4>2 DEF Accounted
    <3> QED BY <3>1, <3>2
  <2> QED BY <2>4, <2>5 DEF Covers
<1>3. CASE shutdown /\ UNCHANGED <<queue, tstate, batch, todo>>
    BY <1>3, AccountedSame DEF Submit, hist
<1>4. tstate[Poller] # "run"
    BY DEF PoolInv, Submit
<1>5. Covers(Accounted, hand.lo) => Covers(Accounted \cup Accounted', hand.lo)
    BY DEF Covers
<1>6. Covers(Accounted, hand.lo)
    BY DEF CoverInv, Submit
<1> QED
    BY <1>1, <1>2, <1>3, <1>4, <1>5, <1>6 DEF Submit, Runners, hist

\* A thread that takes a batch out of the queue still accounts for it.
LEMMA TakeBatchAccounts ==
    ASSUME TypeOK, PoolInv, NEW t \in Threads, TakeBatch(t)
    PROVE  Accounted \subseteq Accounted'
<1> USE DEF TypeOK
<1>1. todo[t] = {} /\ t \in Runners
    BY DEF TakeBatch, PoolInv, Runners
<1>2. /\ queue # << >> /\ queue[1] = Head(queue) /\ queue' = Tail(queue)
      /\ Len(queue') = Len(queue) - 1 /\ Len(queue) \in Nat
      /\ \A i \in 1 .. Len(queue) : i # 1 => queue'[i - 1] = queue[i]
    BY DEF TakeBatch
<1>3. ASSUME NEW rec \in InFlight PROVE rec \in InFlight'
  <2> DEFINE p == rec[1]
             o == rec[2]
  <2>0. rec \in Records /\ p \in Partitions /\ o \in Offset
    BY DEF InFlight, Records
  <2>1. ASSUME NEW r \in Runners, p \in todo[r], Holds(batch[r], p, o)
        PROVE  rec \in InFlight'
    <3>1. r # t /\ todo'[r] = todo[r] /\ batch'[r] = batch[r]
      BY <1>1, <2>1 DEF TakeBatch, StartWorker
    <3> QED BY <2>0, <2>1, <3>1 DEF InFlight
  <2>2. ASSUME NEW i \in 1 .. Len(queue), i # 1, Holds(queue[i], p, o)
        PROVE  rec \in InFlight'
    <3>1. i - 1 \in 1 .. Len(queue')
      BY <1>2, <2>2
    <3>2. queue'[i - 1] = queue[i]
      BY <1>2, <2>2
    <3>3. Holds(queue'[i - 1], p, o)
      BY <2>2, <3>2
    <3> QED BY <2>0, <3>1, <3>3 DEF InFlight
  <2>3. CASE Holds(queue[1], p, o)
    <3>1. Head(queue) \in Batch
      BY <1>2
    <3>2. p \in todo'[t] /\ batch'[t] = queue[1]
      <4>1. todo'[t] = PartitionsOf(queue[1]) /\ batch'[t] = queue[1]
        BY <1>1, <1>2 DEF TakeBatch, StartWorker
      <4>2. queue[1].lo[p] < queue[1].hi[p]
        BY <1>2, <2>0, <2>3, <3>1, LogEndAssumption
           DEF Holds, Batch, OffsetMap, Offset
      <4> QED BY <2>0, <4>1, <4>2 DEF PartitionsOf
    <3> QED BY <1>1, <2>0, <2>3, <3>2 DEF InFlight
  <2> QED BY <2>1, <2>2, <2>3 DEF InFlight
<1> QED BY <1>3 DEF Accounted, TakeBatch, hist

\* Processing a partition moves its records from in flight to processed.
LEMMA ProcessAccounts ==
    ASSUME TypeOK, NEW r \in Runners, Process(r)
    PROVE  Accounted \subseteq Accounted'
<1> USE DEF TypeOK
<1>1. PICK p \in todo[r] :
          /\ processed' = processed \cup RecordsOf(batch[r], p)
          /\ todo' = [todo EXCEPT ![r] = @ \ {p}]
    BY DEF Process
<1>2. ASSUME NEW rec \in InFlight, rec \notin RecordsOf(batch[r], p)
      PROVE  rec \in InFlight'
  <2>1. /\ rec \in Records /\ rec[1] \in Partitions /\ rec[2] \in Offset
        /\ rec = <<rec[1], rec[2]>>
    BY DEF InFlight, Records
  <2>2. ~(rec[1] = p /\ Holds(batch[r], p, rec[2]))
    BY <1>2, <2>1 DEF RecordsOf
  <2> QED BY <1>1, <2>1, <2>2 DEF InFlight, Process
<1> QED BY <1>1, <1>2 DEF Accounted, Process

\* A runner that reports has nothing in flight when it drops its batch.
LEMMA ReportAccounts ==
    ASSUME TypeOK, NEW r \in Runners, Report(r)
    PROVE  Accounted \subseteq Accounted'
BY DEF TypeOK, Report, Accounted, InFlight, hist

-----------------------------------------------------------------------------
\* Every step keeps the offsets that may be committed covered.
LEMMA CoverStep ==
    TypeOK /\ PoolInv /\ CloseInv /\ CoverInv /\ [Next]_vars => CoverInv'
<1> SUFFICES ASSUME TypeOK, PoolInv, CloseInv, CoverInv, [Next]_vars
             PROVE  CoverInv'
    OBVIOUS
<1> USE DEF TypeOK
<1>1. CASE PollRecords
  <2> USE <1>1 DEF PollRecords, pool, hist
  <2>1. Accounted' = Accounted
    BY AccountedSame
  <2>2. ~shutdown /\ hand'.lo = position
    BY DEF CloseInv, Exited
  <2> QED BY <2>1, <2>2 DEF CoverInv
<1>2. CASE PollNothing
    BY <1>2, AccountedSame
       DEF PollNothing, consumerVars, pool, hist, CoverInv
<1>3. CASE Submit
  <2>1. Accounted \subseteq Accounted'
    BY <1>3, SubmitAccounts
  <2>2. ~shutdown => Covers(Accounted', position')
    BY <1>3, SubmitAccounts DEF PoolInv, Submit, consumerVars
  <2>3. /\ Covers(Accounted', committed') /\ Covers(Accounted', offsets')
        /\ Covers(Accounted', pending')
    BY <1>3, <2>1, CoversMono DEF CoverInv, Submit
  <2>4. ASSUME NEW r \in Runners PROVE Covers(Accounted', batch'[r].hi)
    <3>1. CASE batch'[r] = batch[r]
      BY <2>1, <3>1, CoversMono DEF CoverInv
    <3>2. CASE batch'[r] = hand /\ ~shutdown
      BY <1>3, <3>2, SubmitAccounts
    <3> QED BY <1>3, <3>1, <3>2 DEF Submit, StartWorker
  <2>5. ASSUME NEW i \in 1 .. Len(queue') PROVE Covers(Accounted', queue'[i].hi)
    <3>1. CASE i \in 1 .. Len(queue) /\ queue'[i] = queue[i]
      BY <2>1, <3>1, CoversMono DEF CoverInv
    <3>2. CASE queue'[i] = hand /\ ~shutdown
      BY <1>3, <3>2, SubmitAccounts
    <3> QED BY <1>3, <3>1, <3>2 DEF Submit
  <2>6. cpc' # "submit" /\ shutdown' = shutdown
    BY <1>3 DEF Submit
  <2> QED BY <2>2, <2>3, <2>4, <2>5, <2>6 DEF CoverInv
<1>4. CASE TakeOffsets
    BY <1>4, AccountedSame, CoversEmpty
       DEF TakeOffsets, consumerVars, pool, hist, CoverInv
<1>5. CASE CommitSync
    BY <1>5, AccountedSame, CoversEmpty, CoversOverwrite
       DEF CommitSync, consumerVars, pool, hist, CoverInv
<1>6. CASE CommitSyncThrows
    BY <1>6, AccountedSame, CoversEmpty, CoversOverwrite
       DEF CommitSyncThrows, pool, hist, CoverInv
<1>7. CASE PollWakeup
    BY <1>7, AccountedSame DEF PollWakeup, pool, hist, CoverInv
<1>8. CASE CloseConsumer
    BY <1>8, AccountedSame DEF CloseConsumer, pool, hist, CoverInv
<1>9. CASE Revoke
    BY <1>9, AccountedSame, CoversCopies, CoversOverwrite, ListenerCopiesType
       DEF Revoke, pool, CoverInv
<1>10. CASE RevokeThrows
    BY <1>10, AccountedSame, CoversCopies, CoversOverwrite, ListenerCopiesType
       DEF RevokeThrows, pool, CoverInv
<1>11. CASE Rejoin
    BY <1>11, AccountedSame DEF Rejoin, pool, hist, CoverInv
<1>12. CASE Assign
  <2> USE <1>12 DEF Assign, pool, hist
  <2>1. Accounted' = Accounted
    BY AccountedSame
  <2>2. ~shutdown => Covers(Accounted', position')
    BY <2>1 DEF CoverInv, Covers
  <2> QED BY <2>1, <2>2, CoversEmpty DEF CoverInv
<1>13. ASSUME NEW t \in Threads, TakeBatch(t) PROVE CoverInv'
  <2> USE <1>13 DEF TakeBatch, consumerVars, hist
  <2>1. Accounted \subseteq Accounted'
    BY TakeBatchAccounts
  <2>2. /\ \A i \in 1 .. Len(queue') :
               i + 1 \in 1 .. Len(queue) /\ queue'[i] = queue[i + 1]
        /\ 1 \in 1 .. Len(queue) /\ Head(queue) = queue[1]
    OBVIOUS
  <2>3. ASSUME NEW r \in Runners PROVE Covers(Accounted', batch'[r].hi)
    BY <2>1, <2>2, CoversMono DEF CoverInv, StartWorker
  <2>4. ASSUME NEW i \in 1 .. Len(queue') PROVE Covers(Accounted', queue'[i].hi)
    BY <2>1, <2>2, CoversMono DEF CoverInv
  <2> QED BY <2>1, <2>3, <2>4, CoversMono DEF CoverInv
<1>14. ASSUME NEW r \in Runners, Process(r) PROVE CoverInv'
  <2>1. Accounted \subseteq Accounted'
    BY <1>14, ProcessAccounts
  <2>2. UNCHANGED <<cpc, position, hand, shutdown, queue, batch, offsets,
                    pending, committed>>
    BY <1>14 DEF Process, consumerVars
  <2> QED BY <2>1, <2>2, CoversMono DEF CoverInv
<1>15. ASSUME NEW r \in Runners, Report(r) PROVE CoverInv'
  <2> USE <1>15 DEF Report, consumerVars, hist
  <2>1. Accounted \subseteq Accounted'
    BY ReportAccounts
  <2>2. PICK p \in cur[r] : offsets' = Reported(offsets, p, batch[r].hi[p])
    OBVIOUS
  <2>3. Covers(Accounted, offsets')
    BY <2>2 DEF CoverInv, Covers, Reported, OffsetMap
  <2>4. ASSUME NEW s \in Runners PROVE Covers(Accounted', batch'[s].hi)
    <3>1. batch'[s] = batch[s] \/ batch'[s] = NoBatch
      OBVIOUS
    <3> QED BY <2>1, <3>1, CoversMono, CoversEmpty DEF CoverInv, NoBatch
  <2>5. cpc' # "submit" \/ cpc' = cpc
    OBVIOUS
  <2>6. cpc = "submit" => r # Poller
    BY DEF PoolInv
  <2>7. cpc = "submit" <=> cpc' = "submit"
    BY <2>5, <2>6
  <2> QED BY <2>1, <2>3, <2>4, <2>7, CoversMono DEF CoverInv
<1>16. CASE Wakeup
    BY <1>16, AccountedSame DEF Wakeup, pool, hist, CoverInv
<1>17. CASE Shutdown
    BY <1>17, AccountedSame DEF Shutdown, consumerVars, hist, CoverInv
<1>18. CASE Expel
    BY <1>18, AccountedSame DEF Expel, consumerVars, pool, CoverInv
<1>19. ASSUME NEW p \in Partitions, OtherConsumes(p) PROVE CoverInv'
  <2> USE <1>19 DEF OtherConsumes, consumerVars, pool
  <2>1. Accounted \subseteq Accounted'
    BY DEF Accounted, InFlight
  <2>2. Covers(Accounted', committed')
    <3>1. PICK hi \in Offset :
              /\ processed' = processed \cup
                     ({p} \X {o \in Offset : committed[p] <= o /\ o < hi})
              /\ committed' = [committed EXCEPT ![p] = hi]
      OBVIOUS
    <3>2. ASSUME NEW q \in Partitions, NEW o \in Offset, o < committed'[q]
          PROVE  <<q, o>> \in Accounted'
      <4>1. CASE o < committed[q]
        BY <2>1, <4>1 DEF CoverInv, Covers
      <4>2. CASE ~(o < committed[q])
        <5>1. q = p /\ committed[p] <= o /\ o < hi
          BY <3>1, <3>2, <4>2, LogEndAssumption DEF OffsetMap, Offset
        <5> QED BY <3>1, <5>1 DEF Accounted
      <4> QED BY <4>1, <4>2
    <3> QED BY <3>2 DEF Covers
  <2> QED BY <2>1, <2>2, CoversMono DEF CoverInv
<1>20. CASE Crash
  <2> USE <1>20 DEF Crash
  <2>1. Accounted \subseteq Accounted'
    BY DEF Accounted
  <2>2. Covers(Accounted', committed')
    BY <2>1, CoversMono DEF CoverInv
  <2>3. \A r \in Runners : Covers(Accounted', batch'[r].hi)
    BY CoversEmpty DEF NoBatch
  <2> QED BY <2>2, <2>3, CoversEmpty DEF CoverInv
<1>21. CASE Restart
  <2>1. Accounted' = Accounted
    BY <1>21, AccountedSame DEF Restart, pool, hist
  <2> QED BY <1>21, <2>1 DEF Restart, consumerVars, pool, hist, CoverInv
<1>22. CASE UNCHANGED vars
  <2>1. Accounted' = Accounted
    BY <1>22, AccountedSame DEF vars, pool, hist
  <2> QED BY <1>22, <2>1 DEF vars, consumerVars, pool, hist, CoverInv
<1>23. QED
    BY <1>1, <1>2, <1>3, <1>4, <1>5, <1>6, <1>7, <1>8, <1>9, <1>10, <1>11,
       <1>12, <1>13, <1>14, <1>15, <1>16, <1>17, <1>18, <1>19, <1>20, <1>21,
       <1>22
    DEF Next, PollingThread, Worker, Environment, Terminated, Runners

-----------------------------------------------------------------------------
\* The invariant holds of a process that starts against empty offsets.
LEMMA InitInv == Init => IInv
<1> SUFFICES ASSUME Init PROVE IInv
    OBVIOUS
<1> USE DEF Init
<1>1. TypeOK
  <2>1. tstate \in [Runners -> {"new", "idle", "run"}]
    BY DEF FreshThreads
  <2>2. /\ batch \in [Runners -> Batch]
        /\ todo \in [Runners -> SUBSET Partitions]
        /\ cur \in [Runners -> SUBSET Partitions]
    BY EmptyTypes
  <2>3. wakeup \in BOOLEAN /\ shutdown \in BOOLEAN /\ member \in BOOLEAN
    BY Zenon
  <2> QED BY <2>1, <2>2, <2>3, EmptyTypes DEF TypeOK
<1>2. PoolInv /\ CloseInv
    BY DEF PoolInv, CloseInv, FreshThreads, Runners
<1>3. CoverInv
    BY CoversEmpty DEF CoverInv, NoBatch
<1> QED BY <1>1, <1>2, <1>3 DEF IInv

\* The variables of the consumer always have their types.
THEOREM TypeCorrect == Spec => []TypeOK
<1>1. Init => TypeOK
    BY InitInv DEF IInv
<1> QED BY <1>1, TypeStep, PTL DEF Spec

\* Whatever the workers, the listener, close(), the other members and crashes
\* do, a record behind a committed offset has been processed, is still in the
\* pool, or was in the pool of a process that crashed.
THEOREM NoRecordSkippedSilently == Spec => []NoSilentSkip
<1>1. IInv /\ [Next]_vars => IInv'
    BY TypeStep, ControlStep, CoverStep DEF IInv
<1>2. IInv => NoSilentSkip
    BY DEF IInv, CoverInv, NoSilentSkip
<1> QED BY InitInv, <1>1, <1>2, PTL DEF Spec

-----------------------------------------------------------------------------
(***************************************************************************)
(* One pool thread that the polling thread never overtakes: a record is    *)
(* processed before its offset is committed, and, until a rebalance, the   *)
(* committed offset never moves back.                                      *)
(***************************************************************************)

\* A step that leaves queue, batch and todo alone leaves the records in front
\* of each batch alone, and how far each runner has come.
LEMMA AheadSame ==
    ASSUME UNCHANGED <<queue, batch, todo>>
    PROVE  Ahead' = Ahead /\ Progress' = Progress
BY DEF Ahead, Progress

\* When the only thread is not running a batch, none is being run.
LEMMA NothingRuns ==
    ASSUME TypeOK, PoolInv, OneThread, CallerNeverRuns,
           NEW t \in Threads, tstate[t] # "run"
    PROVE  /\ \A r \in Runners : tstate[r] # "run" /\ todo[r] = {}
           /\ Ahead[0] = {}
<1>1. \A r \in Runners : tstate[r] # "run"
    BY DEF PoolInv, OneThread, CallerNeverRuns, Runners
<1>2. \A r \in Runners : todo[r] = {}
    BY <1>1 DEF PoolInv
<1> QED BY <1>1, <1>2 DEF Ahead

\* The end of a batch covers no more than its start and its own records.
LEMMA CoversEnd ==
    ASSUME NEW S, NEW b \in Batch, Covers(S, b.lo),
           \A p \in Partitions : \A o \in Offset :
               Holds(b, p, o) => <<p, o>> \in S
    PROVE  Covers(S, b.hi)
<1> SUFFICES ASSUME NEW p \in Partitions, NEW o \in Offset, o < b.hi[p]
             PROVE  <<p, o>> \in S
    BY DEF Covers
<1>1. CASE o < b.lo[p]
    BY <1>1 DEF Covers
<1>2. CASE ~(o < b.lo[p])
    BY <1>2, LogEndAssumption DEF Holds, Batch, OffsetMap, Offset
<1> QED BY <1>1, <1>2

\* A runner that starts on a batch whose start is covered has come as far as
\* is covered.
LEMMA StartProgress ==
    ASSUME TypeOK, NEW S, NEW r \in Runners, NEW b \in Batch,
           Covers(S, b.lo), StartWorker(r, b)
    PROVE  Covers(S, Progress'[r])
<1>1. todo'[r] = PartitionsOf(b) /\ batch'[r] = b
    BY DEF TypeOK, StartWorker
<1>2. Progress'[r] = [p \in Partitions |->
                         IF b.lo[p] < b.hi[p] THEN b.lo[p] ELSE b.hi[p]]
    BY <1>1 DEF Progress, PartitionsOf
<1> QED BY <1>2, LogEndAssumption DEF Covers, Batch, OffsetMap, Offset

\* A batch taken out of the queue moves into the worker, ahead of the rest.
LEMMA TakeAhead ==
    ASSUME TypeOK, PoolInv, NEW t \in Threads, TakeBatch(t)
    PROVE  \A i \in 1 .. Len(queue) : Ahead[i] \subseteq Ahead'[i - 1]
<1> USE DEF TypeOK
<1>1. todo[t] = {} /\ t \in Runners
    BY DEF TakeBatch, PoolInv, Runners
<1>2. /\ queue # << >> /\ queue[1] = Head(queue) /\ Head(queue) \in Batch
      /\ \A j \in 1 .. Len(queue) : j # 1 => queue'[j - 1] = queue[j]
    BY DEF TakeBatch
<1>3. todo'[t] = PartitionsOf(queue[1]) /\ batch'[t] = queue[1]
    BY <1>1, <1>2 DEF TakeBatch, StartWorker
<1> SUFFICES ASSUME NEW i \in 1 .. Len(queue), NEW rec \in Ahead[i]
             PROVE  rec \in Ahead'[i - 1]
    OBVIOUS
<1> DEFINE p == rec[1]
           o == rec[2]
<1>4. rec \in Records /\ p \in Partitions /\ o \in Offset
    BY DEF Ahead, Records
<1>5. ASSUME NEW r \in Runners, p \in todo[r], Holds(batch[r], p, o)
      PROVE  rec \in Ahead'[i - 1]
  <2>1. todo'[r] = todo[r] /\ batch'[r] = batch[r]
    BY <1>1, <1>5 DEF TakeBatch, StartWorker
  <2> QED BY <1>4, <1>5, <2>1 DEF Ahead
<1>6. ASSUME NEW j \in 1 .. i, j # 1, Holds(queue[j], p, o)
      PROVE  rec \in Ahead'[i - 1]
  <2>1. j - 1 \in 1 .. (i - 1) /\ queue'[j - 1] = queue[j]
    BY <1>2, <1>6
  <2>2. Holds(queue'[j - 1], p, o)
    BY <1>6, <2>1
  <2> QED BY <1>4, <2>1, <2>2 DEF Ahead
<1>7. CASE Holds(queue[1], p, o)
  <2>0. queue[1].lo[p] \in Nat /\ queue[1].hi[p] \in Nat /\ o \in Nat
    <3>1. queue[1] \in Batch
      BY <1>2
    <3>2. queue[1].lo \in OffsetMap /\ queue[1].hi \in OffsetMap
      BY <3>1 DEF Batch
    <3> HIDE DEF p, o
    <3>3. queue[1].lo[p] \in Offset /\ queue[1].hi[p] \in Offset
      BY <1>4, <3>2 DEF OffsetMap
    <3> QED BY <1>4, <3>3, LogEndAssumption DEF Offset
  <2>1. queue[1].lo[p] < queue[1].hi[p]
    BY <1>7, <2>0 DEF Holds
  <2>2. p \in todo'[t]
    BY <1>3, <1>4, <2>1 DEF PartitionsOf
  <2> QED BY <1>1, <1>3, <1>4, <1>7, <2>2 DEF Ahead
<1> QED BY <1>5, <1>6, <1>7 DEF Ahead

\* Processing a partition turns its records from ahead into processed.
LEMMA ProcessAhead ==
    ASSUME TypeOK, NEW r \in Runners, Process(r)
    PROVE  \A i \in Nat :
              processed \cup Ahead[i] \subseteq processed' \cup Ahead'[i]
<1> USE DEF TypeOK
<1>1. PICK p \in todo[r] :
          /\ processed' = processed \cup RecordsOf(batch[r], p)
          /\ todo' = [todo EXCEPT ![r] = @ \ {p}]
    BY DEF Process
<1>2. ASSUME NEW i \in Nat, NEW rec \in Ahead[i],
             rec \notin RecordsOf(batch[r], p)
      PROVE  rec \in Ahead'[i]
  <2>1. /\ rec \in Records /\ rec[1] \in Partitions /\ rec[2] \in Offset
        /\ rec = <<rec[1], rec[2]>>
    BY DEF Ahead, Records
  <2>2. ~(rec[1] = p /\ Holds(batch[r], p, rec[2]))
    BY <1>2, <2>1 DEF RecordsOf
  <2> QED BY <1>1, <2>1, <2>2 DEF Ahead, Process
<1> QED BY <1>1, <1>2

-----------------------------------------------------------------------------
\* executors.submit() starts the only thread while nothing is in the pool, or
\* puts the batch behind all others.
LEMMA SubmitFifo ==
    ASSUME TypeOK, PoolInv, FifoInv, OneThread, CallerNeverRuns,
           CallerNeverRuns', Submit
    PROVE  FifoInv'
<1> USE DEF TypeOK
<1>0. /\ cpc = "submit" /\ cpc' # "submit"
      /\ UNCHANGED <<processed, committed, offsets, pending, position, cur,
                     shutdown>>
      /\ position = hand.hi
    BY DEF Submit, PoolInv, consumerVars, hist
<1>1. ASSUME NEW t \in Threads, tstate[t] = "new", StartWorker(t, hand),
             UNCHANGED queue
      PROVE  FifoInv'
  <2>1. queue = << >> /\ t \in Runners
    BY <1>1 DEF FifoInv, Runners
  <2>2. Ahead[0] = {} /\ cur[t] = {}
    BY <1>1, <2>1, NothingRuns DEF PoolInv
  <2>3. Covers(processed, hand.lo)
    <3>1. Covers(processed \cup Ahead[0], hand.lo)
      BY <1>0, <2>1 DEF FifoInv
    <3> QED BY <2>2, <3>1 DEF Covers
  <2>4. \A r \in Runners : Covers(processed', Progress'[r])
    <3>1. Covers(processed', Progress'[t])
      BY <1>0, <1>1, <2>1, <2>3, StartProgress
    <3>2. ASSUME NEW r \in Runners, r # t PROVE Progress'[r] = Progress[r]
      BY <1>1, <3>2 DEF StartWorker, Progress
    <3> QED BY <1>0, <3>1, <3>2 DEF FifoInv
  <2>5. Covers(processed' \cup Ahead'[0], position')
    <3>1. ASSUME NEW p \in Partitions, NEW o \in Offset, Holds(hand, p, o)
          PROVE  <<p, o>> \in Ahead'[0]
      <4>1. p \in todo'[t] /\ batch'[t] = hand
        BY <1>1, <2>1, <3>1, LogEndAssumption
           DEF StartWorker, PartitionsOf, Holds, Batch, OffsetMap, Offset
      <4> QED BY <2>1, <3>1, <4>1 DEF Ahead, Records
    <3>2. Covers(processed' \cup Ahead'[0], hand.lo)
      BY <1>0, <2>3, CoversMono
    <3> QED BY <1>0, <3>1, <3>2, CoversEnd
  <2>6. \A r \in Runners : cur'[r] \cap todo'[r] = {}
    BY <1>0, <1>1, <2>2 DEF FifoInv, StartWorker
  <2> QED BY <1>0, <1>1, <2>1, <2>4, <2>5, <2>6 DEF FifoInv
<1>2. CASE /\ \A t \in Threads : tstate[t] # "new"
           /\ queue' = Append(queue, hand)
           /\ UNCHANGED <<tstate, batch, todo>>
  <2> DEFINE n == Len(queue)
  <2>1. /\ n \in Nat /\ Len(queue') = n + 1 /\ queue'[n + 1] = hand
        /\ \A i \in 1 .. n : queue'[i] = queue[i]
    BY <1>2
  <2>2. \A i \in 0 .. n : Ahead'[i] = Ahead[i]
    BY <1>2, <2>1 DEF Ahead
  <2>3. Ahead[n] \subseteq Ahead'[n + 1]
    BY <1>2, <2>1 DEF Ahead
  <2>4. ASSUME NEW i \in 1 .. Len(queue')
        PROVE  Covers(processed' \cup Ahead'[i - 1], queue'[i].lo)
    <3>1. CASE i \in 1 .. n
      <4>1. i - 1 \in 0 .. n
        BY <2>1, <3>1
      <4>2. Covers(processed \cup Ahead[i - 1], queue[i].lo)
        BY <3>1 DEF FifoInv
      <4> QED BY <1>0, <2>1, <2>2, <3>1, <4>1, <4>2
    <3>2. CASE i = n + 1
      BY <1>0, <2>1, <2>2, <3>2 DEF FifoInv
    <3> QED BY <2>1, <3>1, <3>2
  <2>5. Covers(processed' \cup Ahead'[n + 1], position')
    <3>1. ASSUME NEW p \in Partitions, NEW o \in Offset, Holds(hand, p, o)
          PROVE  <<p, o>> \in Ahead'[n + 1]
      BY <2>1, <3>1 DEF Ahead, Records
    <3>2. Covers(processed' \cup Ahead'[n + 1], hand.lo)
      <4>1. Covers(processed \cup Ahead[n], hand.lo)
        BY <1>0 DEF FifoInv
      <4>2. processed \cup Ahead[n] \subseteq processed' \cup Ahead'[n + 1]
        BY <1>0, <2>3
      <4> QED BY <4>1, <4>2, CoversMono
    <3> QED BY <1>0, <3>1, <3>2, CoversEnd
  <2>6. \A r \in Runners : Covers(processed', Progress'[r])
    BY <1>0, <1>2 DEF FifoInv, Progress
  <2> QED BY <1>0, <1>2, <2>1, <2>4, <2>5, <2>6 DEF FifoInv
<1>3. CASE shutdown /\ UNCHANGED <<queue, tstate, batch, todo>>
    BY <1>0, <1>3, AheadSame DEF FifoInv
<1> QED BY <1>1, <1>2, <1>3 DEF Submit, CallerNeverRuns

\* With a single thread that the polling thread never overtakes every step
\* keeps the batches in the order in which they were polled.
LEMMA FifoStep ==
    ASSUME OneThread
    PROVE  TypeOK /\ PoolInv /\ CloseInv /\ FifoInv /\ CallerNeverRuns
             /\ CallerNeverRuns' /\ [Next]_vars => FifoInv'
<1> SUFFICES ASSUME TypeOK, PoolInv, CloseInv, FifoInv, CallerNeverRuns,
                    CallerNeverRuns', [Next]_vars
             PROVE  FifoInv'
    OBVIOUS
<1> USE DEF TypeOK
<1>1. CASE PollRecords
  <2> USE <1>1 DEF PollRecords, pool, hist
  <2>1. ~shutdown /\ hand'.lo = position
    BY DEF CloseInv, Exited
  <2> QED BY <2>1, AheadSame DEF FifoInv
<1>2. CASE PollNothing
    BY <1>2, AheadSame
       DEF PollNothing, consumerVars, pool, hist, FifoInv
<1>3. CASE Submit
    BY <1>3, SubmitFifo
<1>4. CASE TakeOffsets
    BY <1>4, AheadSame, CoversEmpty
       DEF TakeOffsets, consumerVars, pool, hist, FifoInv
<1>5. CASE CommitSync
    BY <1>5, AheadSame, CoversEmpty, CoversOverwrite
       DEF CommitSync, consumerVars, pool, hist, FifoInv
<1>6. CASE CommitSyncThrows
  <2> USE <1>6 DEF CommitSyncThrows, pool, hist
  <2>1. Covers(processed, committed')
    BY CoversOverwrite DEF FifoInv
  <2>2. cpc # "submit" /\ cpc' # "submit"
    OBVIOUS
  <2> QED BY <2>1, <2>2, AheadSame, CoversEmpty DEF FifoInv
<1>7. CASE PollWakeup
    BY <1>7, AheadSame DEF PollWakeup, pool, hist, FifoInv
<1>8. CASE CloseConsumer
    BY <1>8, AheadSame DEF CloseConsumer, pool, hist, FifoInv
<1>9. CASE Revoke
  <2> USE <1>9 DEF Revoke, pool
  <2>1. Covers(processed, committed')
    BY CoversCopies, CoversOverwrite, ListenerCopiesType DEF FifoInv
  <2> QED BY <2>1, AheadSame DEF FifoInv
<1>10. CASE RevokeThrows
  <2> USE <1>10 DEF RevokeThrows, pool
  <2>1. Covers(processed, committed')
    BY CoversCopies, CoversOverwrite, ListenerCopiesType DEF FifoInv
  <2> QED BY <2>1, AheadSame DEF FifoInv
<1>11. CASE Rejoin
    BY <1>11, AheadSame DEF Rejoin, pool, hist, FifoInv
<1>12. CASE Assign
  <2> USE <1>12 DEF Assign, pool, hist
  <2>1. ~shutdown =>
            Covers(processed' \cup Ahead'[Len(queue)], position')
    BY AheadSame DEF FifoInv, Covers
  <2> QED BY <2>1, AheadSame, CoversEmpty DEF FifoInv
<1>13. ASSUME NEW t \in Threads, TakeBatch(t) PROVE FifoInv'
  <2> USE <1>13 DEF TakeBatch, consumerVars, hist
  <2> DEFINE n == Len(queue)
  <2>1. /\ n \in Nat /\ n # 0 /\ Len(queue') = n - 1
        /\ \A i \in 1 .. (n - 1) : queue'[i] = queue[i + 1]
        /\ 1 \in 1 .. n /\ Head(queue) = queue[1] /\ Head(queue) \in Batch
    OBVIOUS
  <2>2. t \in Runners /\ tstate[t] # "run" /\ cur[t] = {} /\ Ahead[0] = {}
    BY NothingRuns DEF PoolInv, Runners
  <2>3. Covers(processed, Head(queue).lo)
    <3>1. Covers(processed \cup Ahead[1 - 1], queue[1].lo)
      BY <2>1 DEF FifoInv
    <3> QED BY <2>1, <2>2, <3>1 DEF Covers
  <2>4. \A r \in Runners : Covers(processed', Progress'[r])
    <3>1. Covers(processed', Progress'[t])
      BY <2>1, <2>2, <2>3, StartProgress
    <3>2. ASSUME NEW r \in Runners, r # t PROVE Progress'[r] = Progress[r]
      BY <3>2 DEF StartWorker, Progress
    <3> QED BY <3>1, <3>2 DEF FifoInv
  <2>5. \A i \in 1 .. n : Ahead[i] \subseteq Ahead'[i - 1]
    BY TakeAhead
  <2>6. ASSUME NEW i \in 1 .. Len(queue')
        PROVE  Covers(processed' \cup Ahead'[i - 1], queue'[i].lo)
    <3>1. i \in 1 .. n /\ i + 1 \in 1 .. n /\ (i + 1) - 1 = i
      BY <2>1
    <3>2. Covers(processed \cup Ahead[i], queue[i + 1].lo)
      BY <3>1 DEF FifoInv
    <3>3. processed \cup Ahead[i] \subseteq processed' \cup Ahead'[i - 1]
      BY <2>5, <3>1
    <3> QED BY <2>1, <3>1, <3>2, <3>3, CoversMono
  <2>7. processed \cup Ahead[n] \subseteq
            processed' \cup Ahead'[Len(queue')]
    BY <2>1, <2>5
  <2>8. /\ cpc' = "submit" =>
               Covers(processed' \cup Ahead'[Len(queue')], hand'.lo)
        /\ ~shutdown' /\ cpc' # "submit" =>
               Covers(processed' \cup Ahead'[Len(queue')], position')
    BY <2>7, CoversMono DEF FifoInv
  <2>9. \A r \in Runners : cur'[r] \cap todo'[r] = {}
    BY <2>2 DEF FifoInv, StartWorker
  <2>10. \A s \in Threads : tstate'[s] # "new"
    BY <2>1 DEF FifoInv, StartWorker
  <2>11. UNCHANGED <<processed, committed, offsets, pending>>
    OBVIOUS
  <2> HIDE DEF n, TakeBatch
  <2> QED BY <2>4, <2>6, <2>8, <2>9, <2>10, <2>11 DEF FifoInv
<1>14. ASSUME NEW r \in Runners, Process(r) PROVE FifoInv'
  <2>1. \A i \in Nat :
            processed \cup Ahead[i] \subseteq processed' \cup Ahead'[i]
    BY <1>14, ProcessAhead
  <2>2. UNCHANGED <<cpc, position, hand, shutdown, queue, batch, offsets,
                    pending, committed, tstate>>
    BY <1>14 DEF Process, consumerVars
  <2>3. PICK p \in todo[r] :
            /\ processed' = processed \cup RecordsOf(batch[r], p)
            /\ todo' = [todo EXCEPT ![r] = @ \ {p}]
            /\ cur' = [cur EXCEPT ![r] = {p}]
    BY <1>14 DEF Process
  <2>4. \A s \in Runners : cur'[s] \cap todo'[s] = {}
    BY <2>3 DEF FifoInv
  <2>5. ASSUME NEW s \in Runners PROVE Covers(processed', Progress'[s])
    <3>1. CASE s # r
      <4>1. Progress'[s] = Progress[s]
        BY <2>2, <2>3, <3>1 DEF Progress
      <4> QED BY <2>3, <4>1, CoversMono DEF FifoInv
    <3>2. CASE s = r
      <4>1. ASSUME NEW q \in Partitions, NEW o \in Offset,
                   o < Progress'[r][q]
            PROVE  <<q, o>> \in processed'
        <5>1. CASE o < Progress[r][q]
          BY <2>3, <5>1 DEF FifoInv, Covers
        <5>2. CASE ~(o < Progress[r][q])
          <6>1. q = p /\ o < batch[r].hi[p] /\ ~(o < batch[r].lo[p])
            BY <2>2, <2>3, <4>1, <5>2 DEF Progress
          <6>2. Holds(batch[r], p, o)
            BY <6>1, LogEndAssumption DEF Holds, Batch, OffsetMap, Offset
          <6> QED BY <2>3, <6>1, <6>2 DEF RecordsOf
        <5> QED BY <5>1, <5>2
      <4> QED BY <3>2, <4>1 DEF Covers
    <3> QED BY <3>1, <3>2
  <2>6. ASSUME NEW i \in 1 .. Len(queue)
        PROVE  Covers(processed' \cup Ahead'[i - 1], queue[i].lo)
    <3>1. Covers(processed \cup Ahead[i - 1], queue[i].lo)
      BY DEF FifoInv
    <3>2. Len(queue) \in Nat
      OBVIOUS
    <3>3. i - 1 \in Nat
      BY <3>2
    <3> QED BY <2>1, <3>1, <3>3, CoversMono
  <2>7. /\ cpc = "submit" =>
               Covers(processed' \cup Ahead'[Len(queue)], hand.lo)
        /\ ~shutdown /\ cpc # "submit" =>
               Covers(processed' \cup Ahead'[Len(queue)], position)
    BY <2>1, CoversMono DEF FifoInv
  <2>8. processed \subseteq processed'
    BY <2>3
  <2> QED BY <2>2, <2>4, <2>5, <2>6, <2>7, <2>8, CoversMono DEF FifoInv
<1>15. ASSUME NEW r \in Runners, Report(r) PROVE FifoInv'
  <2> USE <1>15 DEF Report, consumerVars, hist
  <2>1. cpc' = cpc
    BY DEF CallerNeverRuns, PoolInv
  <2>2. PICK p \in cur[r] : offsets' = Reported(offsets, p, batch[r].hi[p])
    OBVIOUS
  <2>3. Covers(processed, offsets')
    <3>1. Progress[r][p] = batch[r].hi[p]
      BY <2>2 DEF FifoInv, Progress
    <3>2. \A o \in Offset : o < batch[r].hi[p] => <<p, o>> \in processed
      BY <3>1 DEF FifoInv, Covers
    <3> QED BY <2>2, <3>2 DEF FifoInv, Covers, Reported, OffsetMap
  <2>4. ASSUME NEW s \in Runners PROVE Covers(processed, Progress'[s])
    <3>1. \/ batch'[s] = batch[s]
          \/ todo[s] = {} /\ batch'[s] = NoBatch
      OBVIOUS
    <3>2. Progress'[s] = Progress[s] \/ Progress'[s] = EmptyMap
      BY <3>1 DEF Progress, NoBatch, EmptyMap
    <3> QED BY <3>2, CoversEmpty DEF FifoInv
  <2>5. Ahead' = Ahead
    BY DEF Ahead
  <2>6. UNCHANGED <<processed, committed, pending, queue, hand, position,
                    shutdown, todo>>
    OBVIOUS
  <2>7. /\ \A s \in Runners : cur'[s] \cap todo'[s] = {}
        /\ \A t \in Threads : tstate'[t] = tstate[t] \/ tstate'[t] = "idle"
    BY DEF FifoInv, Runners
  <2> HIDE DEF Report
  <2> QED BY <2>1, <2>3, <2>4, <2>5, <2>6, <2>7 DEF FifoInv
<1>16. CASE Wakeup
    BY <1>16, AheadSame DEF Wakeup, pool, hist, FifoInv
<1>17. CASE Shutdown
    BY <1>17, AheadSame DEF Shutdown, consumerVars, hist, FifoInv
<1>18. CASE Expel
    BY <1>18, AheadSame DEF Expel, consumerVars, pool, FifoInv
<1>19. ASSUME NEW p \in Partitions, OtherConsumes(p) PROVE FifoInv'
  <2> USE <1>19 DEF OtherConsumes, consumerVars, pool
  <2>1. \A i \in Nat : processed \cup Ahead[i] \subseteq
                             processed' \cup Ahead'[i]
    BY AheadSame
  <2>2. Covers(processed', committed')
    <3>1. PICK hi \in Offset :
              /\ processed' = processed \cup
                     ({p} \X {o \in Offset : committed[p] <= o /\ o < hi})
              /\ committed' = [committed EXCEPT ![p] = hi]
      OBVIOUS
    <3>2. ASSUME NEW q \in Partitions, NEW o \in Offset, o < committed'[q]
          PROVE  <<q, o>> \in processed'
      <4>1. CASE o < committed[q]
        BY <3>1, <4>1 DEF FifoInv, Covers
      <4>2. CASE ~(o < committed[q])
        <5>1. q = p /\ committed[p] <= o /\ o < hi
          BY <3>1, <3>2, <4>2, LogEndAssumption DEF OffsetMap, Offset
        <5> QED BY <3>1, <5>1
      <4> QED BY <4>1, <4>2
    <3> QED BY <3>2 DEF Covers
  <2>3. \A r \in Runners : Progress'[r] = Progress[r]
    BY DEF Progress
  <2>4. ASSUME NEW i \in 1 .. Len(queue)
        PROVE  Covers(processed' \cup Ahead'[i - 1], queue[i].lo)
    <3>1. Covers(processed \cup Ahead[i - 1], queue[i].lo)
      BY DEF FifoInv
    <3>2. Len(queue) \in Nat
      OBVIOUS
    <3>3. i - 1 \in Nat
      BY <3>2
    <3> QED BY <2>1, <3>1, <3>3, CoversMono
  <2>5. /\ cpc = "submit" =>
               Covers(processed' \cup Ahead'[Len(queue)], hand.lo)
        /\ ~shutdown /\ cpc # "submit" =>
               Covers(processed' \cup Ahead'[Len(queue)], position)
    BY <2>1, CoversMono DEF FifoInv
  <2>6. processed \subseteq processed'
    OBVIOUS
  <2> QED BY <2>2, <2>3, <2>4, <2>5, <2>6, CoversMono DEF FifoInv
<1>20. CASE Crash
  <2> USE <1>20 DEF Crash
  <2>1. \A r \in Runners : Progress'[r] = EmptyMap
    BY DEF Progress, NoBatch, EmptyMap
  <2> QED BY <2>1, CoversEmpty DEF FifoInv
<1>21. CASE Restart
    BY <1>21, AheadSame
       DEF Restart, consumerVars, pool, hist, FifoInv
<1>22. CASE UNCHANGED vars
    BY <1>22, AheadSame DEF vars, consumerVars, pool, hist, FifoInv
<1>23. QED
    BY <1>1, <1>2, <1>3, <1>4, <1>5, <1>6, <1>7, <1>8, <1>9, <1>10, <1>11,
       <1>12, <1>13, <1>14, <1>15, <1>16, <1>17, <1>18, <1>19, <1>20, <1>21,
       <1>22
    DEF Next, PollingThread, Worker, Environment, Terminated, Runners

\* kafka.md's promise, for a consumer with one pool thread whose work queue
\* never fills up: whatever rebalances, failed commits, close() and crashes
\* do, an offset is committed only after every record behind it has been
\* processed.
THEOREM OneThreadConsumesBeforeCommit ==
    ASSUME OneThread
    PROVE  Spec /\ []CallerNeverRuns => []ConsumedBeforeCommit
<1>1. Init => FifoInv
    BY CoversEmpty DEF Init, FifoInv, Progress, NoBatch, EmptyMap
<1>2. IInv /\ [Next]_vars => IInv'
    BY TypeStep, ControlStep, CoverStep DEF IInv
<1>3. IInv /\ FifoInv /\ CallerNeverRuns /\ CallerNeverRuns' /\ [Next]_vars
          => FifoInv'
    BY FifoStep DEF IInv
<1>4. FifoInv => ConsumedBeforeCommit
    BY DEF FifoInv, ConsumedBeforeCommit
<1> HIDE DEF OneThread
<1> QED BY InitInv, <1>1, <1>2, <1>3, <1>4, PTL DEF Spec

-----------------------------------------------------------------------------
\* Offset maps: the order is reflexive and transitive, the empty map is least.
LEMMA AtMostOrder ==
    /\ \A m \in OffsetMap : AtMost(m, m) /\ AtMost(EmptyMap, m)
    /\ \A m, n, k \in OffsetMap :
           AtMost(m, n) /\ AtMost(n, k) => AtMost(m, k)
    /\ \A m, n \in OffsetMap : AtMost(m, n) => AtMostKeys(m, n)
    /\ \A m \in OffsetMap :
           AtMostKeys(m, EmptyMap) /\ AtMostKeys(EmptyMap, m)
BY LogEndAssumption
   DEF AtMost, AtMostKeys, OffsetMap, Offset, EmptyMap, NoKey

\* Committing a map that is behind k over offsets behind k stays behind k.
LEMMA AtMostOverwrite ==
    ASSUME NEW m \in OffsetMap, NEW n \in OffsetMap, NEW k \in OffsetMap
    PROVE  /\ AtMost(m, k) /\ AtMost(n, k) => AtMost(Overwrite(m, n), k)
           /\ AtMostKeys(m, k) /\ AtMostKeys(n, k) =>
                  AtMostKeys(Overwrite(m, n), k)
           /\ AtMostKeys(m, n) => AtMost(m, Overwrite(m, n))
BY LogEndAssumption
   DEF AtMost, AtMostKeys, Overwrite, OffsetMap, Offset, NoKey

\* The offsets in the consumer are offset maps.
LEMMA OffsetTypes ==
    ASSUME TypeOK
    PROVE  /\ Own \in OffsetMap /\ pending \in OffsetMap
           /\ offsets \in OffsetMap /\ position \in OffsetMap
           /\ committed \in OffsetMap /\ EmptyMap \in OffsetMap
           /\ \A r \in Runners : batch[r].hi \in OffsetMap
           /\ \A i \in 1 .. Len(queue) : queue[i].hi \in OffsetMap
<1>1. Own \in OffsetMap
    BY LogEndAssumption DEF TypeOK, Own, OffsetMap, Offset, NoKey
<1>2. \A r \in Runners : batch[r].hi \in OffsetMap
    BY DEF TypeOK, Batch
<1>3. ASSUME NEW i \in 1 .. Len(queue) PROVE queue[i].hi \in OffsetMap
  <2>1. queue[i] \in Batch
    BY DEF TypeOK
  <2> QED BY <2>1 DEF Batch
<1> QED BY <1>1, <1>2, <1>3, EmptyTypes DEF TypeOK

\* Until the first rebalance a process that is not a member has polled nothing.
LEMMA JoinStep ==
    TypeOK /\ PoolInv /\ JoinInv /\ [Next]_vars /\ rebalances' = rebalances
        => JoinInv'
<1> SUFFICES ASSUME TypeOK, PoolInv, JoinInv, [Next]_vars,
                    rebalances' = rebalances
             PROVE  JoinInv'
    OBVIOUS
<1> USE DEF TypeOK, JoinInv
<1>1. CASE PollRecords
  <2> USE <1>1 DEF PollRecords, pool, hist
  <2>1. PICK hi \in OffsetMap :
            /\ \A p \in Partitions \ assigned : hi[p] = position[p]
            /\ hi # position /\ position' = hi
    OBVIOUS
  <2>2. member
    BY <2>1 DEF OffsetMap
  <2> QED BY <2>1, <2>2
<1>2. CASE PollNothing
    BY <1>2 DEF PollNothing, consumerVars, pool, hist
<1>3. CASE Submit
    BY <1>3 DEF Submit, consumerVars, hist
<1>4. CASE TakeOffsets
    BY <1>4 DEF TakeOffsets, consumerVars, pool, hist
<1>5. CASE CommitSync
    BY <1>5 DEF CommitSync, consumerVars, pool, hist
<1>6. CASE CommitSyncThrows
    BY <1>6 DEF CommitSyncThrows, pool, hist
<1>7. CASE PollWakeup
    BY <1>7 DEF PollWakeup, pool, hist
<1>8. CASE CloseConsumer
    BY <1>8 DEF CloseConsumer, pool, hist
<1>9. CASE Revoke \/ RevokeThrows \/ Expel
    BY <1>9 DEF Revoke, RevokeThrows, Expel
<1>10. CASE Rejoin
    BY <1>10 DEF Rejoin, pool, hist
<1>11. CASE Assign
    BY <1>11 DEF Assign, pool, hist
<1>12. ASSUME NEW t \in Threads, TakeBatch(t) PROVE JoinInv'
    BY <1>12 DEF TakeBatch, consumerVars, hist
<1>13. ASSUME NEW r \in Runners, Process(r) PROVE JoinInv'
    BY <1>13 DEF Process, consumerVars
<1>14. ASSUME NEW r \in Runners, Report(r) PROVE JoinInv'
    BY <1>14 DEF Report, PoolInv, consumerVars, hist
<1>15. CASE Wakeup
    BY <1>15 DEF Wakeup, pool, hist
<1>16. CASE Shutdown
    BY <1>16 DEF Shutdown, consumerVars, hist
<1>17. ASSUME NEW p \in Partitions, OtherConsumes(p) PROVE JoinInv'
    BY <1>17 DEF OtherConsumes, consumerVars, pool
<1>18. CASE Crash
    BY <1>18 DEF Crash, FreshThreads, EmptyMap
<1>19. CASE Restart
    BY <1>19 DEF Restart, consumerVars, pool, hist
<1>20. CASE UNCHANGED vars
    BY <1>20 DEF vars, consumerVars, pool, hist
<1> QED
    BY <1>1, <1>2, <1>3, <1>4, <1>5, <1>6, <1>7, <1>8, <1>9, <1>10, <1>11,
       <1>12, <1>13, <1>14, <1>15, <1>16, <1>17, <1>18, <1>19, <1>20
    DEF Next, PollingThread, Worker, Environment, Terminated, Runners

\* Until the first rebalance every step keeps the offsets in the order in
\* which they travel from poll() to the coordinator.
LEMMA OrderStep ==
    ASSUME OneThread, TypeOK, TypeOK', PoolInv, FifoInv, CallerNeverRuns,
           CallerNeverRuns', JoinInv, JoinInv', OrderInv, [Next]_vars,
           rebalances' = rebalances
    PROVE  OrderInv'
<1>0. /\ Own \in OffsetMap /\ pending \in OffsetMap
      /\ offsets \in OffsetMap /\ position \in OffsetMap
      /\ committed \in OffsetMap /\ EmptyMap \in OffsetMap
      /\ \A r \in Runners : batch[r].hi \in OffsetMap
      /\ \A i \in 1 .. Len(queue) : queue[i].hi \in OffsetMap
    BY OffsetTypes
<1>00. /\ Own' \in OffsetMap /\ position' \in OffsetMap
       /\ \A r \in Runners : batch'[r].hi \in OffsetMap
       /\ \A i \in 1 .. Len(queue') : queue'[i].hi \in OffsetMap
  <2>1. Own' \in OffsetMap /\ position' \in OffsetMap
    BY LogEndAssumption DEF TypeOK, Own, OffsetMap, Offset, NoKey
  <2>2. \A r \in Runners : batch'[r].hi \in OffsetMap
    BY DEF TypeOK, Batch
  <2>3. ASSUME NEW i \in 1 .. Len(queue') PROVE queue'[i].hi \in OffsetMap
    <3>1. queue'[i] \in Batch
      BY DEF TypeOK
    <3> QED BY <3>1 DEF Batch
  <2> QED BY <2>1, <2>2, <2>3
<1>1. CASE PollRecords
  <2> USE <1>1 DEF PollRecords, pool, hist
  <2>1. AtMost(position, position') /\ Own' = Own
    BY DEF AtMost, Own
  <2>2. UNCHANGED <<pending, offsets, tstate, batch, queue>>
    OBVIOUS
  <2> QED BY <1>0, <1>00, <2>1, <2>2, AtMostOrder DEF OrderInv
<1>2. CASE \/ PollNothing \/ PollWakeup \/ Wakeup \/ Shutdown \/ Restart
           \/ UNCHANGED vars \/ \E r \in Runners : Process(r)
  <2>1. UNCHANGED <<pending, offsets, position, tstate, batch, queue, committed,
                    assigned>>
    BY <1>2 DEF PollNothing, PollWakeup, Wakeup, Shutdown, Restart, Process,
                vars, consumerVars, pool
  <2>2. Own' = Own
    BY <2>1 DEF Own
  <2> QED BY <2>1, <2>2 DEF OrderInv
<1>3. CASE Submit
  <2>0. /\ UNCHANGED <<pending, offsets, position, committed, assigned>>
        /\ position = hand.hi
    BY <1>3 DEF Submit, PoolInv, consumerVars
  <2>1. Own' = Own
    BY <2>0 DEF Own
  <2>2. ASSUME NEW t \in Threads, tstate[t] = "new", StartWorker(t, hand),
               UNCHANGED queue
        PROVE  OrderInv'
    <3>1. queue = << >> /\ t \in Runners
      BY <2>2 DEF FifoInv, Runners
    <3>2. ASSUME NEW r \in Runners, tstate'[r] = "run"
          PROVE  batch'[r].hi = position
      BY <2>0, <2>2, <3>1, <3>2, NothingRuns DEF StartWorker, TypeOK
    <3> QED
      BY <1>0, <2>0, <2>1, <2>2, <3>1, <3>2, AtMostOrder DEF OrderInv
  <2>3. CASE queue' = Append(queue, hand) /\ UNCHANGED <<tstate, batch, todo>>
    <3>1. /\ Len(queue) \in Nat /\ Len(queue') = Len(queue) + 1
          /\ queue'[Len(queue) + 1].hi = position
          /\ \A i \in 1 .. Len(queue) : queue'[i] = queue[i]
      BY <2>0, <2>3 DEF TypeOK
    <3>2. \A i \in 1 .. Len(queue') :
              \/ i \in 1 .. Len(queue) /\ queue'[i] = queue[i]
              \/ i = Len(queue) + 1 /\ queue'[i].hi = position
      BY <3>1
    <3>3. ASSUME NEW m \in OffsetMap, AtMost(m, position),
                 \A i \in 1 .. Len(queue) : AtMost(m, queue[i].hi)
          PROVE  \A i \in 1 .. Len(queue') : AtMost(m, queue'[i].hi)
      BY <3>2, <3>3
    <3>4. /\ \A m \in {Own, pending, offsets} :
                 \A i \in 1 .. Len(queue') : AtMost(m, queue'[i].hi)
          /\ \A r \in Runners : tstate[r] = "run" =>
                 \A i \in 1 .. Len(queue') : AtMost(batch[r].hi, queue'[i].hi)
      BY <1>0, <3>3 DEF OrderInv
    <3>5. ASSUME NEW i \in 1 .. Len(queue'), NEW j \in i .. Len(queue')
          PROVE  AtMost(queue'[i].hi, queue'[j].hi) /\ AtMost(queue'[i].hi, position)
      <4>1. CASE i = Len(queue) + 1
        BY <1>0, <3>1, <4>1, AtMostOrder
      <4>2. CASE i \in 1 .. Len(queue) /\ j \in i .. Len(queue)
        <5>1. j \in 1 .. Len(queue)
          BY <3>1, <4>2
        <5> QED BY <3>1, <4>2, <5>1 DEF OrderInv
      <4>3. CASE i \in 1 .. Len(queue) /\ j = Len(queue) + 1
        BY <3>1, <4>3 DEF OrderInv
      <4> QED BY <3>1, <4>1, <4>2, <4>3
    <3>6. \A i \in 1 .. Len(queue') : i \in i .. Len(queue')
      BY <3>1
    <3> QED BY <2>0, <2>1, <2>3, <3>4, <3>5, <3>6 DEF OrderInv
  <2>4. CASE UNCHANGED <<queue, tstate, batch, todo>>
    BY <2>0, <2>1, <2>4 DEF OrderInv
  <2> QED BY <1>3, <2>2, <2>3, <2>4 DEF Submit, CallerNeverRuns
<1>4. CASE TakeOffsets
  <2> USE <1>4 DEF TakeOffsets, consumerVars, pool
  <2>1. Own' = Own /\ UNCHANGED <<position, tstate, batch, queue>>
    BY DEF Own
  <2>2. \/ UNCHANGED <<offsets, pending>>
        \/ pending' = offsets /\ offsets' = EmptyMap
    OBVIOUS
  <2> HIDE DEF TakeOffsets
  <2> QED BY <1>0, <2>1, <2>2, AtMostOrder DEF OrderInv
<1>5. CASE CommitSync \/ CommitSyncThrows
  <2> USE <1>5 DEF CommitSync, CommitSyncThrows, consumerVars, pool
  <2>1. /\ UNCHANGED <<position, assigned, offsets, tstate, batch, queue>>
        /\ pending' = EmptyMap
        /\ committed' = committed \/ committed' = Overwrite(committed, pending)
    OBVIOUS
  <2>2. \A p \in Partitions \ assigned : pending[p] = NoKey
    <3>1. cpc # "closed" /\ AtMost(pending, position)
      BY DEF OrderInv
    <3> QED BY <1>0, <3>1, LogEndAssumption
            DEF JoinInv, AtMost, OffsetMap, Offset, NoKey
  <2>3. Own' = Own \/ Own' = Overwrite(Own, pending)
    BY <2>1, <2>2 DEF Own, Overwrite
  <2> HIDE DEF CommitSync, CommitSyncThrows
  <2>4. CASE Own' = Own
    BY <1>0, <2>1, <2>4, AtMostOrder DEF OrderInv
  <2>5. CASE Own' = Overwrite(Own, pending)
    <3>1. \A k \in OffsetMap :
              /\ AtMost(Own, k) /\ AtMost(pending, k) => AtMost(Own', k)
              /\ AtMostKeys(Own, k) /\ AtMostKeys(pending, k) =>
                     AtMostKeys(Own', k)
      BY <1>0, <2>5, AtMostOverwrite
    <3>2. /\ AtMost(Own', position)
          /\ AtMostKeys(Own', offsets)
          /\ \A r \in Runners : tstate[r] = "run" => AtMost(Own', batch[r].hi)
          /\ \A i \in 1 .. Len(queue) : AtMost(Own', queue[i].hi)
      BY <1>0, <3>1 DEF OrderInv
    <3> QED BY <1>0, <1>00, <2>1, <3>2, AtMostOrder DEF OrderInv
  <2> QED BY <2>3, <2>4, <2>5
<1>6. CASE CloseConsumer
  <2> USE <1>6 DEF CloseConsumer, pool
  <2>1. Own' = EmptyMap
    BY DEF Own, EmptyMap
  <2>2. UNCHANGED <<pending, offsets, position, tstate, batch, queue>>
    OBVIOUS
  <2> QED BY <1>0, <2>1, <2>2, AtMostOrder DEF OrderInv
<1>7. CASE Revoke \/ RevokeThrows \/ Expel
    BY <1>7 DEF Revoke, RevokeThrows, Expel, TypeOK
<1>8. CASE Rejoin
  <2> USE <1>8 DEF Rejoin, pool
  <2>1. Own' = Own
    BY DEF Own, JoinInv
  <2>2. UNCHANGED <<pending, offsets, position, tstate, batch, queue>>
    OBVIOUS
  <2> QED BY <2>1, <2>2 DEF OrderInv
<1>9. CASE Assign
  <2> USE <1>9 DEF Assign, pool
  <2>1. /\ queue = << >> /\ \A r \in Runners : tstate[r] # "run"
        /\ \A p \in Partitions : position[p] = NoKey
    BY DEF JoinInv
  <2>2. pending = EmptyMap
    <3>1. AtMost(pending, position)
      BY DEF OrderInv
    <3> QED BY <1>0, <2>1, <3>1, LogEndAssumption
            DEF AtMost, EmptyMap, OffsetMap, Offset, NoKey
  <2>3. AtMost(Own', position')
    BY <1>0, LogEndAssumption DEF AtMost, Own, OffsetMap, Offset, NoKey
  <2>4. /\ offsets' = EmptyMap /\ UNCHANGED <<pending, tstate, queue>>
    OBVIOUS
  <2> HIDE DEF Assign
  <2> QED BY <1>0, <1>00, <2>1, <2>2, <2>3, <2>4, AtMostOrder DEF OrderInv
<1>10. ASSUME NEW t \in Threads, TakeBatch(t) PROVE OrderInv'
  <2> USE <1>10 DEF TakeBatch, consumerVars
  <2>1. /\ Len(queue) \in Nat /\ 1 \in 1 .. Len(queue)
        /\ Len(queue') = Len(queue) - 1
        /\ \A i \in 1 .. Len(queue') :
               i + 1 \in 1 .. Len(queue) /\ queue'[i] = queue[i + 1]
        /\ Head(queue) = queue[1]
    BY DEF TypeOK
  <2>2. Own' = Own /\ UNCHANGED <<pending, offsets, position>>
    BY DEF Own
  <2>3. ASSUME NEW r \in Runners, tstate'[r] = "run"
        PROVE  batch'[r] = queue[1]
    BY <2>1, <2>3, NothingRuns DEF StartWorker, TypeOK, Runners
  <2>4. ASSUME NEW i \in 1 .. Len(queue')
        PROVE  /\ AtMost(queue'[i].hi, position)
               /\ AtMost(queue[1].hi, queue'[i].hi)
               /\ \A m \in {Own, pending, offsets} : AtMost(m, queue'[i].hi)
    <3>1. i + 1 \in 1 .. Len(queue) /\ queue'[i] = queue[i + 1]
          /\ i + 1 \in 1 .. Len(queue)
      BY <2>1
    <3> QED BY <2>1, <3>1 DEF OrderInv
  <2>5. ASSUME NEW i \in 1 .. Len(queue'), NEW j \in i .. Len(queue')
        PROVE  AtMost(queue'[i].hi, queue'[j].hi)
    <3>1. /\ i + 1 \in 1 .. Len(queue) /\ j + 1 \in (i + 1) .. Len(queue)
          /\ queue'[i] = queue[i + 1] /\ queue'[j] = queue[j + 1]
      BY <2>1
    <3> QED BY <3>1 DEF OrderInv
  <2> HIDE DEF TakeBatch
  <2>6. /\ AtMost(queue[1].hi, position)
        /\ \A m \in {Own, pending, offsets} : AtMost(m, queue[1].hi)
    BY <2>1 DEF OrderInv
  <2> QED BY <2>2, <2>3, <2>4, <2>5, <2>6 DEF OrderInv
<1>11. ASSUME NEW r \in Runners, Report(r) PROVE OrderInv'
  <2> USE <1>11 DEF Report, consumerVars
  <2>1. PICK p \in cur[r] : offsets' = Reported(offsets, p, batch[r].hi[p])
    OBVIOUS
  <2>2. /\ Own' = Own /\ UNCHANGED <<pending, position, queue>>
        /\ tstate[r] = "run" /\ p \in Partitions
        /\ \A s \in Runners : tstate'[s] = "run" =>
               tstate[s] = "run" /\ batch'[s] = batch[s]
    BY <2>1 DEF Own, TypeOK
  <2>3. ASSUME NEW s \in Runners, tstate[s] = "run" PROVE s = r
    BY <2>2, <2>3 DEF OneThread, CallerNeverRuns, PoolInv, Runners
  <2>4. \A k \in OffsetMap :
            AtMost(offsets, k) /\ AtMost(batch[r].hi, k) => AtMost(offsets', k)
    BY <1>0, <2>1 DEF Reported, AtMost, OffsetMap
  <2>5. \A m \in OffsetMap :
            AtMostKeys(m, offsets) /\ AtMost(m, batch[r].hi) =>
                AtMostKeys(m, offsets')
    BY <1>0, <2>1 DEF Reported, AtMost, AtMostKeys, OffsetMap
  <2> HIDE DEF Report
  <2>6. /\ AtMost(offsets', position) /\ AtMost(offsets', batch[r].hi)
        /\ \A i \in 1 .. Len(queue) : AtMost(offsets', queue[i].hi)
    BY <1>0, <2>2, <2>4, AtMostOrder DEF OrderInv
  <2>7. AtMostKeys(Own, offsets') /\ AtMostKeys(pending, offsets')
    BY <1>0, <2>2, <2>5 DEF OrderInv
  <2> QED BY <2>2, <2>3, <2>6, <2>7 DEF OrderInv
<1>12. ASSUME NEW p \in Partitions, OtherConsumes(p) PROVE OrderInv'
  <2> USE <1>12 DEF OtherConsumes, consumerVars, pool
  <2>1. Own' = Own
    BY <1>0 DEF Own, JoinInv, OffsetMap
  <2>2. UNCHANGED <<pending, offsets, position, tstate, batch, queue>>
    OBVIOUS
  <2> QED BY <2>1, <2>2 DEF OrderInv
<1>13. CASE Crash
  <2> USE <1>13 DEF Crash
  <2>1. Own' = EmptyMap
    BY DEF Own, EmptyMap
  <2>2. \A r \in Runners : tstate'[r] # "run"
    BY DEF FreshThreads
  <2>3. /\ pending' = EmptyMap /\ offsets' = EmptyMap /\ position' = EmptyMap
        /\ queue' = << >>
    OBVIOUS
  <2> HIDE DEF Crash
  <2> QED BY <1>0, <2>1, <2>2, <2>3, AtMostOrder DEF OrderInv
<1> QED
    BY <1>1, <1>2, <1>3, <1>4, <1>5, <1>6, <1>7, <1>8, <1>9, <1>10, <1>11,
       <1>12, <1>13
    DEF Next, PollingThread, Worker, Environment, Terminated, Runners

\* Until the first rebalance no step moves a committed offset back: commits
\* of this process and the listener's commit write offsets that are further
\* on, and other members write only partitions that are not ours.
LEMMA ForwardStep ==
    ASSUME TypeOK, JoinInv, OrderInv, [Next]_vars
    PROVE  AtMost(committed, committed')
<1>0. /\ Own \in OffsetMap /\ pending \in OffsetMap /\ offsets \in OffsetMap
      /\ position \in OffsetMap /\ committed \in OffsetMap
    BY OffsetTypes
<1>1. ASSUME NEW m \in OffsetMap, AtMost(m, position), AtMostKeys(Own, m),
             cpc # "closed"
      PROVE  AtMost(committed, Overwrite(committed, m))
  <2>1. AtMostKeys(committed, m)
    BY <1>0, <1>1, LogEndAssumption
       DEF JoinInv, AtMost, AtMostKeys, Own, OffsetMap, Offset, NoKey
  <2> QED BY <1>0, <2>1, AtMostOverwrite
<1>2. CASE CommitSync \/ CommitSyncThrows
  <2>1. cpc # "closed"
    BY <1>2 DEF CommitSync, CommitSyncThrows
  <2>2. AtMost(committed, Overwrite(committed, pending))
    BY <1>0, <1>1, <2>1 DEF OrderInv
  <2> QED BY <1>0, <1>2, <2>2, AtMostOrder DEF CommitSync, CommitSyncThrows
<1>3. CASE (Revoke \/ RevokeThrows) /\ committed' # committed
  <2>1. PICK m \in ListenerCopies : committed' = Overwrite(committed, m)
    BY <1>3 DEF Revoke, RevokeThrows
  <2>2. m \in OffsetMap /\ cpc # "closed"
    BY <1>0, <1>3, <2>1, ListenerCopiesType DEF Revoke, RevokeThrows
  <2>3. \A p \in Partitions : m[p] = NoKey \/ m[p] = offsets[p]
    BY <2>1 DEF ListenerCopies, SubMaps
  <2>4. AtMost(m, position) /\ AtMostKeys(Own, m)
    <3>1. AtMost(offsets, position) /\ AtMostKeys(Own, offsets)
      BY DEF OrderInv
    <3>2. \A p \in Partitions : position[p] \in Nat /\ NoKey <= position[p]
      BY <1>0, LogEndAssumption DEF OffsetMap, Offset, NoKey
    <3> QED BY <2>3, <3>1, <3>2 DEF AtMost, AtMostKeys
  <2> QED BY <1>1, <2>1, <2>2, <2>4
<1>4. ASSUME NEW p \in Partitions, OtherConsumes(p)
      PROVE  AtMost(committed, committed')
    BY <1>0, <1>4, LogEndAssumption DEF OtherConsumes, AtMost, OffsetMap, Offset
<1>5. CASE committed' = committed
    BY <1>0, <1>5, AtMostOrder
<1> QED
    BY <1>2, <1>3, <1>4, <1>5
    DEF Next, PollingThread, Worker, Environment, Terminated, vars,
        PollRecords, PollNothing, Submit, TakeOffsets, PollWakeup,
        CloseConsumer, Rejoin, Assign, TakeBatch, Process, Report, Wakeup,
        Shutdown, Expel, Crash, Restart

\* For a consumer with one pool thread whose work queue never fills up: until
\* the first rebalance neither commitOffsets(), nor the commit of a rebalance
\* listener, nor a restart after a crash moves a committed offset back.
THEOREM OneThreadCommitsForward ==
    ASSUME OneThread
    PROVE  Spec /\ []CallerNeverRuns => CommitNeverRegresses
<1> DEFINE Inv == IInv /\ FifoInv /\ ChainInv
           Forward == rebalances = 0 =>
               \A p \in Partitions : committed[p] <= committed'[p]
<1>1. Init => Inv
  <2> SUFFICES ASSUME Init PROVE FifoInv /\ ChainInv
    BY InitInv
  <2>1. FifoInv
    BY CoversEmpty DEF Init, FifoInv, Progress, NoBatch, EmptyMap
  <2>2. JoinInv
    BY DEF Init, JoinInv, FreshThreads, EmptyMap
  <2>3. OrderInv
    <3>1. Own = EmptyMap /\ \A r \in Runners : tstate[r] # "run"
      BY DEF Init, Own, EmptyMap, FreshThreads
    <3> QED BY <3>1, EmptyTypes, AtMostOrder DEF Init, OrderInv
  <2> QED BY <2>1, <2>2, <2>3 DEF ChainInv
<1>2. Inv /\ CallerNeverRuns /\ CallerNeverRuns' /\ [Next]_vars => Inv'
  <2> SUFFICES ASSUME Inv, CallerNeverRuns, CallerNeverRuns', [Next]_vars
               PROVE  Inv'
    OBVIOUS
  <2>1. IInv' /\ FifoInv'
    BY TypeStep, ControlStep, CoverStep, FifoStep DEF IInv
  <2>2. rebalances' = 0 => rebalances = 0 /\ rebalances' = rebalances
    <3>1. rebalances' = rebalances \/ rebalances' = rebalances + 1
      BY DEF Next, PollingThread, Worker, Environment, Terminated, vars, hist,
          PollRecords, PollNothing, Submit, TakeOffsets, CommitSync,
          CommitSyncThrows, PollWakeup, CloseConsumer, Revoke, RevokeThrows,
          Rejoin, Assign, TakeBatch, Process, Report, Wakeup, Shutdown, Expel,
          OtherConsumes, Crash, Restart
    <3> QED BY <3>1 DEF IInv, TypeOK
  <2>3. ASSUME rebalances' = 0 PROVE JoinInv' /\ OrderInv'
    <3>1. JoinInv /\ OrderInv /\ rebalances' = rebalances
      BY <2>2, <2>3 DEF ChainInv
    <3>2. JoinInv'
      BY <3>1, JoinStep DEF IInv
    <3> QED BY <2>1, <3>1, <3>2, OrderStep DEF IInv
  <2> QED BY <2>1, <2>3 DEF ChainInv
<1>3. Inv /\ [Next]_vars => [Forward]_vars
    BY ForwardStep DEF IInv, ChainInv, AtMost
<1> HIDE DEF Inv, Forward, OneThread
<1>4. Spec /\ []CallerNeverRuns => [][Forward]_vars
    BY <1>1, <1>2, <1>3, PTL DEF Spec
<1> QED BY <1>4 DEF CommitNeverRegresses, Forward
=============================================================================
