# TLA+ models of GOOD-GOOD-STUDY

The repository is a study notebook: exercises, notes, vendored sources and a
number of small programs of its own.  This project models the programs that have
a protocol or an algorithm worth verifying: threads, processes, frames or group
members that share state, and a program transformation with two scripts against it.  It
consists of TLA+ modules, TLC configurations and proofs checked by TLAPS.

| file | content |
|---|---|
| `OneToMany.tla`, `OneToMany_proofs.tla`, `MCOneToMany.tla`, `OneToMany_*.cfg` | Kafka consumer with a worker pool |
| `ProxyPool.tla`, `ProxyPool_proofs.tla`, `MCProxyPool.tla`, `ProxyPool_*.cfg` | proxy pool on a Redis sorted set |
| `AccountPool.tla`, `AccountPool_proofs.tla`, `MCAccountPool.tla`, `AccountPool_refill.cfg` | account pool on two Redis hashes |
| `HookCache.tla`, `HookCache_proofs.tla`, `MCHookCache.tla`, `HookCache_proxy.cfg` | memorySearch: the rewriting proxy and its file cache |
| `FrameSearch.tla`, `FrameSearch_proofs.tla`, `MCFrameSearch.tla`, `FrameSearch_flood.cfg` | memorySearch: a search that floods the frames of a page |
| `StraightLine.tla`, `Flattening.tla`, `Flattening_proofs.tla`, `MCFlattening.tla`, `Flattening_body.cfg` | control-flow flattening, what it must implement, and two restorers |
| `ChatServer.tla`, `ChatServer_proofs.tla`, `MCChatServer.tla`, `ChatServer_chat.cfg` | chat server, a thread per client |
| `EchoReactor.tla`, `MCEchoReactor.tla`, `EchoReactor_echo.cfg` | the two non-blocking echo servers |
| `OneSlot.tla`, `Account.tla`, `MCAccount.tla`, `Account_turns.cfg` | bank account with a condition variable, and what it implements |
| `JavaThreads_proofs.tla` | proofs about the echo servers and the account |
| `PROJECT.json` | runs, mutants, map from definitions to source lines, hazards, findings, theorems |

`tlc -config OneToMany_pool.cfg MCOneToMany` checks a run, `tlapm
OneToMany_proofs.tla` a proof module.  In the modules a definition whose comment
begins "Mutant of X" is X with a plausible bug; it is used by no specification and
only shows that a property would notice the bug.

## 1. Inventory

**Kafka consumer, one consumer and many workers**
(`Foundation/MQ/kafka/java/.../multiThread/OneToMany.java`).  State: the
KafkaConsumer (fetch positions, assignment, pending wakeup), the executor with its
bounded queue, the map `offsets` shared by workers and polling thread.
Operations: `consume`, `commitOffsets`, `close`, the two callbacks of the rebalance
listener, `ConsumerWorker.run`.  The polling thread hands batches to the executor;
workers answer through the map; the coordinator calls the listener from within
`poll`.  Hard: batches finish out of order, the listener ignores the lock, the
full queue turns the polling thread into a worker, commits fail after the map was
cleared, `close` races with everything.  Correct when no record behind a committed
offset is forgotten and when `close` ends the program.

**ProxyPool** (`Language/python/spider/util/ProxyPool/proxypool`).  State: one
sorted set in Redis.  Getter, tester and server are processes (or replicas of
pods) that talk through it alone.  `add`, `decrease` and `random` are sequences of
Redis commands without a transaction; the tester works on snapshots that ZSCAN
returned.  Hard: everything between two commands, kills included.  Correct when
exhausted proxies and only those leave, when neither `max` nor `decrease` brings a
removed proxy back, when dead proxies leave, when the API prefers tested proxies.

**AccountPool** (`Language/python/spider/util/AccountPool`).  State: two Redis hashes,
accounts and credentials, per site.  The generator logs accounts in and stores what
the site gives; the tester tries stored credentials and deletes one whenever the site
answers with a status other than 200; the server adds accounts.  Scheduler or supervisord start the processes.  Hard: the
tester deletes by user name what it judged by an older read, the generator stores
after a login that takes a while, an exception ends a process.  Correct when no
stored credential is replaced, only the tested one is deleted, and every account gets an
accepted one again.

**memorySearch** (`Language/python/spider/逆向/知识点/ast/memorySearch`), a proxy
that rewrites the JavaScript of pages so that assignments call a hook.  Three parts
of it carry state.  The proxy (`global-assign-hook-component-main.js`, `rules.js`)
stores rewritten scripts in files, lists them in `meta.jsonl` and keeps the list in
a Map.  The plugins manager puts the code of the plugins in front of them and
caches it by time.  The search plugin, which runs in every frame of the page, passes a
search on to parent and iframes with `postMessage`.  Hard: a process that ends between two
writes, files that are torn, exceptions that are swallowed half way, messages that
come back, two searches in one millisecond.  Correct when the cache survives
restarts and serves a URL its own code, when rewritten code has its hook, when each
frame searches exactly once and the messages die out.

**Control-flow flattening** (`ast/study/逻辑混淆/1.流程平坦化.js`) shuffles the
statements of a function into the cases of a switch in a loop; two scripts
(`4.还原流程平坦化.js`, `反控制流平坦化.js`) put code that others flattened in this
way back in order, each for one way of writing the loop.  Hard: two permutations that
are each other's inverse, indices of an in-place shuffle, random numbers.  Correct
when the flattened function does what the original did, and when a restorer that takes
the code restores the order of its statements.

**Chat server** (`Language/java/internet/d9_chat`).  A thread per client, a plain
`HashMap` of online sockets that all of them read and write, sockets that all of them
write to, and no lock.  Login, message to all or to one, departure; any exception takes
the client of that thread offline.  Hard: updates of the map that overlap with each other
or with an iteration, two threads that write to one socket, lists that cross.
Correct when a departed client is removed and the others learn of it.

**Echo servers** (`Language/java/toBeJavaer/.../io/reactor`).  `EchoServerReactor` is
one thread with a selector; `MultiThreadEchoServerReactor` has a boss that accepts
and two workers that run `MultiThreadEchoHandler`.  State: per connection a buffer
and what it is waiting for.  Hard: partial reads and writes, end of stream, resets,
a handler that is registered before its constructor is through.  Correct when every
byte received is sent back.

**Bank account** (`Language/java/thread/ThreadCommunication_10` and `_11`).  State:
balance, flag, one condition that both sides await.  Hard: `if` instead of
`while`, spurious wakeups, one condition for both sides.  Correct when deposits
and draws alternate and the two sides never wait for each other.

**Smaller ones**, not modelled: `BlockingQueueTest_12` (producers and consumers over
a library queue), `Tools_15/PubSub` (a wait that may come after its notification),
`OneToOne` (a consumer per thread, nothing shared), the LRU cache of LeetCode 146.

The programs do not call each other, so no module composes two of them; within a
program the components (getter, tester, server; proxy, cache, plugins; boss,
workers, clients) are composed in one module, since what is hard is between them.

## 2. Modules

### OneToMany

The polling thread is the variable `cpc`; its values are the places between two
calls that can block or interleave.

| code | action |
|---|---|
| `poll` returns records / nothing / throws WakeupException | `PollRecords`, `PollNothing`, `PollWakeup` |
| `executors.submit` with CallerRunsPolicy | `Submit`: new core thread, queue, caller runs, or dropped after shutdown |
| synchronized block of `commitOffsets` | `TakeOffsets` |
| `commitSync(unmodfiedMap)` | `CommitSync`, `CommitSyncThrows` |
| `finally` | the states `finally`, `finallySync`, `close`, `closed`, `dead` of the same actions, `CloseConsumer` |
| `onPartitionsRevoked`, `onPartitionsAssigned` | `Revoke`, `RevokeThrows`, `Rejoin`, `Assign` |
| `ConsumerWorker.run` | `TakeBatch`, `Process` (one partition), `Report` (its synchronized block) |
| `close` called by `main` | `Wakeup`, `Shutdown` |
| coordinator, other members, process death | `Expel`, `OtherConsumes`, `Crash`, `Restart` |

A record is a partition and an offset.  A batch is, per partition, an interval of
offsets.  The map `offsets` is a total function with 0 for "no key", since a
reported offset is at least 1.  The unsynchronized copy in the listener is a data
race on a `HashMap`: while a worker has a report outstanding the copy may miss
entries or throw.  `commitSync` throws after an expulsion, on a wakeup, or at any time on
a timeout, whether or not the request has reached the broker; in the listener it does so
too (`RevokeThrows`).  `processed` and `lost` are history variables.  `processed`
contains what other group members processed, since an offset they commit is as
good as one of ours.

### ProxyPool

Each Redis command is one step.  A step of a process is named after the operation
and the command: `AddExists`, `AddZadd`, `DecreaseZscore`, `DecreaseZrem`;
`TestValid` is `max`, `TestInvalid` the ZINCRBY of `decrease`.  `decrease` does not
await, so the other tests of the same batch stand still while it is under way;
tests of another tester do not.  ZSCAN guarantees that a full iteration returns each
member that is present throughout: `must` holds those it has yet to return.
`Convert` (the constant `Canon`) is what `convert_proxy_or_proxies` does to an address
on the way out of Redis: `int(port)` drops leading zeros, which `add` kept.  The
tests of the proxies in `OtherErrors` may raise an exception that is not in
`EXCEPTIONS`.  `zrevrange` receives scores as ranks, and so does `TopRanked`.

Left out: `is_valid_proxy` (invalid addresses never enter), the read-only routes,
the choice of the WSGI server.

### AccountPool

One step is one Redis command or one answer of the site.  `init`, `run` and
`generate` of the generator are `StartRun`, `InitSet`, `AllAccounts`, `Skip`, `Login`,
`LoggedIn`, `Refused`, `SetCredential`, `EndRun`; `run` and `test` of the tester are
`AllCredentials`, `TestKeeps`, `TestRefused` (any status but 200, so that an accepted
credential may be hit as well), `Delete`, `EndRound`.  The two sites
differ, and `site` chooses: antispider6 takes the cookies of any answer, so that it
may store an empty string, which the generator takes for no credential and the
tester for one; antispider7 looks at the status.  `supervised` chooses between
supervisord, which starts a process again, and the scheduler, which does not.  An
exception other than ConnectionError ends a process (`GeneratorDies`, `TesterDies`).
Passwords are left out: a login may be refused.

### HookCache

Node runs `process` to its end, so responses do not interleave; what can come
between the steps of `processRealtime` is the end of the process or a full disk.
`OpenFile` truncates the file, `WriteFile` fills it, `AppendMeta` adds the line to
`meta.jsonl`, `Reply` fills the Map and sends.  `AppendCut` is an append that does not come
to its end: it leaves nothing, a part of the line, or all of it but the newline.  The file
is `meta` (URLs with a line of their own), `tail` (what follows the last newline) and `glued`:
an append to a file that does not end in a newline joins the two, and neither
can be parsed any more.  `Listed` is what a start reads and `Readable` whether it can.
The other outcomes of a response are one step each: `PassThrough`, `processFromCache`,
`processHtmlResponse`, which gives up on a script without code and on one that cannot be
rewritten.  `Start` reads `meta.jsonl`, `StartFails` stumbles over a line that is not JSON.  `PluginsLoad` and `PluginsThrow`
are `loadPluginsAsStringWithCache`; the clock is the Boolean `recent`.  Rewritten code
is named by the body it was made from; `injectHook` is a partial function on bodies
(`Throwing` is where it throws).  `seen`, `readFailed` and `unended` (a full disk
left all of the line but its newline) are history variables.

### FrameSearch

A frame has the set `alreadyProcessMessageIdSet`; `Search` is a command typed into its
console, `Answer`, `Ignore` and `Fail` (a local search that throws) are the listener, `Targets` are the iframes and the parent, which for the top frame is itself.
The id of a search is the clock, which need not advance between two searches.
Messages are a set: they arrive in any order.  What `_search` matches and prints is
left out.

### StraightLine and Flattening

`StraightLine` is the function before: it runs its statements in order and ends at a
return or after the last.  `Flattening` runs the obfuscator (`Shuffle`, `Assemble`),
then the generated loop (`RunCase`, `Break`), and the restorers (`Restore`).
`Flattening` instantiates `StraightLine` with the same `trace` and `ended`; shuffling
and restoring are stuttering steps.

There is no code that both restorers take, and none of them takes what the
obfuscator of the repository writes.  `form` says how the loop is written, and `Restored` what
becomes of it:

| `form` | `4.还原流程平坦化.js` | `反控制流平坦化.js` |
|---|---|---|
| own: `.split`, `switch (+_array[...])` | left as it is | throws: the discriminant is no member expression |
| index: `["split"]`, string labels | restored | throws: the property has no name |
| name: `.split`, string labels | left as it is | restored |

The first removes the declarations of array and index with the loop, and pushes the
first statement of a case, which for an empty case (`blank`) is its `continue`, outside of
any loop.  The second drops every `continue` and keeps the declarations.
One loop is modelled; the first script makes 20 passes, one loop each, for code with several.  The samples
of the two are taken to have one statement per case besides `continue`, as they have in
the repository.  Statements are opaque.  Left out are hoisting, nested functions, and
the scope of `let` and `const`: in the flattened code a case is left with each turn of the
loop, so that a body in which one statement uses the `let` or `const` of another does not run as before.
`RunsLikeOriginal` is about bodies without such declarations.

### ChatServer

A step of a `ServerReader` is what it does between two accesses to the shared map or
to a socket, and `pc` says where it is.

| code | action |
|---|---|
| `accept`, a client that goes away | `Connect`, `Drop` |
| flag 1, `onLineSockets.put` begins / has ended | `Login`, `Put` |
| an exception leaves `run`'s loop, `onLineSockets.remove` begins / has ended | `Catch`, `Remove` |
| `updateClientOnLineUserList` reads the names | `Collect` |
| flags 2 and 3: `sendMsgToAll` or `sendMsgToOne` opens its iterator; the same for a list | `Message`, `Open` |
| the iterator's next socket with `writeInt`; `writeUTF` and `flush`; end of the loop | `Send`, `Written`, `SendEnd` |
| an exception in the catch block | `GiveUp` |

Nothing is locked.  `put` and `remove` of the `HashMap` take two steps, and two that
overlap make the map `corrupt`, for good: from then on an update may leave any set
of those who have ever given a name (`After`), removed ones included.  A thread that
iterates during an update may see any such set (`Seen`) or throw; one whose iterator is
older than an update, or over a corrupt map, may throw or not notice.  When two threads
are between `writeInt` and `flush` on one socket, the client takes one message for a part of
the other; it is `garbled`, and what it shows from then on is not claimed to be anything.
A write to a client that has gone may throw or not.  `overlap` and `cut` are history
variables.

Taken for granted: a thread sees what the others did before it began, writes do not block
(clients read what they get), texts fit into `writeUTF`, each client has a name of its own
and gives it first and once, as `ClientChat` does.

### EchoReactor

`server` chooses between the two programs, which share channels and clients.  A
reactor selects all keys that are ready and then handles one after the other, while
the clients go on, so that fairness of the thread is enough and no fairness
between connections is assumed.

| code | action |
|---|---|
| `selector.select` | `Select` |
| `Acceptor.accept`, `Handler.read`, `Handler.write` | `Accept`, `Read`, `Write` |
| an IOException leaves `EchoServerReactor.run` | `ServerEnds` |
| `AcceptorHandler.run` with the constructor of the handler | `Register` (the key is in the selector), `AssignKey` (`sk` is assigned, `next` goes on) |
| `asyncRun` | `Receive`, `Send`, `Caught`, and `ReceiveWithoutKey` between the two steps above |
| clients | `Connect`, `ClientSends`, `ClientReceives`, `ClientShutsDown`, `ClientResets` |

Bytes are numbered per client.  `greedy` (a client sent with as many bytes unanswered
as the socket holds) and `hasty` (a client sent before its handler was complete) are
history variables, on which the promises of the second server depend.  Left out: a
connection that is gone before `accept` returns.

### OneSlot and Account

`OneSlot` is a buffer for one deposit: `Put`, `Take`, `Put` and so on.  `Account`
implements it, with `flag` for `full`.  The lock is held from the beginning of a call to its end, except inside `await`.
A call is therefore one step, or two when it awaits, and `Resume` ends it without
touching the money.  The versions with `synchronized`/`wait` and with
`Lock`/`Condition` have the same control flow; one module stands for both.

## 3. Runs

Passing runs:

| run | bounds | shows |
|---|---|---|
| `OneToMany_pool` | 1 partition, 3 records, 2 workers, queue of 1, 1 rebalance or expulsion | `NoSilentSkip`, `CloseEnds` |
| `OneToMany_single` | 1 partition, 3 records, 1 worker, a queue that cannot fill, 1 rebalance, 1 crash | `ConsumedBeforeCommit`, `CommitNeverRegresses` |
| `ProxyPool_single` | 4 addresses, one of them dead, limit 2, one process each, 1 kill | `OvershootBounded`, `RemoveOnlyExhausted`, `ReturnOnlyFresh`, `ValidScoreSticks`, `DeadLeave` |
| `ProxyPool_replicas` | 3 addresses, one of them another one with leading zeros, 2 testers | `ExhaustedIsBeingRemoved`, `UntestedOnlyByRank` |
| `AccountPool_refill` | 2 users, 1 generator, 1 tester, 3 credentials, 2 expiries, 1 death; both sites, with and without supervisord | `DeletesWhatItTested`, `Refilled` |
| `HookCache_proxy` | 2 URLs that differ in their query, 4 bodies, 4 pages, plugins that can be read or not; no bound on crashes | `CacheSurvives`, `ServesOwnHistory`, `HooksDefined` |
| `FrameSearch_flood` | 3 nested frames, 2 searches, 2 milliseconds, one local search that throws | `AtMostOnce`, `Frontier`, `Spreads`, `Quiet` |
| `Flattening_body` | all bodies of at most 5 statements, all sets of returns and of empty statements, all shuffles, all forms | `RunsLikeOriginal`, `RestoresOriginal` |
| `ChatServer_chat` | 2 clients, one of which talks; no bound on messages | `NoGhost`, `ListsAgree`, `DropsLeave` |
| `EchoReactor_echo` | a client with 3 bytes and one with 1, 1 worker, buffers of 2, socket of 1 byte; both servers | `NothingLost`, `Echoed`, `HangsUp` |
| `Account_turns` | 1 drawer, 3 depositors, 3 calls each | `TakesTurns`, `NoMutualWait`, `Rests` |

The first run of each module also checks its type invariant.

Why the bounds suffice.  *OneToMany*: two records and two workers are enough for a
partition's batches to finish out of order, the third record keeps one batch in the
queue meanwhile; re-reading after the one rebalance fills the queue, so
CallerRunsPolicy takes effect.  A second rebalance or crash only repeats what the
first did, and the proof of `NoSilentSkip` covers any number, as it does any number of
partitions.  With two partitions of one record each (`Partitions = {p1, p2}`, `LogEnd =
1`) `OneToMany_pool` passes as well; with a crash it passes under `Spec`.
*ProxyPool*: one proxy is the one under test and the others change the pool around it;
the scores are few but keep the order minimum, initial, maximal, in `ProxyPool_single`
with a level between each two, and `CrawlMax` = 2 is enough to overshoot.
*AccountPool*: a stored credential, one under test and a new one are three; the second
expiry hits a replacement.  *HookCache*: two URLs are the one at work and another one
that must not be mixed up with it; a body is short or long, can be rewritten or not.
*FrameSearch*: the frame in the middle has a parent and a child, the top frame itself;
two searches fall into one millisecond or two.  *Flattening*: five statements have
permutations that are not their own inverse, from three on.  *ChatServer*: one sender and one who
changes the map under it; two threads are enough for two updates that overlap, for a
list and a message on one socket, and for lists that cross.  The proofs cover any number of clients.  *EchoReactor*: three bytes are more than a buffer and a socket
hold, so reads and writes are partial; the other client is the bystander, on the same worker.  With
two workers and two bytes each it passes too.  *Account*: three calls per thread let
each side be ahead once and run out first.

Where a property holds only under a restriction, the restriction is the result.

- `ConsumedBeforeCommit` needs a single worker *and* a queue that never fills: with a
  queue of one batch the polling thread itself overtakes the queue.
- `CommitNeverRegresses` needs the same and ends with the first rebalance: the
  comparison with the larger offset in `ConsumerWorker.run` is in vain once a commit
  has cleared the map.  Moving back means redelivery, not loss.
- `RemoveOnlyExhausted`, `ReturnOnlyFresh` and `ValidScoreSticks` need one getter and one
  tester, which is what the scheduler starts.  With two testers (`Testers = {t1, t2}`)
  a proxy with the maximal score may be deleted.
- `DeadLeave` needs that the tests of the dead proxy raise listed exceptions only: with
  `p1` in `OtherErrors` it fails, since an unlisted exception leaves the score alone.  It
  also fails for a dead proxy stored with leading zeros in its port (`Canon <-
  CanonAlias` with both addresses in `Dead`): `080` is stored, `80` is decreased and removed.
- `DeletesWhatItTested` needs one generator and one tester, while `deployment.yml` asks for two
  replicas; with two testers one deletes what the generator stored after the other's
  delete.  On antispider6 the empty credential is an exception that the property names.
  It does not say that an accepted credential stays: a test that is answered with 429 or
  500 deletes it.
- `Refilled` ends with the first death of a process when there is no supervisord.
- `Spreads` and `Frontier` except searches of the same millisecond: each stops where the other has
  been.  A frame whose local search throws cuts off the frames behind it.
- `CacheSurvives` speaks of a `meta.jsonl` that can be read: after a torn or glued line the
  proxy does not start again.  A URL whose append failed for lack of disk space but for the
  newline is listed without being in the Map, so that its file may be torn later.
- `RestoresOriginal` is about code in the one form that the restorer takes, and is no identity:
  see the table in section 2.
- `NoGhost` and `DropsLeave` end with the first overlap of two updates of the `HashMap`, after
  which a removed socket may stay for ever, and a new one be lost.
- `ListsAgree` excepts lists that cross (two updates that overlap always do), lists cut short
  by an exception, and clients to whom two threads were writing at the same time: these
  may show a wrong list, the last for ever.
- `NothingLost` and `Echoed`: `MultiThreadEchoHandler` drops what a write did not take, so
  its promise is to clients that are not greedy.  A client whose first byte is there when
  it is registered may end the worker with a NullPointerException, and with it all
  connections of that worker.  `EchoServerReactor` loses nothing, but a reset
  connection ends it.  `MultiThreadEchoServerReactor` never closes a connection.

One run exhibits a disagreement with the repository's own words: in
`OneToMany_early` (two workers) the polling thread commits behind an unprocessed batch, where
kafka.md says to commit after the message has been consumed.

Other observations made while modelling:

- `/random` of the proxy pool serves proxies that were never tested; `UntestedOnlyByRank` says when.
- A `deposit()` that awaited returns without depositing, so a thread that is to deposit
  100 times (comment in `DepositThread.java`) may deposit less often.
- A torn line of `meta.jsonl`, left by a crash or a full disk, makes every later start of
  the proxy fail until somebody repairs the file (`StartFails`).  So does a line that lacks
  only its newline, after the next append.
- Neither restorer takes the output of the repository's own obfuscator.
- The README of memorySearch says that plugins are cached for 3 seconds; the code says 1000 ms.

### Fairness

- `OneToMany_pool`: weak fairness of the polling thread, of each worker, and of main's two
  steps: they are ordinary threads that the JVM schedules, main's sleep is finite and
  `poll` has a timeout.  Nothing is assumed of the coordinator: while the process is
  outside the group the polling thread either rejoins or is woken up.
- `ProxyPool_single`: weak fairness of the tester: its requests have a timeout and the
  scheduler's loop sleeps for `CYCLE_TESTER` seconds.  Getter and server need none.
- `AccountPool_refill`: weak fairness of generator, tester and supervisord, whose loops and
  sleeps are bounded; strong fairness of a login that succeeds and of the test of a
  credential that is not accepted being answered, for otherwise the network may refuse
  for ever.  That a test may also refuse an accepted credential is possible, never assumed.  Expiries and deaths
  are bounded, for otherwise a credential may expire whenever it has been stored.
- `FrameSearch_flood`: weak fairness of the delivery of each message: `postMessage` within
  a page loses none.
- `Flattening_body`: weak fairness of the next step of a sequential program.
- `ChatServer_chat`: weak fairness of each `ServerReader`; writes do not block, since the
  clients read what they get.  No client has to connect, talk or leave.
- `EchoReactor_echo`: weak fairness of each selector loop, and of a client that reads what
  has arrived; clients need not send, close or stay.
- `Account_turns`: a thread that can take the lock eventually does; spurious wakeups are
  possible and never assumed.

Deadlock is checked in all runs but `EchoReactor_echo`: servers that wait in `select`
for clients that have nothing more to say do rest there.  `Terminated`, `Over`, `Done` and the
last disjunct of `BankNext` mark the states in which the other programs may rest.

## 4. Proofs

All theorems hold for every value of the constants that satisfies the named
assumptions of the module.  Each component has a proof module of its own, except
that `JavaThreads_proofs` is about both `EchoReactor` and `Account`, which have no name in
common (the specification of `Account` is `BankSpec`, its type invariant `BankTypeOK`).
The type invariant of every component is proved, and:

**`OneToMany_proofs`.**  `NoRecordSkippedSilently` proves `NoSilentSkip`, for any number
of workers, partitions, rebalances and crashes.  `NoSilentSkip` speaks of committed
offsets only and is not inductive: tomorrow's commit is today's entry of the map, or
the end of a batch in a worker, or of one in the queue.  `CoverInv` says of each of these
that it lies behind accounted records only, and of the fetch position too, because a
worker's batch begins where the position stood.  The position is the delicate
part: after `shutdown` the executor drops a batch and the position is past it.
That does no harm, since the loop cannot go on: `CloseInv` says that after
`wakeup()`, which precedes `shutdown()`, the wakeup is pending or the thread has left
the loop.  `PoolInv` relates the runners' states to the polling thread's.  The step
has a lemma per way in which records move (`SubmitAccounts`, `TakeBatchAccounts`,
`ProcessAccounts`, `ReportAccounts`), each saying that what was accounted for stays so.

Two theorems say what a single worker adds: `OneThreadConsumesBeforeCommit` and
`OneThreadCommitsForward`.  Their hypotheses are `OneThread`, which is about the
constants, and `[]CallerNeverRuns`: the polling thread never runs a batch itself,
because the queue never fills.  The second cannot be dropped, for with a full queue
the polling thread overtakes it, and both properties fail; it is not empty, since
all behaviours of `OneToMany_single` satisfy it (its queue has room for every batch that
can be polled).  The first theorem rests on `FifoInv`: what may become a committed offset
covers processed records only, and the start of the i-th batch in the queue covers,
besides those, only records of batches `Ahead` of it.  A position after a rebalance starts
at a committed offset and hence satisfies it as well, so that any number of rebalances is
allowed.  The second rests on `ChainInv`: until the first rebalance the committed offset,
the map being committed, the map `offsets`, the worker's batch, the queue from its head
on and the position stand in ascending order (`OrderInv`), and a process that has not yet
joined has polled nothing (`JoinInv`), so that a restart after a crash begins a new
chain at the committed offset.

**`ProxyPool_proofs`.**  `ExhaustedAreRemoved`, for any number of replicas, provided no
tester is killed in the middle of `decrease`; `UntestedServedByRankOnly`, from
`MaxMeansPassed` (a maximal score was given by `max`, to a converted address), scores never
exceeding the maximal one being part of the type invariant;
`RemovesExhausted`, `ReturnsFresh` and `ValidSticks`, which assume one getter, one tester
and canonical addresses (`SingleInstance`), from the invariant `ReadsStayTrue`: what a
process read is still true when it acts on it.  `PoolOvershootBounded` proves
`OvershootBounded` under the same assumption, and for a limit other than 0 (with the limit 0
and nothing to crawl the bound would be -1, which not even the empty pool keeps).  `CrawlInv`, the invariant, counts what a
running getter may still add; `PoolSize` shows that nothing else makes the pool larger,
which is where `ReadsStayTrue` is needed again: `max` and ZINCRBY would create the
proxy that they write if it was not a member.

**`AccountPool_proofs`.**  `TestedIsDeleted` proves `DeletesWhatItTested` for one generator and
one tester.  The same kind of argument, over two processes: `HandInv` says that the
user whom the generator logs in has no credential until it stores one, `SnapshotInv` that what the
tester has yet to test or to delete is what is stored, unless it is empty, and `DeleteInv`
that the tester deletes only what it has in its snapshot.  `FreshCredential` says that a
login gives a credential that differs from the stored and the tested ones.

**`HookCache_proofs`.**  `CacheSurvivesCrashes`, `ServesItsOwn` and `HooksAreDefined`, for any
URLs, bodies and crashes.  `WriteInv` says what may be half done at each step of
`processRealtime`: `Listed` exceeds the Map by the URL being stored and by `unended` at most, and a file
is opened for a short body, an unended URL, or one that is neither in the Map nor listed; `CachedInv` that
the files of the Map are there also when a glued line no longer lists them; `FileInv` that a file holds
code of its own URL; `PluginInv` that an empty cache of plugins that counts as recent is due to a failed read.

**`FrameSearch_proofs`.**  `SearchedOnce` and `NoGaps` (`Frontier`), for any tree, even any
graph of parents, and any number of searches.  `IdInv` and `OnceInv` tie the ids in the frames and in the
messages to the searches they came from; `AudienceInv` says that frames stay.

**`Flattening_proofs`.**  `FlatteningImplements` shows that the flattened function implements
`StraightLine`, every step being a step of it or a stutter, and `RestorersUndo` that what
a restorer has taken it puts back in order (`RestoresOriginal`), for any length, returns, empty
statements and random numbers.
`DispenserInv` says that the string is the inverse of the cases, `IndexInv` that the index
counts the statements run.

**`ChatServer_proofs`.**  `NoGhosts`, for any number of clients.  `GhostInv` adds that a
thread in the catch block is not reading, so its client cannot log in again.
`ListsStayCurrent` proves `ListsAgree`.  `ListInv` says that, as long as no two lists have
overlapped and none was cut short, `CurrentInv` holds: at most one thread is between its
change of the map and the end of its list; if none is, everybody who is not garbled shows
who is there; and a list that is being sent has the names of who is there now, and everybody
it has no more to be sent to shows them.  Whoever begins an update begins a list in the
same step, and if another one is under way the two overlap (`BeginAlone`); so the
thread at the list iterates over a map that nobody updates meanwhile (`Undisturbed`).

**`JavaThreads_proofs`, the echo servers.**  `NoByteLost` proves `NothingLost`, for any
clients, workers and buffers.  The bytes of a client stand in a line: received, on the
wire, in the buffer of the handler.  A write moves the border between the last two, a
client that receives the one between the first two, and a read appends.  A read
overwrites the buffer, however, and `Send` clears it, so that `HandlerInv` is needed:
a handler whose turn it is to read has an empty buffer, unless a missing key has just ended
its worker (`HandlersClean`); a selected key belongs to an open connection of that very
reactor, so that no other thread and no close comes between selection and
handling (`SelectedOpen`); and what is unanswered of a client that is not greedy fits
into its socket (`AnswersFit`), so that `clear()` drops nothing.  The lemmas on sequences
(`AvailableBytes`, `WrittenBytes`, `NumberedOn`, `IncreasingOn`, `IncreasingBegin`) say what
the operators of the model return.

**`JavaThreads_proofs`, the account.**  `AccountImplements` shows that `Account` implements
`OneSlot`, every step being a `Put`, a `Take` or a stutter.  `TurnsAreTaken` gives
`Alternates` and `NoLostSignal`, which together are inductive; `NeverMutualWait` follows, with
`CallInv` for threads inside a call.

TLC has checked each inductive invariant before its proof, on the runs' instances.

Only model-checked: the liveness properties (`CloseEnds`, `DeadLeave`, `Refilled`,
`Spreads`, `Quiet`, `DropsLeave`, `Echoed`, `HangsUp`, `Rests`, and the fairness part of
`RunsLikeOriginal`), since the prover has no fairness.  All safety properties of the
passing runs are proved.

## 5. Not modelled

Most lines of the repository are not its own.  Of some 233,000 lines of JavaScript more
than nine tenths are obfuscated scripts saved from web sites (`逆向/练习`, `逆向/补环境`) with
stubs that make them run in Node: machine-made code without a specification, which
nobody here wrote and which cannot be modelled faithfully.  So the map covers a small share of the
lines, and most of the code that has a protocol of its own.  Further:

- `inject-hook.js`, `hook.js` and the other plugins of memorySearch, and the other AST
  exercises: Babel visitors over whole programs; what they preserve needs the
  semantics of JavaScript.  `HookCache` knows of `injectHook` that it may throw.
- The crawlers of the proxy pool and the other spiders: HTTP and page parsing.
- LeetCode exercises: pure functions with their reference answers on the web.
- `OneToOne`, Kafka producers, most Java, C and Scala examples: each shows one library or
  system call, and shares no state.
- Notes in Markdown, vendored sources (Redis, Flask, a Scrapy project).

## 6. Plan

1. `PubSub` and `BlockingQueueTest_12`.
2. A bound on `QueueCap` from which `[]CallerNeverRuns` follows, so that the one-worker
   theorems need a hypothesis on constants only.
3. An abstract echo service that both servers implement.
