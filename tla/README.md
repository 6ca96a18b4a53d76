# hc-pool in TLA+

hc-pool is a Stratum V1 mining pool (TypeScript, NestJS, rxjs). Miners connect
over TCP, prove that their device may mine, receive jobs built from the block
templates of a Bitcoin-like node, and submit shares. This directory holds a
formal model of the parts where the order of events decides what happens, TLC
configurations that check it on small instances, and theorems that TLAPS proves
for every value of the constants.

All paths below are relative to the repository; `client` stands for
`src/models/StratumV1Client.ts` and `jobs` for
`src/services/stratum-v1-jobs.service.ts`.

## Inventory of the system

The pool is a Node.js process (or a cluster of them that share one database).
Within a process nothing runs in parallel, but every `await` lets other
handlers run: the lines of one socket are handled concurrently, timers and the
template stream call into the same session, and answers of the backend, the
node and the database come back in any order. `main.ts` installs no handler of
unhandled rejections, so an error that no handler catches ends the process.

| component | state it keeps | operations | talks to |
|---|---|---|---|
| Block-template stream (`jobs` 43-207, `bitcoin-rpc.service.ts`) | last published height, interval number, `lastIntervalCount`, `skipNext`, the load in flight | poll the node every 500 ms, publish a height, start and abandon loads, announce or swallow a template | node (RPC), sessions (subscription) |
| Job registry (`jobs` 177-310, `client` 805-1131) | `blocks`, `jobs`, `staleTemplateSinceMs`, the two id counters, the fingerprints of each session | announce, mark stale, prune, send a job, judge a share, remove a session's jobs | stream, sessions, statistics |
| Device authorization (`client`, `mining-authz.service.ts`) | `pendingChallenge`, `deviceSession`, `deviceAuthorized`, `stratumInitialized`, the subscription and intervals | challenge, prove, authorize, start, check before each job and share and every 15 s, end, destroy | backend (HTTP), socket, database |
| Device-class cap (`TokenBucket.ts`, `client` 287-368) | `classTokenBucket`, `classId` | create and update the bucket with each authorization, refill, consume, drop | backend's class policy, wall clock |
| Template lock (`bitcoin-rpc.service.ts` 99-168, `ORM/rpc-block`) | one row per height: `lockedBy`, `data` | lock, load, save, wait, clean up | the other processes, through the database |
| Share statistics and vardiff (`StratumV1ClientStatistics.ts`, `client` 672-708, 785-831, 1209-1237) | shares of the ten-minute slot, the last 30 shares, `sessionDifficulty`, `usedSuggestedDifficulty` | add shares, suggest a difficulty, set it at the start, by a suggestion, every minute | database, miner |
| Client rows and best difficulty (`ORM/client`, `ORM/address-settings`) | queued insertions, rows, best difficulties | insert, heartbeat, soft delete, clean up, raise the best difficulty | database |
| Mining job and signet signing (`MiningJob.ts`, `signet-block-signing.service.ts`, `client` 833-918, 1032-1110) | the one coinbase of the job, its parts, the lock of a signed job | split the payout, build and sign the coinbase, rewrite it for each submission, send and save a block | node, database |
| the rest | - | message classes, metrics, HTTP controllers, notifications, maintenance, bootstrap | see `PROJECT.json` for why each is left out |

What is hard, and what makes each component correct:

* **Stream.** Polls overtake one another; blocks and ticks abandon loads;
  whether a template is for a new block is inferred from interval numbers.
  Correct: miners never return to an older tip; every published block is
  announced in the end; old templates go stale when a block comes.
* **Registry.** A job takes its id, awaits, and is stored later; duplicates are
  remembered per session and forgotten on a clearing template; stale shares
  have a grace window; a share that wins a block is counted only after four
  awaits. Correct: a submission is counted once; nothing that is counted at once
  is counted after the window; a job that was sent is found again.
* **Authorization.** Device, challenge and permission are read before an await
  and used after it. Correct: a session is bound only to a proved device,
  started once, served only with the backend's permission, and ended without it.
* **Cap.** The wall clock moves both ways; the bucket is dropped and created
  again; policy fields may be missing. Correct: no second counts twice, no
  burst is granted, no session goes uncapped.
* **Share statistics.** The slot is tested before an await and changed after
  it, while other shares come in; writes may overtake one another or fail.
  Correct: no row counts a share that was not accepted in its slot, and without
  overlap or failure every accepted share is in exactly one row.
* **Variable difficulty.** Start, suggestions and the minute check change one
  number between their awaits. Correct: the miner works at the difficulty its
  shares are judged by; a change follows the rate of its shares; a miner too
  slow for its difficulty is let down.
* **Template lock.** The lock is a `save()`, so it is stolen as often as taken;
  calls that `switchMap` left go on and save later; processes end with the lock.
  Correct: a process is never given a template below the height it asked for;
  nobody waits for ever; the clean-up keeps the newest row.
* **Client rows.** Rows are inserted later than `insert()` returns, marked by
  two actors and brought back by a third; bests are compared and written across
  awaits. Correct: ended sessions disappear, mining ones are shown, the bests of
  session, row and address agree.
* **Mining job.** Every submission rewrites the coinbase all handlers share,
  while blocks are on their way. Correct: the pool hashes what the miner hashed,
  saves what it judged, pays out the whole reward, and on signet lets through
  only what was signed.

## Modules

| module | what it models |
|---|---|
| `TemplateFeed` | what the stream promises: announcements on tips that never go back |
| `TemplateStream` | the stream in detail; implements `TemplateFeed` |
| `JobRegistry`, `MCJobRegistry` | registry, sending of jobs, judging of shares; the second adds the symmetry for TLC |
| `DeviceAuth` | one session with device authorization |
| `ClassBucket` | the hashrate cap of one session |
| `ShareLedger` | the share statistics of one session and its rows |
| `VarDiff` | the difficulty of one session and what its miner was told |
| `TemplateSource` | what `getBlockTemplate` promises each clustered process |
| `TemplateLock`, `MCTemplateLock` | the table of templates the processes share; implements `TemplateSource`; the second adds the symmetry |
| `ClientRows` | the rows of sessions, and the bests of session, row and address |
| `MiningJob` | one job, from its payout to the blocks found with it, with the signet signature |
| `ClientStatisticsProofs` | the theorems about `ShareLedger` and `VarDiff`, the two sides of `StratumV1ClientStatistics` |
| the other `*Proofs` | the theorems about the module of that name |

The components meet at narrow points, and each module takes the other side as
nondeterministic: `JobRegistry` lets any template come at any moment and clear
jobs or not, which covers everything `TemplateStream` announces; it lets a send
be given up, which covers a denial in `DeviceAuth`; `ClassBucket` takes
authorizations and shares at any moment; `ShareLedger` lets a share be accepted
at any moment, which covers every `CreditShare` and `BlockCredited` of
`JobRegistry`; `ClientRows`
and `VarDiff` take counted shares the same way, and `MiningJob` any submission
that `JobRegistry` finds judgeable. So what holds of a module holds of the
whole. Where one component is a part of another's promise, the promise is
stated once and instantiated: `TemplateStream` treats a load as one answer on
the node's tip of some moment, at the height it was asked for or above, which
is what `TemplateSource` promises and `TemplateLock` is shown to keep. One thing
does not carry over: in a cluster, a call that was left may save an older
template of the same height over a newer one, so that `TemplateFeed`, which
orders the tips one process announces, holds for a process without a cluster.

### TemplateStream

`tip` is the node. `polls` holds the heights of answers on their way; equal
heights are one element, which loses nothing, since the second of two equal
answers changes nothing. `loads` is what `switchMap` listens to: at most one
load, with its interval number and, once the node has answered, the tip it was
composed on. `PollAnswered`, `Tick` and `Subscribe` start loads (`combineLatest`
waits until a height is known and replays it to a new connection);
`AnnounceTemplate` and `Swallow` are the `map` of lines 84-119; `Unsubscribe`
disconnects the stream when the last session goes, while `lastIntervalCount` and
`skipNext`, fields of the service, survive. `LoadFails` ends the process: the
stream is shared, no subscriber has an error handler, and rxjs rethrows.
Interval numbers matter only by equality: up to `MaxTick` they are exact, above
it a number nothing remembers stands for the next one.

Bounds: two sessions (the second makes disconnecting and staying differ), a
chain of three tips, two polls in flight (enough to overtake), exact interval
numbers up to 1 after each connection.

Fairness: the interval runs; a load that is waiting is answered; a load answered
again and again is in the end delivered (strong fairness, since each tick
abandons the load in flight). In the code the RPC timeout is far below the 60
seconds between ticks. Nothing is assumed of polls, blocks or sessions.

### JobRegistry

`EmitTemplate` is the whole announcement: mark, prune, store, and call every
subscriber up to its first await, since all of it runs without one. A send is
then two steps, `BuildJob` (the job takes `latestJobId`) and `AddJob` (stores
it, advances the counter, writes), with `SendGivenUp` for a denial or an error.
A share is judged in one step, from the fingerprint test (`client` 948) to the
difficulty (1070), between which nothing awaits. If it wins no block, it is
counted in the same step (`CreditShare`; what `addShares` then does across its
own awaits is `ShareLedger`'s). If it does, `FindBlock` puts it into `found`:
`SUBMIT_BLOCK`, the saving, the notification and the reset of the bests
(1091-1109) are awaited before `addShares` at 1113, so that anything may come in
between, the clearing template of that very block included. `BlockCredited`
counts it; `BlockNotCredited` is a failure of the saving, the notification or
the reset, which ends the handler (and the socket) before the share is counted.
Difficulty is a choice between the three and `RejectShare`.

A submission is what the miner wrote: a job id and a spelling (`Spellings`). Its
fingerprint is a hash of the strings as they came (`MiningSubmitMessage.ts`
68-71), while its header is built from the numbers they stand for, so one share
has several spellings, and each is a submission of its own. The properties claim
something for each submission, and nothing for a share in two spellings.

`Destroy` and `Destroyed` are the two sides of the database call in `destroy()`.
`told`, `firstStale`, `overwritten` (ids under which two jobs were stored),
`lateCredit` (credits at once after a clearing template) and `freshCredits` are
history. `AnnouncedJobKept` says of every job that was written to an open
session that it is found as its own, on its template, until that is past its
TTL. It excepts the ids in `overwritten`, which are those of `JobRegistryIds`.

Bounds: two sessions, one spelling (no property relates two), three templates,
one job id in circulation, two sends and one block in flight, a clock of three
readings with a grace window and a TTL of one: a template can be marked, outlive
its window and be pruned, and a block's share be counted after each of these.
One job id is enough for the pass run's properties, which relate one job to the
templates; the collision of ids needs no second one.

### DeviceAuth

`calls` is the set of backend calls in flight, each with its purpose: `verify`
and `authorize` for a proof, `serve` for a job or a share, `timer` and `vardiff`
for the two intervals. `backed` is history: whether the device was granted at
some moment since the call. `Grant`, `Revoke` and `Allows` are the backend. Any
handler may go on after the connection is closed, as in the code; lines may
arrive after the pool has ended its side and before the socket is closed.
`starting` counts the handlers between `stratumInitialized = true` and the
subscription. `CallFails` ends the socket for the handlers with a try/catch and
the process for the intervals, which have none.

Bounds: two devices, of which the miner can prove one; two calls in flight
besides those of the intervals (one each: the backend's timeout of 5 s is
shorter than 15 s and 60 s).

Fairness: the 15 s interval runs, its calls are answered and its handler goes
on, and the database answers `destroy()`.

### ClassBucket

`clock` is `Date.now()` in seconds, and moves both ways. `answers` holds
authorizations decided and not received, which may arrive in another order.
`Receives` applies `normalizeResult` and `applyClassPolicy`; `Gate` is common to
the three ends of a share. `advanced`, `born`, `top`, `spent` and `accepted` are
history. Floating-point numbers are integers here, so rounding is not modelled.

Bounds: one class, a capacity of four units, costs below and above it, a clock
of four readings, three seconds forward in all, two answers or shares in
flight.

### ShareLedger

One session's `StratumV1ClientStatistics` and its rows. A share runs in one step
up to its first await: `FirstShare`, `ShareOfNewSlot`, `ShareSaved` or
`ShareKept`, the four branches of `addShares`. `calls` holds the writes in
flight; `Write` is the database, which may take them in any order (TypeORM
sends them over a pool of connections), and `Saved`, `OpenSlot` and `CallFails`
are what the handler does with the answer: note the time of the save, open the
new slot and insert its row, or log the error and accept the share all the same.
A call that fails may or may not have been written. `acceptedCount` stands for
`shares` too, which is set and added to at the same lines. `accepted` and
`disturbed` are history.

Bounds: slots of two minutes, five readings of the clock (three slots, so that
a slot can be left, and a later one opened before an earlier), a save at any
later minute, two writes in flight, three shares in a slot.

### TemplateLock

`rows` is `rpc_block_entity`, `calls` the `getBlockTemplate` calls of each
process, one step per await: `GetBlock`, then `LockBlock` (the SELECT of
`save()`) with `InsertRow` or `UpdateRow` (its INSERT, or the UPDATE of the
columns that differed), `WaitForBlock`, `LoadBlockTemplate` and `SaveBlock`. A
height or an interval number starts a call and leaves the one before it, which
runs on as a stray. `SelectNewest` and `DeleteOld` are the two queries of
`deleteOldBlocks`. `Crash` is any end of a process, the rejection of its live
call included; another takes its place. `given` is history.

The comment in `bitcoin-rpc.service.ts` 125 says that locking throws when
another process tries, by the unique constraint. It throws only when the row
appears between the SELECT and the INSERT; otherwise `save()` updates the row
and the lock changes hands, at times with the data cleared. That is also what
keeps the pool alive: a waiter behind a process that ended would wait for ever,
and the call of its next tick takes the lock. With a true insertion
(`LockByInsert`, the mutant of that run) `ClusterCatchesUp` fails. What
`waitForBlock` returns is overwritten at line 135.

Bounds: two processes, two heights, and in the safety run one stray in the whole
cluster; the theorems have no bound. The liveness run has no strays, which keeps
it small: what they save is covered by the safety run.

Fairness: the interval runs, the node is polled, queries and requests of the
live calls end in time (strong fairness, since each tick replaces the call), and
crashes end. Nothing is assumed of waiting, of strays or of other processes'
locks.

### ClientRows

A session's first submission queues its row (`FirstSubmission`), and the whole
queue is inserted at once (`InsertClients`, then `Inserted` or `InsertFails`).
`rows` is `client_entity`: live or marked, minutes without an update, best
difficulty. `KillDeadClients`, `DeleteOldClients`, `Destroy`, `SoftDelete` and
`LastHandlerEnds` end sessions and rows. A counted share is a handler in
`calls`, one stage per await: the reset of every best after a block, addShares,
the heartbeat (once a minute), and the best written to the row, to memory and to
the address. `reached`, `expected`, `early`, `lost` and `disturbed` are history.

`BestExactWithoutOverlap` says what the code achieves, and its exceptions are
what it does not: handlers that overlap may write the lower best last, in memory
too; a best written while the row is still queued is lost with it (`early`);
after a block has reset the address, its best stays at 0 until some session
beats its own old best, because only then is the address compared.
`MiningSessionShown` excepts the sessions whose row nothing inserts again: those
of a batch whose insertion failed (`lost`), and those that stayed connected but
silent until their row had been marked for a day, which `deleteOldClients`
deletes whether the session is up or not (`forgotten`). `getSettings` expects a
violation of the primary key (`address-settings.service.ts` 20), but `save()` of
an address that exists changes nothing and returns no `bestDifficulty`, so that
the share's best is not compared with anything.

Bounds: one session, two differing bests, two handlers at a time, rows dead
after two minutes and deleted three minutes after they were marked, long enough
for a heartbeat in between. Two handlers of one session meet in the address's
settings as those of two sessions do; the passing of the queue from one session
to another has no other effect than that a failed insertion loses both.

Fairness: minutes pass, the intervals run, queries are answered; the steps of a
share up to its heartbeat, which may fail at each share, succeed in the end when
tried for ever. `Minute` waits for a heartbeat under way: a query does not take
a minute. Nothing is assumed of `DeleteOldClients`.

### MiningJob

A byte is a pair of its owner and its position, so that bytes cut in the wrong
place are told apart. `coinbase` is the one transaction object of the job;
`CopyAndUpdate` cuts the last eight bytes of its script and appends the
session's and the miner's, for every submission, also one that is then too low.
`parts` is what the miner was sent. `Signed` extends the commitment by what it
covers: on signet the job is signed as it must be submitted. `Amounts` gives
both results that the floor of a floating product may have. `calls` are the
blocks found, from `SUBMIT_BLOCK` (which never throws) to the saving.
`mined`, `hashed` and `offWidth` are history.

Nothing checks how many bytes of `extraNonce2` a miner sends. One submission of
another width shifts the shared script, and every later share on that job, of
an honest form, is hashed wrongly; hence `offWidth` in `HashedAsMined`. Heights
of 8388608 and above take four bytes and would leave the padding one byte short
of the two extranonces (`HeightBytes` in `JobAssumption`).

Bounds: two fees (one out of range), one reward with rounding, both ends of the
length of the height, an identifier that fits and one that does not, two values
of the extranonce, one submission of the wrong width, one block at a time.

### VarDiff

`sessionDifficulty` against what the miner was told (`told`) and what it works
at (`jobDifficulty`). `InitStratum`, `TakeSuggestion` and `CheckDifficulty` are
the three that change it; jobs are sent in a step of their own. The cache holds
the difficulty of each share and the time since the one before.
A difficulty is a number of units of 1/`One`. `NearestPowerOfTwo` is computed
as in the code: numbers below one are scaled by 100 and the function calls
itself, so `Units` are 1 (as `One`), 1/100, 1/10000... down to the unit 1,
`UnitOf` is the one the recursion ends at, and `Mask` spreads the highest bit
by the same shifts, on words that are sets of bits (`Bits`, `Number`). The
shifts take a number as a signed 32-bit one. `Overflows` says that what is asked
for has no room in one: the rate of a cache that was filled within few
milliseconds (with the defaults, 31 shares of 16384 at a rate of 10, within
2), or, with a high configured maximum, a sixth of the difficulty. Then the low
bits decide, and `SuggestedDifficulties` is any power of two of any unit, or the
call never returns (`CheckCrashes`). An infinite rate, when all cached shares
carry one time, has no low bits and always ends so. `FollowsRate` and
`SlowChecksLower` claim nothing of such a number. `late` and `silent` are
history and name the two exceptions: a suggestion after the
first job is answered by no job, so the miner keeps the old difficulty until the
next one, and cpuminer's own difficulty is not told after an earlier suggestion
(`client` 787-799).

Seen while modelling: the work per second is multiplied by
`STRATUM_TARGET_SHARES_PER_SEC`, so a greater value asks for fewer shares, not
more; the comment "miner hasn't submitted shares in one minute"
(`StratumV1ClientStatistics.ts` 128) stands over a test for fewer than five
cached shares and a minute since the session began, and as the cache is never
emptied, a miner that stops after five shares keeps its difficulty; a share is
cached with the difficulty of the moment, read after the await of
`SUBMIT_BLOCK`; at the highest difficulty a rate far above it sends a clearing
job every minute; shares in flight are rejected after a raise.
When the recursion does not end, its RangeError ends the process.

Bounds: a scale of 5 instead of 100 and two steps of it, so that the recursion
is taken not at all, once and twice; words of three bits, which the rate of the
cache overflows in one unit of time but not in two; a cache that two shares
fill, of which two give a rate; times up to 2 between shares; difficulties from
0.16 to 1.8, one suggestion above the range (two handlers of it), two jobs being
sent.

Fairness: writes are answered, minutes pass, and a check that is due again and
again is made.

## What the runs show

| run | result |
|---|---|
| `TemplateStream` | tips never go back (refinement of `TemplateFeed`); the published height never falls; at most one load is swallowed between announcements; each published block is announced in the end |
| `JobRegistry` | a fresh submission counts once, block or not; no credit at once after the grace window; staleness starts from the oldest template; a job that was sent is found on its template, unless two sends took its id |
| `DeviceAuth` | bound only to a proved device; one subscription; served only with permission; a revoked session is ended; a closed one stops asking |
| `ClassBucket` | no second credited twice; shares let pass stay within the cap; never uncapped by a missing field |
| `ShareLedger` | no row counts more than its slot had; rows are exact when no call overlaps another or fails |
| `TemplateLock` | a process is never given a template below the height it asked for (refinement of `TemplateSource`); the clean-up keeps the newest row |
| `TemplateLockLive` | every process is given a template for the node's height in the end, also after the holder of a lock ended |
| `ClientRows` | ended sessions disappear from the live rows; mining ones are shown again and again, unless their row was lost or deleted for good; the bests agree without overlap |
| `MiningJob` | payouts add up; what is hashed is what was mined; blocks are saved as judged; only what was signed passes on signet |
| `VarDiff` | the miner works at the difficulty of its session; a change follows the rate within a factor of two, if that fits a word; a slow miner ends at the lowest difficulty |

Two runs end in a counterexample, each against a sentence in the repository:

* `TemplateStreamClear`: a block whose load is overtaken by a tick is announced
  without `clearJobs`, so the jobs of the block before it are not removed as
  the comment at `client` 966 says. The same happens to a block in the minute
  after that of another: the tick between them is swallowed and returns before
  its number is noted (`jobs` 94, 97). `RetiredWhenIntervalKnown` proves that
  these are the ways: once the newest interval number is noted, the next load is
  announced and retires everything older.
* `JobRegistryIds`: two sessions woken by the same template take the same job
  id (`getNextId()` at `client` 869, `addJob` after an await at 877); the first
  one's shares are then "Job not found", which `client` 966 explains only by a
  new block or expiry. `SerialJobsAreFound` proves that there is no other cause:
  where no two sends hold an id at once, the job is found.

Other differences between a sentence and the code, which no run is spent on:

* a backend error in an interval callback ends the process (`CallFails` in
  `DeviceAuth`); the comment in `mining-authz.service.ts` 245-246 says it closes
  the socket;
* `normalizeResult` drops the class fields, so the bucket never follows a change
  of class (comment at `client` 248-249);
* one share at cpuminer's difficulty costs 429,496,730 units, more than the
  18,000,000 that the bucket of the default class holds (`TokenBucket.ts` 98-100
  says that this never happens);
* two shares that both see the old slot insert two rows for the new one
  (`OpenSlot` in `ShareLedger`), although `client-statistics.service.ts` 36 says
  that a record is inserted if no row was updated; the site's chart sums both;
* "Duplicate share" (`client` 953) is the answer to a submission in the same
  spelling only: the strings are hashed as they came, joined without separators
  (`MiningSubmitMessage.ts` 69), and the header is built from what they stand for
  (`client` 1032-1061), so the same fresh share is counted once in every spelling
  the miner sends;
* a share that wins a block may be counted past the grace window of its
  template (`client` 1013-1030 against 1113);
* a session that stays connected and silent for five minutes and a day loses its
  row (`client.service.ts` 84-95): the heartbeat of its next share updates
  nothing (53), and it is not listed again, although it mines;
* the header of `TokenBucket.ts` (16-18) says that a change of parameters scales
  the units by the ratio of the rates; `updateParams` keeps them, as its own
  comment says;
* the lock that does not throw, the primary key that is not violated, and the
  minute without shares, above.

Runs allow deadlock where the system may stop: a bounded clock that has run
out, a process that ended, or a session that is closed with nothing in flight.

## What is proved

For every value of the constants that satisfies the modules' assumptions
(`StreamAssumption`, `RegistryAssumption`, `DeviceAssumption`, `BucketAssumption`,
`NullAssumption`, `LedgerAssumption`, `DiffAssumption`, `WordAssumption`,
`RowsAssumption`, `LockAssumption`, `JobAssumption`: bounds are naturals, the
null values are apart from the others, an encoded height has at most three
bytes, the integers of a word are below 2^31).
The bounds are arbitrary, so nothing depends on the instances above.

* `TemplateStreamProofs`. `SwallowDebt`: a swallowed load has cleared
  `skipNext`, so a second one needs an announcement that sets it again and
  resets the count. `LoadsInOrder`: there is at most one load, its tip is not
  above the node's, and what was announced is not above any answer; a load
  started later is answered later. Each step then is a step of `TemplateFeed`
  or a stutter. `NothingPublished` relates `hasPublishedMiningInfo` to the
  height, for the rise of the published height. `LoadsReachPublished`: a
  publication abandons every load started before it, so that an answer is at
  the published height or above; hence `AnnouncedReachesPublished`, the safety
  half of `PublishedBlockAnnounced`. `LoadsOfInterval`: the load that is listened
  to is of the newest interval number, for `RetiredWhenIntervalKnown`. The last
  two are only proved.
* `JobRegistryProofs`. `IdsBehind`: every id in use is below its counter.
  `MarksAreFirst`: the mark of a template is its first clearing time, so a later
  clearing template cannot extend a grace window. `FreshRemembered`: a share
  credited while its template was fresh is still among the fingerprints of its
  session as long as the template is fresh: clearing the fingerprints and
  marking the template are one step. It covers a share of a block under way as
  well, whose template may go stale, and whose fingerprint be cleared, before it
  is counted: then the template is stale for good, and no second submission is
  counted as fresh. `CreditsInTime` follows the credits given at once past the
  marks and past pruning. `AnnouncedJobKept` rests on three facts: a job is
  created after its template (`TemplatesComeFirst`), so that it is not pruned
  before its template is past its TTL; an open session's job is removed by
  nothing else (`ToldIsKept`); and a session that ended its subscription does
  not subscribe again (`ToldOpened`). `SerialJobsAreFound` is about
  `SerialSpec`, the registry whose sends take their ids one after the other: ids
  in use are below the counter and that of a send is the counter
  (`IdsNotTaken`), so that no id is ever overwritten and `AnnouncedJobKept` has
  no exception left.
* `DeviceAuthProofs`. `CallsTold`: a positive answer to `verify` is of a genuine
  device, a positive answer to a check was backed when it was given, and
  grants since then keep it so. `SessionSound` and `FlagCovers`: the
  flag and the device go together, and `stratumInitialized` is set before any
  subscription is under way. `IntervalsFollowSubscription`, only proved, is what
  the two liveness properties rest on: a subscribed session is watched until
  its connection is closed, and a closed one has a `destroy()` under way as long
  as its intervals run.
* `ClassBucketProofs`. `CreditInv`: `lastRefillMs` is never above the highest
  reading since the bucket was created, and units held and spent are at most
  the rate times the seconds up to `lastRefillMs`; setting the clock back
  changes neither. `AllowanceInv` carries this over the bucket's disposal: what
  all buckets let pass is bounded by the forward seconds of the session.
  `WithinCapacity` follows from it and is only proved. `GateGuarded`: until the
  session is destroyed, a class has its bucket, and no share is on its way before
  the first authorization, which sets one or the bypass.
* `ClientStatisticsProofs`, for `ShareLedger`. `LedgerCovered`: what is counted
  in memory, on its way to the table or in it for a slot was accepted in that
  slot, and a slot about to be opened has its first share. The rows alone are
  not inductive: a row is only as sound as the call that writes it, and the call
  as the counter it copies. For `ExactWithoutOverlap`, `Orderly`: the one call
  in flight is about the current slot, an insertion finds no row of it and an
  update just one (`Fits`), and a slot above has no row and no share unless the
  call is about to open it. That needs the start of the slot never to fall back
  as the clock moves on (`SlotsFollowTime`).
* `ClientStatisticsProofs`, for `VarDiff`. `HighestPowerIsHighest`: the shifts
  and ors give the highest power of two in every positive integer below 2^31, by
  following the spread of the highest bit over the word (`SpreadDoubles`,
  `MaskIsFull`) and the value of a word of ones (`NumberOfMask`).
  `NearestPowerWithinTwo`: what comes back is above half of the argument and not
  above it, whichever unit the recursion ends at, unless the argument is below
  the smallest one, for any argument that has room in a word; `AskedTyped` shows
  that this is so of whatever a check asks for unless `Overflows`. `ToldSound`
  is the invariant behind `JobFollowsDifficulty`: what the miner was told last
  is the session's difficulty, unless a set-up message of it is still to be
  sent. `FollowsRate` is read off the one step that changes the difficulty and
  sends a job (`OnlyChecksChange`). `SlowChecksLower` is the safety half of
  `SlowMinerReachesMinimum` and only proved. What a sum over a cache or a power
  of two comes to is an induction over data; it is made on sets of naturals
  (`Induction`, from `WFMin` of the library), which needs no operator parameter.
* `ClientRowsProofs`. `InsertedOnce`, which holds whatever overlaps or fails: a
  session is queued once, so no insertion overwrites a row. `BooksKept`: without
  overlap or failure at most one handler runs, and its stage says how far the
  bests agree (`Booked`); the other sessions are `AtRest`. Rows are still
  inserted, refreshed, marked and deleted around the handler at any moment.
  `GoneStaysGone`, only proved, is the safety half of `EndedSessionGoes`: no
  handler runs for a session that is gone (`GoneAreQuiet`), so once neither its
  row nor its insertion is left nothing revives it.
* `TemplateLockProofs`. `RowsSound`: what a row holds is a template at its
  height or above, on a tip the node has reached. `CallsSound`: a call asks for
  a height the node has reached, the live one for the height published last, and
  what it is about to save is at its height or above. A stray that saves late
  keeps both, because it saves under its own height. For the clean-up,
  `NewestThere`: between its two queries the row it selected stays, since
  nothing else removes rows.
* `MiningJobProofs`. The heart is `ScriptIntact`: as long as every submission
  sent four bytes, the shared script is the head that was sent to the miner
  followed by eight bytes, so cutting eight gives that head again.
  `SealIntact`: a signed script is its own rewriting by the one submission the
  lock admits. `CallsIntact` carries a block past the await. `PayoutExact` needs
  the bounds of the two rounded products (`AmountBounds`, `SharesOfReward`).
  `HeightKept`, that the script begins with the height, is only proved.

Only model-checked: the liveness properties (`PublishedBlockAnnounced`,
`RevokedSessionEnds`, `ClosedSessionStopsAsking`, `ClusterCatchesUp`,
`EndedSessionGoes`, `MiningSessionShown`, `SlowMinerReachesMinimum`), which need
fairness and ENABLED, and the two counterexamples. Every other property of the
runs is a theorem.

## Plan

What is left, most important first:

1. `TemplateFeed` weakened to what clustered processes keep, with
   `TemplateStream` over `TemplateSource` instead of over the node.
2. The ZMQ mode of the polls, and the deletion of statistics after a day against
   the slots that `ShareLedger` still writes.

## Not modelled

The layout of jobs, headers and messages; hashes and signatures (a signature is
what it covers); the difficulty of a hash; the contents of templates; the
witness and bootstrap outputs, whose value is 0; ZMQ mode (it serialises the
polls that interval mode lets overlap); HTTP queries; notifications; metrics.
`PROJECT.json` gives the reason for each component. The authenticity of a
device's proof is the backend's business: the model takes its answer as given.
