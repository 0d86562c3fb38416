# A TLA+ development of the streaming-and-betting data store

The repository is a Python package of database operations for a platform on which users subscribe,
watch matches and bet on them: SQLAlchemy transactions on PostgreSQL, with Redis in front of the two
write paths that are hottest. Nothing in it runs by itself; callers (threads, processes, web workers,
retrying clients) invoke the operations concurrently. What has to be right is what happens when those
calls interleave, fail half way, or are made twice. That is what is modelled here.

## 1. Inventory

| Part | Source | State | Operations |
|---|---|---|---|
| Betting | `operations/betting.py` | `bets`, `payments`, `outcomes.status`, `sports_events.status` | `place_bet`, `settle_outcome`, `cancel_event` |
| Odds feed | `operations/odds_feed.py` | `odds_snapshots`, `outcomes.latest_price/latest_captured_at`; in Redis the queue, the accepted counter and the status cache | `record_odds_update` (path A), `record_odds_update_redis` (path B), `flush_odds_queue` |
| Subscriptions | `operations/billing.py` | `subscriptions`, `payments` | `purchase_subscription` |
| Streaming | `operations/streaming.py` | `streaming_sessions` | `start_streaming_session`, `end_streaming_session`, `end_streaming_sessions_bulk` |
| Engagement | `operations/engagement.py` | `sports_events.ping_count`; in Redis one counter per event | `record_ping`, `record_ping_redis`, `flush_counters` |
| Registration | `operations/auth.py` | `users` | `register_user` |
| Transactions | `db.py` | the engine's connection pool | `tx`, `lock`, `retry_on_conflict` |
| Schema | `models.py` | tables, enums, constraints | – |
| Redis client | `redis_client.py` | the client of the process, its connection pool | `init_redis`, `get_redis` |
| Feed benchmark | `benchmarks/redis_oddsnapshot_boost.py` | totals `landed`, `conflicts`, `lost` shared by threads; the stop flag | `run_path_redis`, `run_path_postgres` |
| Seed data | `seed.py` | rows, through the operations above | `seed_event_with_session`, other scripts |
| Other benchmarks, tests | other `benchmarks/`, `tests/` | – | scripts |

How they interact:

* All operations share the database. Every one is a transaction of `db.tx` under READ COMMITTED, so a
  statement sees what was committed before it began; what it needs to stay that way it locks
  (`db.lock` is `SELECT ... FOR UPDATE`). Inserts lock the rows their foreign keys name (FOR KEY SHARE)
  and wait for uncommitted rows with the same unique key; updates lock the rows they change.
* A deadlock is broken by PostgreSQL, which rolls one transaction back. `retry_on_conflict` runs the
  operation again, at most five times; `flush_odds_queue`, `flush_counters` and
  `end_streaming_sessions_bulk` do not have it.
* `place_bet` reads the newest `odds_snapshots` row, which the feed writes, and the streaming session,
  which streaming closes. `payments` is written by betting and by billing into one unique column of
  idempotency keys: those clients choose for bets and subscriptions, and those betting makes up itself
  (`payout:{bet_id}`, `void:{bet_id}`), which nothing keeps a client from choosing. `sports_events` is read by streaming, locked by betting, counted up by engagement.
* `seed_event_with_session` is the one place that runs operations one after the other for one caller
  (sign up, buy, start), each a transaction of its own: it can stop between any two of them.
* A transaction borrows a connection of the engine for its whole length, a Redis command one of the
  client for its own. `record_ping_redis` needs the second while it holds the first.
* The feed benchmark is the one place that runs operations in threads of its own: workers push ticks, a
  flusher thread calls `flush_odds_queue`, the main thread stops both and drains the queue.
* Redis is not part of any transaction: what is pushed, popped or incremented stays so when the
  database transaction next to it fails.

Hard behaviour, and what has to hold in spite of it:

* *Betting.* A settlement races with bets on its market, a cancellation with both, clients retry with
  the same key, settlement messages are delivered twice, a key may be that of another user's bet, a payout or a
  subscription. Every bet must be charged once, paid or refunded exactly when its state says so, never be
  left pending on a market that is closed, and be placed at the newest price; a key is on one payment, and
  callers of the key are told of that one.
* *Odds feed.* Ticks arrive out of order over two paths; the flusher pops before it writes and can die
  in between. No tick may be queued or counted twice, the accounting must add up, the cached latest
  price must be the newest row's and never go back.
* *Prices on their way to bets.* A bet must lock in the newest price, but on path B the newest price may
  still be in the queue, in a flusher's hands, or in a transaction that waits for the bet's own lock. A
  flush commits the rows of many outcomes at once and collects their locks one by one.
* *Sign-up, subscriptions and streaming.* Sign-ups race for an address, purchases for the one active
  subscription and for a key, starts for the last seat; sessions are closed by several calls. The one
  user, the one subscription, the one payment, the cap and the one close must hold.
* *Engagement.* Two paths count one number, a flush carries it from one store to the other; the calls
  share two pools of connections that may be smaller than their number.
* *Feed benchmark.* Two threads add to the same sums without a lock, one of them may die with a batch
  in its hands. The numbers asserted at the end must reconcile, and the drain must come to an end.
* *Calls.* Every call must end, whatever deadlocks it runs into.

`PROJECT.json` lists every hazard with its line and the properties that cover it.

## 2. Modules

| Module | What it is |
|---|---|
| `Money` | quantizing to cents, half even: stakes and payouts |
| `RowLocks` | PostgreSQL's row locks as the code uses them: modes, conflicts, who waits for whom, cycles (external) |
| `BettingTables` | the rows betting reads and writes, the constants of an instance |
| `Wagers` | **abstract**: each betting operation is one indivisible step |
| `Betting` | **detailed**: `place_bet`, `settle_outcome`, `cancel_event` one SQL statement per action |
| `FeedAndBets` | **composition**: `Betting` with the queue of path B and its flushers |
| `MCBetting`, `MCBetting*.cfg`, `MCFeedAndBets` | instances of the two |
| `WagersProofs`, `BettingProofs`, `BettingOrder`, `FeedAndBetsProofs` | theorems and proofs about them |
| `Ticker` | **abstract**: a tick is accepted, lands or is lost in one step, and the cached price with it |
| `OddsFeed`, `MCOddsFeed*` | **detailed**: both write paths and the flusher, one action per round trip |
| `OddsFeedProofs` | theorems and proofs about `OddsFeed`, with the refinement of `Ticker` |
| `FeedRun`, `MCFeedRun` | the benchmark around path B: workers, flusher thread, main thread, drain |
| `FeedRunProofs` | theorems and proofs about `FeedRun` |
| `SeatPool` | **abstract**: subscribing, taking and freeing seats in one step each |
| `Seats`, `MCSeats*` | **detailed**: sign-ups, subscriptions and streaming sessions, one statement per action, and the script of `seed_event_with_session` |
| `SeatsProofs` | theorems and proofs about `Seats`, with the refinement of `SeatPool` |
| `Pings` | the ping counters, one statement or Redis command per action |
| `PooledPings`, `MCPings*` | **composition**: `Pings` with the database's and the Redis client's connection pools |
| `PingsProofs` | theorems and proofs about `Pings` and `PooledPings` |

Conventions. A *call* is one invocation of an operation by some caller; `req[c]` is what it was asked,
`pc[c]` the statement it takes next, `reply[c]` what it told its caller. A row has the name of the call
that inserts it, so ids need no counter. Locals of the Python function that live across statements are
variables per call (`snap`, `rows`, `batch`, `popped`). Uncommitted changes are not in the tables: they
are in the locals until the commit, which applies them all, exactly as other transactions see it under
READ COMMITTED. Locks are taken by the action whose statement takes them and dropped at the end of the
transaction. An answer to a commit may be lost: the commit happened and the caller does not know.
Operators named in a comment as *Mutant* are not part of the model. They are defects a change of the code
could introduce, kept to show that the properties notice them.

### Betting and Wagers

`Wagers` has the five tables as variables and `Place`, `Settle`, `Cancel`, `Buy`, `Feed`, `Advance` as
actions, each with the conditions the docstrings promise. `payments` holds everything that has an idempotency
key: charges, payouts, refunds and subscriptions. `PaymentKey` is the column they share, the callers' `Keys`
and the keys of payouts and refunds, and `Keys` may contain any of these. `Insertable` is what
the columns let in: no key that is taken, no amount NUMERIC(12,2) cannot hold. `Betting` has the same
tables and, per operation, one action per statement:

* `place_bet`: `Start` (quantize, reject stakes that are not positive), `PlaceLockUser`,
  `PlaceCheckKey` (any payment with the key ends the call with that payment's bet_id, which is NULL for a
  subscription), `PlaceLockOutcome`, `PlaceLockEvent`, `PlaceReadPrice` (newest row, its age),
  `PlaceCheckSession` (unlocked), `PlaceInsertBet`, `PlaceInsertPayment`, `PlaceCommit`;
* `settle_outcome`: `SettleLockOutcome`, `SettleLockEvent`, `SettleLockBets`, `SettleInsertPayouts`,
  `SettleReferPayouts`, `SettleCommit`;
* `cancel_event`: `CancelLockOutcome` once per outcome, in the order of ids, then `CancelLockEvent`,
  `CancelLockBets`, `CancelInsertRefunds`, `CancelReferRefunds`, `CancelCommit`;
* `db.py`: `Fail` (error, crash or lost connection at any point), `Deadlocked` (victim, retried
  within `MaxAttempts`).

All three insert into `payments` by `InsertPayments`: it waits for whoever has inserted one of the keys and has
not ended (`SameKeyInFlight`), and fails the whole transaction when a key is taken or an amount does not fit. So a
caller who bets under `payout:{id}` makes the settlement that has to pay that bet fail, now and on every retry.
The payouts of a settlement are one INSERT of several rows, taken as one step; the locks its foreign keys
take on the users (`...Refer...`) come at the end of the statement, and are waited for with the keys in hand.

Around them, and only as far as bets notice, prices arrive (`FeedSnapshots`: the rows of one transaction in
one step, respecting the foreign key locks; the paths behind it are `OddsFeed` and `FeedAndBets`), subscriptions
are bought (`PurchaseCommits`, one step that respects the locks and keys; the statements behind it are in
`Seats`), sessions end, matches start and finish, time passes. Since flushes and purchases have no
statements here, `DeadlockedOutside` stands for the deadlocks a call may have with one: it
rolls back any call that holds something and waits, or asks for an outcome or a user one of those may have.
That is more often than PostgreSQL would, so what never happens here does not happen with fewer rollbacks
either. `ActsAtomically ==
W!Spec` says that `Betting` implements `Wagers` under the identity on the tables: between them the locks turn
statements into indivisible operations.

### FeedAndBets

Ticks are pushed (`QueuePush`) and popped by a flusher in batches of up to `BatchSize` (`FlushPop`, whose
answer may be lost with the batch). The transaction then goes through the positions of its batch, in `todo`, once
for each of its statements: `FlushInsert` (a row waits for an uncommitted one with its key, and is passed over
for one that is committed or in the same batch), `FlushRefer` (at the end of the INSERT the foreign key of each
row that went in locks its outcome), `FlushApply` (the second lock, once per outcome, in the order outcomes
first come in the batch), with `FlushGoesOn` from one to the next. `FlushCommit` makes all rows visible at once,
`FlushFails` rolls them back and loses the batch. A flush keeps the outcomes it has while it waits for the next,
so that it and a cancellation can be on a cycle, which ends by `FlushFails` or `DeadlockedOutside`.

The statements of `Betting` wait for the locks of flushers and theirs for those of calls; the flusher has the
tables of `Betting` under its hands only in `FlushCommit`. `LandsAsFeed` says that this is one
`FeedSnapshots`, which is what makes `FeedAndBets` an implementation of `Betting`. What `OddsFeed` has in detail is
coarse here: the status cache is taken to be out of date whenever that hurts, and of `latest_price`, which no
bet reads, only the lock is left. Path A stays `FeedSnapshots` of one row, guarded by the keys flushers have in
flight (`RecordSnapshot`). A bet and a flush meet at the outcome: the bet holds it FOR UPDATE from
`PlaceLockOutcome` on, so a row that lands while the bet is under way was either there when `PlaceReadPrice`
looked or comes after its commit.

### OddsFeed and Ticker

State: `odds_snapshots`, the cached latest price, the Redis list, counter and status cache with its
expiry, a clock. `RecordValidate`, then the shared transaction `InsertRow` (per row of the INSERT:
CHECK, unique key, ON CONFLICT), `ReferRow` (foreign keys at the end of the statement), `ApplyLatest`
(guarded update), `CommitTicks`; `QueueReadCache`, `QueueReadStatus`, `QueueFillCache`, `QueuePush`;
`FlushPop` and the same transaction for the batch. Settlement and cancellation appear as the locks they
take and the status they leave (`CloseLock`, `CloseCommit`). The number of retries of path A is not
counted here (it either runs again or gives up).

`Ticker` has the rows, the cached prices and two sets of ticks: `pending` (accepted, and neither landed
nor lost) and `gone`. `TicksAtomically` says that `OddsFeed` implements it when a tick is pending while it
is in the Redis list or in the batch of a flush that has not ended, and gone afterwards. The whole
transaction of a batch is then one `Land` or one `Lose`; a row that lands without the cached price, a batch
half landed, a tick taken twice or a price rolled back is none of the steps of `Ticker`.

### FeedRun

`run_path_redis` of the benchmark. `wpc[w]` says where a worker is (`WorkerCheck` compares the clock with
the deadline and takes `captured_at`, `WorkerPush` is the MULTI), `pc["flusher"]` and `pc["main"]` where
the two threads are that flush. A flush is `FlushPop` (LPOP), `FlushWrite` (the transaction), then
`LoadTotal` and `StoreTotal`: `landed += ...` on a nonlocal variable is a read and a write between which
another thread may run. `MainJoinWorkers`, `MainStop`, `MainJoinFlusher` and the drain are the main
thread's lines in order. `FlushFails` is an error of Redis or the database, before or after its effect;
it ends the thread, `WorkerDies` and `MainFails` likewise. The flush is coarser than in `OddsFeed`,
because in this run nobody closes the outcome and nobody else writes its rows; a tick is its
`captured_at`, and ticks with the same one conflict. Each worker comes to at most `MaxTicks` ticks
before the deadline. The `lost` total is left out: the benchmark never asks for a simulated crash.

### Seats and SeatPool

`register_user` (`RegisterInsert` waits for an uncommitted row with the same address and turns the
IntegrityError into a BusinessError), `purchase_subscription` (`Purchase*`), `start_streaming_session`
(`Start*`), `end_streaming_session` (`End*`), the bulk close (`BulkMatch`, `BulkClose` per row in any
order). Each caller runs a *script*: one operation, or the four of `seed_event_with_session` (`Enroll`)
in which the ids of one are the arguments of the next; `Return` goes on to the next operation, an
exception ends the script. Around them events stop, days pass, and bets commit that use a key of the
callers' (`BetCommits`, because `payments` has one space of keys). Purchases, starts and single ends are
retried in the code when they deadlock; `OnlyBulksDeadlock` shows that they never do, so there is no action
for it.

`SeatPool` knows subscriptions, the sessions that watch and those that are gone, and lets one step
subscribe a user who has no subscription, take one free seat, or free seats. `SeatsAtomically` maps them to
the rows of `subscriptions` and to the open and the ended rows of `streaming_sessions`.

### Pings and PooledPings

`record_ping`: `PingReadSession`, `PingUpdate`, `PingCommit`. `record_ping_redis`: `PingReadSession`,
`PingIncr`, with `fail_after_increment`. `flush_counters`: `FlushScan`, `FlushTake` (GETDEL),
`FlushWrite`, `FlushCommit`, `FlushEnd`; SCAN may report a key twice or one that has gone, and owes
those that stay. `PingsConserved` counts pings as the elements of sets: a call whose ping is in the row or
in Redis (`Counted`), one pair for every ping in the hands of a flush (`InHand`), one for every ping a flush
reports as not persisted (`Skipped`).

`PooledPings` runs these actions only while the call has its connection: `PooledRead` and `DbCheckout`
borrow one of the engine's for the length of the transaction, `RedisBorrow` one of the client's for a command.
`GetClient` and `NoClient` are the test of `_client` in `get_redis`, `InitRedis` what follows when it was
None, and other calls come between the two. `PoolTimeout` is the wait for a connection that gives up,
`GiveBack` the `finally` of `tx` and the release after every command.

## 3. Runs

Passing runs:

| Run | Instance | Shows |
|---|---|---|
| `betting_market` | 4 calls, 1 market, 2 users, every operation; keys that are clicked twice, a payout's, or that of another user's purchase | `LedgerBalanced`, `BetsFollowMarket`, `ChargedOnce`, `DoneOnce` |
| `betting_event` | 3 calls, 2 outcomes of 1 event, two users who race for a key, a session, prices and match going on | `WorkIsCurrent` (the inductive invariant), `ChargedOnce`, `MarketLocksOrdered`, `ActsAtomically` |
| `betting_edges` | `FeedAndBets`: 2 calls with unknown ids, stakes at the limits, sessions; newer ticks of 2 outcomes through the queue, a flusher with batches of 2 | `TypeOK`, `BetsOnNewest`, `LandsAsFeed` |
| `betting_answers` | 3 calls of one user with 2 keys, with fairness | `EveryCallAnswers` |
| `feed` | 4 calls over both paths, 2 outcomes, 2 moments, conflicts, batches of 2, unknown ids, refused prices, cache expiry, closings, an outcome seeded with a row | `TypeOK`, `QueuedOutcomesExist`, `TicksConserved`, `Accounted`, `LatestInStep`, `TicksAtomically` |
| `feed_run` | 2 workers with up to 2 ticks each, 2 moments, batches of 2, threads that die, with fairness | `TypeOK`, `Tallied` (the inductive invariant), `Reconciles`, `RunEnds` |
| `seats` | 3 callers; one address in two spellings, keys shared by users and with a bet, free plan, a full plan, single and bulk ends, expiry, the seeding script | `TypeOK`, `OneActiveSubscription`, `PaidOnce`, `BoughtOnce`, `EmailsOnce`, `SeatCap`, `ClosedOnce`, `OnlyBulksDeadlock`, `SeatsAtomically` |
| `pings` | `PooledPings`: 3 calls, 2 events, both paths and flushes, each pool with 1 connection or 3, a client built at the start or by the calls | `TypeOK`, `PingsConserved`, `CountsDiffer`, `PoolsOK`, `NoCircle`, `RedisBounded` |

Runs that end in a counterexample state what the repository's own text says and the code does not do:

| Run | Text | What happens |
|---|---|---|
| `betting_deadlock` | betting.py:94 "no deadlock" | a bet holds its user and wants the outcome, a settlement holds the outcome and must pay that user |
| `feed_seeded` | models.py:154 "kept in step with the newest OddsSnapshot row" | on seeded rows an old tick sets the cached price |
| `feed_lost` | CONTEXT.md:24 "only nonzero when a crash is deliberately injected" | a flush deadlocks with a cancellation after the pop and is not retried |
| `seats_renew` | team-buisness.md:19 "a subscription renewal" | an expired subscription still counts as active |

Four more disagreements have no run of their own. A settlement may commit between the check of
`record_odds_update` and its insert, which is then not rejected, against 302-alternative.md:125 ("the
SQL path rejects at once"). The TTL of the status cache starts at the SET, after
a read that may be older than a settlement, so ticks are taken for somewhat longer than the comment at
odds_feed.py:26 says. A streaming session may end between the check of `place_bet` and its commit. Bulk
closes can deadlock (`OnlyBulksDeadlock` allows it) and are not retried, against ADR.md:106.

Bounds, and why they are enough. Two transactions can conflict over a row, three can hide a third
one's effect from one of them, and the fourth call lets something be there to conflict over (a bet to
settle while another is placed). Two users and two keys give same-user, cross-user, same-key and
other-key retries; in `betting_market` the second user bets under the key of any payout, and buys a
subscription under the key the first one bets with, in `betting_event` both bet with the same key, on different
outcomes, so that nothing but the unique index keeps them apart. There three calls do: two to conflict and
a third that has left its bet behind, or holds the lock one of them waits for.
Two outcomes in one event are what lock order is about. `MaxMoney` is a
thousand cents in place of NUMERIC(12,2), so that stakes and payouts reach it; amounts are
few and chosen so that stakes and payouts need rounding (a stake of 1.005 is one of 1.00, and 1.00 × 2.005 has
three decimals). `MaxAttempts` is 2 instead of 5 in
`betting_answers`, where the first retry and giving up are the two cases, and 1 in the safety runs: what a run
again does is what another call with the same request does, and the proofs cover any number. `MaxOddsAge` is 0 or 1 tick of a clock of two readings. In
`OddsFeed`, two moments with one of them shared between the paths give newer, older and equal ticks;
the TTL is one tick of the clock; batches of two hold two ticks of one outcome or of two. In
`FeedAndBets` one tick for each of two outcomes and a flusher that pops both are enough for a bet to commit
while its tick is in the queue, in the flusher's hands, waiting for the bet's lock or for the other outcome's,
landed or lost; two calls let a cancellation, which wants both outcomes, or a second bet be there too, and the
proofs cover any number of calls, flushers and ticks and any size of batches. In
`FeedRun` four ticks over two moments fill a batch twice, leave one half full, land, and conflict within a
batch and between batches. In `Seats` a month is a day and a day the unit of the calendar; the third caller lets two
race while the third has what they race for, and the seeding script is long enough to be overtaken between any
two of its transactions. In `PooledPings` a pool of one is where calls wait for each other, a pool as
large as the calls is where nobody does; two events are what SCAN needs to owe one and repeat another.
Calls are symmetric in every run without liveness.

Deadlock checking is on everywhere: `Finished` lets a system stutter whose calls have all answered, so
anything else that stops is reported.

Fairness is assumed in two runs. In `betting_answers`: `WF(Step(c))`, a transaction that can take its next
statement eventually does (the database executes what it is sent, and locks are granted when free), and
`WF(Deadlocked(c))`, PostgreSQL's deadlock detector runs whenever a wait has lasted `deadlock_timeout`; of the
flushes and purchases behind `DeadlockedOutside`, which may roll a call back but never have to, nothing is assumed.
Nothing is assumed of callers, the feed, the clock, or failures. Weak fairness is enough because the
attempts are bounded; the mutant that retries forever shows a livelock. In `feed_run`: the operating
system runs each worker, the flusher and the main thread when they have something to do, and the
deadline passes (`time.perf_counter` goes on). No thread is assumed to fail or not to fail.

## 4. Proofs

For every number of calls, users, outcomes, keys, stakes and prices, from the assumptions named in
`BettingTables` and `Betting` (`TablesAssumption`, `SeedAssumption`, `NullAssumption`, and that of the
requests), TLAPS checks:

* `WagersTypes`, `WagersLedger`, `WagersMarket`, `WagersKeys`: in the abstract specification the tables keep
  their types, every bet has the payments its state calls for, a pending bet has an open market, and a key is on
  one payment, whoever inserted it.
  `WagersProofs` begins with the arithmetic: a payout is at least the stake, because prices are above 1.
* `BettingTypes`, `ReadsStayCurrent`: `Inv == TypeOK /\ WorkIsCurrent` is an invariant of `Betting`.
* `BettingImplementsWagers`: `Spec => W!Spec`.
* `MoneyBalances`, `NoBetLeftBehind`: therefore the ledger and the market invariants hold of the
  interleaved transactions.
* `DoneOnlyOnce`, `ChargedOnlyOnce`: what callers are told. No two calls are told that they settled the
  same outcome or cancelled the same event. Whoever is told that a bet was placed has it charged as the only
  payment under the key; a replay is told of the one payment under the key, be it a bet's, a payout's, a
  refund's or, with no bet, a subscription's.
* `MarketsNeverDeadlock`: no cycle of waiting calls goes through outcomes, events, what lies under them and
  idempotency keys alone; every deadlock of calls with each other goes through a row of `users`.

For every number of flushers and ticks and every size of batches on top of that (`FlushersAssumption`):

* `FeedImplementsBetting`: `FeedSpec => Spec`, so everything above holds with the queue beside it
  (`FeedKeepsBooks` says so of the types, the ledger and the markets).
* `FlushesLandAsFeed`, `BetsLockInNewest`: the rows of a flush, of however many outcomes, are one `FeedSnapshots`
  under the locks of them all; a bet commits at the newest recorded price, and an accepted tick newer than that is still on its way or was lost.

For every number of calls, events, sessions and any sizes of the pools (`PoolsAssumption`):

* `PingTypes`, `NoLostUpdate`: two pings recorded on one event by `record_ping` were told different counts.
* `PoolsImplementPings`: `PooledSpec => Spec` of `Pings`, so that this holds with the pools too.
* `EveryPingCountsOnce`: the pings that were recorded or incremented are those in the row, in Redis, in the
  hands of a flush and among what flushes report as not persisted, for each event, at every moment
  (`PooledPingsKeepBooks` says so, with the types and the counts, of the calls that share pools).
* `ConnectionsComeBack`, `NobodyWaitsInCircle`: connections are lent within the size and to calls in a
  transaction or a command only; of any set of calls one does not wait for the others.
* `RedisNeverOversubscribed`: what runs in Redis fits the pools of the clients that have been built, and the
  one pool if `init_redis` came first.

For every number of callers, users, plans, seats, sessions and keys, any scripts and any seeded rows
(`SeatsAssumption`, `SeedsAssumption`: the rows are what the constraints of the tables allow, ids are not
names of calls, a canonical address is its own, and there are finitely many sessions to name):

* `SeatsTypes`, `OneUserPerAddress`, `OneSubscriptionPerUser`, `OnePaymentPerKey`, `RetriesAreToldTheTruth`,
  `SeatsKept`, `EverySessionClosedOnce`: the invariants of the run `seats`.
* `OnlyBulkClosesDeadlock`: a call on a cycle of waiting calls is a bulk close.
* `SeatsImplementPool`: `Spec => Pool!Spec`, the statements do what the indivisible operations of `SeatPool` do.

For every finite number of calls on both paths of the feed, any outcomes, moments, prices, batch size and
expiry (`FeedAssumption`: moments and prices are numbers, the seeded rows are rows and finitely many, `None`
is nothing else, and the ids of outcomes are numbers, as their columns are):

* `FeedTypes`, `OnlyKnownOutcomesQueued`, `EveryTickInOnePlace`, `FeedAddsUp`, `CachedPriceIsNewest`: the
  invariants of the run `feed`.
* `FeedImplementsTicker`: `Spec => Feed!Spec`, the round trips of both paths act as the steps of `Ticker`.

For every number of workers, ticks, moments and any batch size (`FeedRunAssumption`):

* `RunTypes`, `BooksInOrder`: `TypeOK` and `Tallied` are invariants of `FeedRun`.
* `RunReconciles`: therefore the assertions that end `run_path_redis` hold unless the flusher failed.

Why `Inv` of `Betting`. `LedgerBalanced` is not inductive for `Betting`: a settlement commits payouts for the bets in
`rows[c]`, and nothing in `LedgerBalanced` says that these are still the pending bets. `WorkIsCurrent`
says it: what each call has read under its locks still stands (`PlaceCurrent`, `SettleCurrent`,
`CancelCurrent`, per statement already passed), what it has inserted into `payments` still can be and nobody
else has inserted the same key (`KeysCurrent`), and no two transactions hold conflicting locks. It is
inductive because whoever could make a call's knowledge stale has to hold a lock that conflicts with
the call's own. The argument has three parts: *quiet* steps, all but the three commits, leave the
tables alone and touch only their own call (`QuietKeeps`, `PlaceIsQuiet`, `SettleIsQuiet`,
`CancelIsQuiet`, `FailIsQuiet`, `RetryIsQuiet`); a *commit* changes only what lies under its own locks
and adds only the keys it alone has inserted
(`Footprint`, `CommitKeeps`, `CommitKeepsKeys`) and is, given its `...Current`, the step of `Wagers` (`PlaceCommits`,
`SettleCommits`, `CancelCommits`); the *environment* respects the locks and the keys
(`EnvironmentKeeps`).
`NextKeeps` puts them together.

Why `Tallied`. `Reconciles` speaks of the end only. `Tallied` says at every moment where an accepted tick
is (`Balanced`: in the sums, in the list, or in one thread's hands), and that these hands are one pair:
the main thread flushes only after the flusher has ended (`InOrder`), so what a thread has loaded of the
sums is still what they are when it stores them (`HandsClear`); and a drain that pops nothing leaves
nothing (`Drained`). `BooksBalance` is the arithmetic the steps of a flush share, `Landing` the counting
of rows: what `ON CONFLICT DO NOTHING` adds is between nothing and the length of the batch.

Why `AnswerInv` and `LocksInv` of `BettingOrder`. `DoneOnce` and `ChargedOnce` speak of answers given long
before, so the invariant says what an answer left behind: a settled outcome is not open, a cancelled
event is cancelled, a bet that was placed has its charge under the caller's key, a replay has a payment with
that key and its bet_id (`AnswerOK`). That a key has no other payment is `OnePaymentPerKey` of `Wagers`, which
`Betting` has by refinement. The tables never take this back (`TablesKeep`), and a second settlement or
cancellation finds it. `MarketLocksOrdered` needs to know what a call holds at each statement that locks a
market: users, then outcomes in ascending order, then the event (`LockedSoFar`), and bets only under their
outcome (`LockedUnder`). From a call that waits, one then goes on to calls that are further: for an event all that
are past it (`PastTheEvent`), for an outcome all that hold only later ones (`PastOutcome`), for a key those
that have inserted theirs, which wait for users only (`PastTheKeys`). These sets are
closed under waiting, and the call itself is not among them (`PastIsClosed`, `OrderedWaits`).

Why `FeedInv` of `FeedAndBetsProofs`. A flush that commits has to be one `FeedSnapshots`: all its keys must
still be free, they must differ from each other, and no call may hold any of its outcomes against it. So the
invariant says that the keys of uncommitted rows are not recorded, are one flusher's only and one row's in its
batch (`Flushing`, `OneInsert`); that at its updates a flush has the outcome of every row it has inserted
locked, which takes going through the positions one by one (`Through`, `Reference`); and that its locks do not conflict
with anybody's (`Apart`), which the statements of `Betting` respect because they wait for flushers. That an
accepted tick is in sight or has its key recorded (`NoneForgotten`) gives `BetsOnNewest` together with
`WorkIsCurrent`: the price a bet has read under its lock is the newest row's when it commits. It rests on
`Covered`: the INSERT passes over a position only for a row with its key, recorded or the flusher's own, and `PopShape`: what
is popped and what is left are what there was.

Why `PingInv` and `PoolInv` of `PingsProofs`. No count is told twice because the count a call is about to
commit exceeds the row's (`CallOK`), because the call has the row locked alone (`OneWriter`). For the pools
it matters where in its operation a call can be while it has a connection. `NobodyWaitsInCircle` then looks
at a set of calls that all wait for each other: whoever waits for a row waits for a call that is about to
commit, whoever waits for Redis for one inside a command, and these wait for nothing; so all would have to
wait for the database while one of them has its connection.

Why `Conserving` and `RedisInv`. `PingsConserved` is `Balanced` without what makes it inductive: that the
sets are finite, and what is in a call's hands where it is (`OnHand`). A call before its UPDATE or INCR has no
count and one that has not popped has nothing, so a ping starts to count in one step only; and what a
commit writes is what is in the row plus what it adds, because the row has been locked since it was read. A
step then adds one element to `Counted` (`OneMore`), moves a block of pings from the counter to a flush's
hands or to its report (`TakeKeeps`), from its hands to the row (`FlushCommitKeeps`), or moves nothing
(`MovesNothing`). `RedisInv` bounds the borrowers of every client that has been built; a client `init_redis`
has built before there are calls stays the only one, since nobody finds `_client` None. `AtMostEach` sends a
call to its client and its number there, which is an injection, for the bound on all of them.

Why the parts of the invariant of `SeatsProofs`. None of the properties is inductive alone, for each speaks
of rows that a statement has looked for some statements earlier. `Shape` says where a call is, which rows it
knows of and which lock it has there: a purchase that of its user, a start that of its subscription, a call
between two transactions none. On it rest `Addresses` (a sign-up about to commit has its address alone:
others wait for the uncommitted row), `Purchases` (two purchases past their lock have different users, and
one that has found no subscription is still right), `Receipts` (the key of a purchase about to commit is
free, and no other's), `Seating` (two starts past their lock have different subscriptions, and a seat that
was free when it was counted is free) and `Closing` (what a call is about to close is open, and locked by
nobody else). `OnlyBulksDeadlock` follows from `Shape` and `Purchases` alone: starts past their lock wait for
purchases past theirs, these for purchases about to commit, and these for nobody; whoever is not past a lock
holds nobody up.

Why the parts of the invariant of `OddsFeedProofs`. `Shape` again, with what a call has in its hands: a
batch, which of it is done, which rows it has inserted and which prices it has set. `Placing`: a tick in a
place was sent by the call it is named after, which has ended, and the places are one list. A pop moves the
front of the list to a batch (`Front`, `Rest`), and a push adds one place. `Keys`: an uncommitted row has
its key alone, and a position that was passed over was passed over for a reason that is still there
(`Covered`). `Pricing`: a call that has set an outcome's price has its row locked, and has set it exactly
when its newest tick of the outcome is newer than what is cached (`Rolling`); so when the rows and the prices
land together the cached price is again the newest row's. `Telling`: a report accounts for its batch
(`Told`), and the table has grown by what was reported. The refinement maps a tick to `pending` while its
place is the list or the batch of a call that has not ended. A step then makes ticks go (`TicksGo`), come
(`TicksCome`) or move (`TicksPop`), and a commit is one step of `Ticker`, as its rows have new keys
(`CommitInserts`) and the prices move as its `Land` says (`CommitRollsForward`).

Sums are sizes of sets. `Accounted`, `ClosedOnce` and `PingsConserved` add numbers over all calls, which would
need induction to reason about; they say the same of sets with one element for every unit (a pair of a call
and a number up to its count), and a step changes such a set by a block of known size.

Only model-checked: liveness (`EveryCallAnswers`, `RunEnds`), which is out of the prover's reach, as is
everything with ENABLED. The four counterexamples are runs, and need no proof.

## 5. Plan

Done: all operations of the package, each as the interleaving transactions and Redis commands it is; the
compositions of betting with the feed and of the pings with their pools; an abstract specification of
betting (`Wagers`), of the feed (`Ticker`) and of subscriptions (`SeatPool`), all three proved to be
implemented; the feed benchmark, proved to reconcile. Every invariant and every refinement that a passing run
checks has its theorem.

Left:

1. What the abstract specifications keep, as theorems of their own about `Ticker` and `SeatPool`, so that a
   reader can rely on them without the detailed modules.
2. The flush of `FeedRun` as the flush of `OddsFeed` when nobody closes the outcome.

## 6. Not modelled

* SQLite, which tests use and which runs one transaction at a time; `create_tables`,
  `ensure_latest_price_columns` and what of `init_engine` is not the size of its pool (set-up).
* `count_snapshots_for`, the price `record_ping` returns, password hashes, titles, currencies, payment
  methods: read or written once, and no property depends on them.
* `seed_demo_flow` and the seeding of plans and odds, which run alone and first: their rows are the initial
  tables of the instances.
* The other benchmarks and the tests, which call the operations and add no state of their own;
  `run_path_postgres`, whose threads only call `record_odds_update` and count under a lock.
* Connection pools outside `PooledPings`: every other operation holds one connection of one pool at a time
  (`record_odds_update_redis` has returned its session's before it pushes), so only the waiting is
  left out.
* Two finer points of PostgreSQL: an UPDATE that finds, after waiting, that the row no longer matches
  keeps the row locked in PostgreSQL and not in `OddsFeed` and `Seats`; waiting transactions are not
  queued in order of arrival.
