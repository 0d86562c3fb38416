------------------------------ MODULE OddsFeed ------------------------------
(***************************************************************************)
(* operations/odds_feed.py: the two ways a price gets into odds_snapshots. *)
(* record_odds_update (path A) is one transaction.                         *)
(* record_odds_update_redis (path B) checks a status cached in Redis and   *)
(* queues the tick there, and flush_odds_queue pops a batch, inserts it    *)
(* and rolls the cached latest prices forward.  Settlements and            *)
(* cancellations come in as the row locks and the status they leave.       *)
(*                                                                         *)
(* One action per round trip to Redis or PostgreSQL (READ COMMITTED).  A   *)
(* tick has the name of the call that brings it.                           *)
(***************************************************************************)
EXTENDS Integers, FiniteSets, FiniteSetsExt, Sequences, RowLocks

CONSTANTS
  Calls,          \* invocations of the operations
  Requests,       \* what callers may ask for
  Outcomes,       \* outcome_id's with a row, ordered as integers
  OutcomeIds,     \* outcome_id's callers may name
  Times, Prices,  \* captured_at and price (in thousandths) of ticks
  BatchSize,      \* flush_odds_queue(batch_size)
  TTL,            \* OUTCOME_STATUS_TTL_SECONDS
  MaxClock,       \* the clock of Redis is followed up to here
  SeedSnapshots,  \* rows of odds_snapshots that came without latest_price (seed.py)
  None            \* NULL

Tick     == [op : {"record", "queue"}, outcome : OutcomeIds, at : Times, price : Prices]
Flush    == [op : {"flush"}]
Close    == [op : {"close"}, outcomes : SUBSET Outcomes, settles : BOOLEAN]
Snapshot == [outcome : Outcomes, at : Times, price : Prices]

ASSUME FeedAssumption ==
  /\ Requests \subseteq Tick \cup Flush \cup Close
  /\ Outcomes \subseteq OutcomeIds /\ Outcomes \subseteq Int
  /\ Times \subseteq Nat /\ Prices \subseteq Nat
  /\ BatchSize \in Nat \ {0} /\ TTL \in Nat \ {0} /\ MaxClock \in Nat
  /\ SeedSnapshots \subseteq Snapshot /\ IsFiniteSet(SeedSnapshots)
  /\ IsFiniteSet(Calls)
  /\ None \notin Calls \cup Requests \cup Snapshot

VARIABLES
  snapshots,   \* odds_snapshots
  latest,      \* outcomes.latest_price and latest_captured_at, as a snapshot
  settled,     \* the outcomes whose status a settlement took from open
  cache,       \* Redis: the outcome_status_key's
  queue,       \* Redis: the list at odds_queue_key
  accepted,    \* Redis: the counter at odds_accepted_key
  now,         \* the clock that expires the cache
  req, pc,     \* what each call was asked, and the step it takes next
  held,        \* the row locks of its transaction
  inserted,    \* the ticks its transaction has inserted
  rolled,      \* the ticks its transaction has set a latest price from
  batch,       \* flush_odds_queue: raw; record_odds_update: its own tick
  todo,        \* the positions in its batch that the loop it is in has left
  found,       \* record_odds_update_redis: db_status
  reply

postgres == <<snapshots, latest, settled>>
redis    == <<cache, queue, accepted>>
work     == <<held, inserted, rolled, batch, todo, found>>
vars     == <<postgres, redis, now, req, pc, work, reply>>

Labels == {"idle", "validate", "insert", "refer", "apply", "commit", "cache", "lookup",
           "fill", "push", "pop", "lock", "done"}
Report(kind, landed, conflicts, lost) ==
  [kind |-> kind, landed |-> landed, conflicts |-> conflicts, lost |-> lost]

Init ==
  /\ snapshots = SeedSnapshots
  /\ latest = [o \in Outcomes |-> None]
  /\ settled = {}
  /\ cache = [i \in OutcomeIds |-> None]
  /\ queue = <<>>
  /\ accepted = 0
  /\ now = 0
  /\ req = [c \in Calls |-> None]
  /\ pc = [c \in Calls |-> "idle"]
  /\ held = [c \in Calls |-> {}]
  /\ inserted = [c \in Calls |-> {}]
  /\ rolled = [c \in Calls |-> {}]
  /\ batch = [c \in Calls |-> <<>>]
  /\ todo = [c \in Calls |-> {}]
  /\ found = [c \in Calls |-> None]
  /\ reply = [c \in Calls |-> Report("none", 0, 0, 0)]

-----------------------------------------------------------------------------
At(c, op, label) == pc[c] = label /\ req[c].op = op
Row(t) == [outcome |-> req[t].outcome, at |-> req[t].at, price |-> req[t].price]
SameKey(r, s) == r.outcome = s.outcome /\ r.at = s.at

\* outcomes.status, as a SELECT without a lock sees it.
Status(i) == IF i \notin Outcomes THEN "missing" ELSE IF i \in settled THEN "closed" ELSE "open"

\* The positions of a batch that are about the outcome of position i.
Like(ticks, i) == {j \in DOMAIN ticks : Row(ticks[j]).outcome = Row(ticks[i]).outcome}

\* Mutant: rows[-1], the last of an outcome's entries whatever its captured_at.
LastLike(ticks, i) ==
  ticks[CHOOSE k \in Like(ticks, i) : \A j \in Like(ticks, i) : j <= k]

\* latest_per_outcome.  A dict has its keys in the order they first came in, and
\* the value of each is its newest tick of the batch, the first of equals.
FirstOnes(ticks) == {i \in DOMAIN ticks : \A j \in Like(ticks, i) : i <= j}

AtLeastAsNew(ticks, j, k) ==
  \/ Row(ticks[j]).at > Row(ticks[k]).at
  \/ Row(ticks[j]).at = Row(ticks[k]).at /\ j <= k

NewestLike(ticks, i) ==
  ticks[CHOOSE k \in Like(ticks, i) : \A j \in Like(ticks, i) : AtLeastAsNew(ticks, k, j)]

\* Mutant: _apply_latest_price without its second WHERE.
RollsAlways(t) == TRUE

\* latest_captured_at IS NULL OR latest_captured_at < captured_at
RollsForward(t) ==
  LET known == latest[Row(t).outcome]
  IN  known = None \/ known.at < Row(t).at

\* The outcomes a settlement (one) or a cancellation (in order) still has to lock.
Unlocked(c) == {o \in req[c].outcomes : held[c] \cap ForUpdate("outcome", {o}) = {}}
First(os)   == {o \in os : \A x \in os : o <= x}

\* The loop a call is in goes through its batch in order, in "apply" through the dict
\* of the newest ticks.
Current(c) == CHOOSE i \in todo[c] : \A j \in todo[c] : i <= j
Left(c)    == todo[c] \ {Current(c)}
Item(c)    == IF pc[c] = "apply" THEN NewestLike(batch[c], Current(c)) ELSE batch[c][Current(c)]

\* The locks the statement at pc[c] takes: a foreign key, an UPDATE, lock().
Wanted(c) ==
  CASE pc[c] = "refer" -> KeyShare("outcome", {Row(Item(c)).outcome})
    [] pc[c] = "apply" /\ RollsForward(Item(c)) ->
         NoKeyUpdate("outcome", {Row(Item(c)).outcome})
    [] pc[c] = "lock" -> ForUpdate("outcome", First(Unlocked(c)))
    [] OTHER -> {}

\* The transactions that have inserted the key of the next row and have not ended.
SameKeyInFlight(c) ==
  {d \in Calls \ {c} : \E u \in inserted[d] : SameKey(Row(u), Row(Item(c)))}

WaitsFor == [c \in Calls |->
  Holders(held, c, Wanted(c)) \cup (IF pc[c] = "insert" THEN SameKeyInFlight(c) ELSE {})]

Granted(c) == Holders(held, c, Wanted(c)) = {}
Take(c)    == held' = [held EXCEPT ![c] = @ \cup Wanted(c)]
Go(c, label) == pc' = [pc EXCEPT ![c] = label]

\* The call ends, its transaction with it; what it popped stays popped.
Answer(c, report) ==
  /\ Go(c, "done")
  /\ reply' = [reply EXCEPT ![c] = report]
  /\ held' = [held EXCEPT ![c] = {}]
  /\ inserted' = [inserted EXCEPT ![c] = {}]
  /\ rolled' = [rolled EXCEPT ![c] = {}]
  /\ todo' = [todo EXCEPT ![c] = {}]
  /\ found' = [found EXCEPT ![c] = None]
  /\ UNCHANGED <<now, req>>
End(c, kind) == Answer(c, Report(kind, 0, 0, 0))
Return(c, kind) == End(c, kind) /\ UNCHANGED <<postgres, redis, batch>>

FirstLabel(r) ==
  CASE r.op = "record" -> "validate" [] r.op = "queue" -> "cache"
    [] r.op = "flush" -> "pop" [] r.op = "close" -> "lock"

Start(c, r) ==
  /\ pc[c] = "idle"
  /\ req' = [req EXCEPT ![c] = r]
  /\ Go(c, FirstLabel(r))
  /\ UNCHANGED <<postgres, redis, now, work, reply>>

-----------------------------------------------------------------------------
\* record_odds_update

\* _validate_open_outcome reads without a lock.
RecordValidate(c) ==
  /\ At(c, "record", "validate")
  /\ \/ /\ Status(req[c].outcome) = "open"
        /\ batch' = [batch EXCEPT ![c] = <<c>>]
        /\ todo' = [todo EXCEPT ![c] = {1}]
        /\ Go(c, "insert")
        /\ UNCHANGED <<postgres, redis, now, req, held, inserted, rolled, found, reply>>
     \/ Status(req[c].outcome) # "open" /\ Return(c, "rejected")

-----------------------------------------------------------------------------
\* record_odds_update_redis

\* The cached status, the database only on a miss.
QueueReadCache(c) ==
  LET hit == cache[req[c].outcome]
  IN  /\ At(c, "queue", "cache")
      /\ \/ hit = None /\ Go(c, "lookup") /\ UNCHANGED <<postgres, redis, now, req, work, reply>>
         \/ /\ hit # None /\ hit.status = "open"
            /\ Go(c, "push") /\ UNCHANGED <<postgres, redis, now, req, work, reply>>
         \/ hit # None /\ hit.status # "open" /\ Return(c, "rejected")

QueueReadStatus(c) ==
  /\ At(c, "queue", "lookup")
  /\ found' = [found EXCEPT ![c] = Status(req[c].outcome)]
  /\ Go(c, "fill")
  /\ UNCHANGED <<postgres, redis, now, req, held, inserted, rolled, batch, todo, reply>>

\* Mutant: only what the database calls closed is turned away.
QueueFillUnknown(c) ==
  /\ At(c, "queue", "fill")
  /\ cache' = [cache EXCEPT ![req[c].outcome] = [status |-> found[c], until |-> now + TTL]]
  /\ UNCHANGED <<postgres, queue, accepted, batch>>
  /\ \/ found[c] # "closed" /\ Go(c, "push")
        /\ UNCHANGED <<now, req, held, inserted, rolled, todo, found, reply>>
     \/ found[c] = "closed" /\ End(c, "rejected")

\* SET ... EX 5, of what the database said a moment ago.
QueueFillCache(c) ==
  /\ At(c, "queue", "fill")
  /\ cache' = [cache EXCEPT ![req[c].outcome] = [status |-> found[c], until |-> now + TTL]]
  /\ UNCHANGED <<postgres, queue, accepted, batch>>
  /\ \/ found[c] = "open" /\ Go(c, "push")
        /\ UNCHANGED <<now, req, held, inserted, rolled, todo, found, reply>>
     \/ found[c] # "open" /\ End(c, "rejected")

\* RPUSH and INCR in one MULTI; the answer may be lost with the connection.
QueuePush(c) ==
  /\ At(c, "queue", "push")
  /\ queue' = Append(queue, c)
  /\ accepted' = accepted + 1
  /\ End(c, "accepted") \/ End(c, "crashed")
  /\ UNCHANGED <<postgres, cache, batch>>

-----------------------------------------------------------------------------
\* flush_odds_queue

\* Mutant: LPOP without the batch size.
FlushPopAll(c) ==
  /\ At(c, "flush", "pop")
  /\ queue # <<>>
  /\ queue' = <<>>
  /\ batch' = [batch EXCEPT ![c] = queue]
  /\ todo' = [todo EXCEPT ![c] = DOMAIN queue]
  /\ Go(c, "insert")
  /\ UNCHANGED <<postgres, cache, accepted, now, req, held, inserted, rolled, found, reply>>

\* Mutant: LRANGE, and LTRIM only after the commit.
FlushPeek(c) ==
  LET n == Min({BatchSize, Len(queue)})
  IN  /\ At(c, "flush", "pop")
      /\ n > 0
      /\ batch' = [batch EXCEPT ![c] = SubSeq(queue, 1, n)]
      /\ todo' = [todo EXCEPT ![c] = 1 .. n]
      /\ Go(c, "insert")
      /\ UNCHANGED <<postgres, redis, now, req, held, inserted, rolled, found, reply>>

\* LPOP with a count; with probability p the batch is dropped.
FlushPop(c) ==
  LET n == Min({BatchSize, Len(queue)})
  IN  /\ At(c, "flush", "pop")
      /\ queue' = SubSeq(queue, n + 1, Len(queue))
      /\ batch' = [batch EXCEPT ![c] = SubSeq(queue, 1, n)]
      /\ UNCHANGED <<postgres, cache, accepted>>
      /\ \/ /\ n > 0 /\ Go(c, "insert")
            /\ todo' = [todo EXCEPT ![c] = 1 .. n]
            /\ UNCHANGED <<now, req, held, inserted, rolled, found, reply>>
         \/ n > 0 /\ Answer(c, Report("skipped", 0, 0, n))
         \/ n = 0 /\ End(c, "flushed")

-----------------------------------------------------------------------------
\* The transaction of record_odds_update and of flush_odds_queue.

\* The next loop of the statement or of the code, if it has anything to do.
Onward(c, rows) ==
  IF rows # {} THEN Go(c, "refer") /\ todo' = [todo EXCEPT ![c] = rows]
               ELSE Go(c, "apply") /\ todo' = [todo EXCEPT ![c] = FirstOnes(batch[c])]

\* One row of the INSERT.  It waits for a transaction that has inserted its key;
\* a key that is taken fails record_odds_update and is passed over by
\* flush_odds_queue (ON CONFLICT DO NOTHING).
InsertRow(c) ==
  LET t == Item(c)
      taken == \/ \E s \in snapshots : SameKey(s, Row(t))
               \/ \E u \in inserted[c] : SameKey(Row(u), Row(t))
      ins == IF taken THEN inserted[c] ELSE inserted[c] \cup {t}
  IN  /\ pc[c] = "insert" /\ SameKeyInFlight(c) = {}
      /\ \/ /\ Row(t).price <= 1000 \/ (taken /\ req[c].op = "record")
            /\ Return(c, "failed")
         \/ /\ Row(t).price > 1000 /\ ~ (taken /\ req[c].op = "record")
            /\ inserted' = [inserted EXCEPT ![c] = ins]
            /\ IF Left(c) # {}
                 THEN todo' = [todo EXCEPT ![c] = Left(c)] /\ UNCHANGED pc
                 ELSE Onward(c, {i \in DOMAIN batch[c] : batch[c][i] \in ins})
            /\ UNCHANGED <<postgres, redis, now, req, held, rolled, batch, found, reply>>

\* The foreign keys of the rows, in order, at the end of the INSERT.
ReferRow(c) ==
  /\ pc[c] = "refer" /\ Granted(c)
  /\ Take(c)
  /\ Onward(c, Left(c))
  /\ UNCHANGED <<postgres, redis, now, req, inserted, rolled, batch, found, reply>>

\* _apply_latest_price, on the row as it is once it is locked.
ApplyLatest(c) ==
  LET t == Item(c)
  IN  /\ pc[c] = "apply" /\ Granted(c)
      /\ Take(c)
      /\ rolled' = IF RollsForward(t) THEN [rolled EXCEPT ![c] = @ \cup {t}] ELSE rolled
      /\ todo' = [todo EXCEPT ![c] = Left(c)]
      /\ IF Left(c) # {} THEN UNCHANGED pc ELSE Go(c, "commit")
      /\ UNCHANGED <<postgres, redis, now, req, inserted, batch, found, reply>>

\* Mutant: the rows of the batch counted instead of the rows RETURNING names.
CommitCountingBatch(c) ==
  /\ pc[c] = "commit" /\ req[c].op \in {"record", "flush"}
  /\ snapshots' = snapshots \cup {Row(t) : t \in inserted[c]}
  /\ latest' = [o \in Outcomes |->
       IF \E t \in rolled[c] : Row(t).outcome = o
         THEN Row(CHOOSE t \in rolled[c] : Row(t).outcome = o) ELSE latest[o]]
  /\ UNCHANGED <<settled, redis, batch>>
  /\ Answer(c, IF req[c].op = "record" THEN Report("recorded", 0, 0, 0)
               ELSE Report("flushed", Len(batch[c]), 0, 0))

CommitTicks(c) ==
  LET landed == Cardinality(inserted[c])
      report == IF req[c].op = "record" THEN Report("recorded", 0, 0, 0)
                ELSE Report("flushed", landed, Len(batch[c]) - landed, 0)
  IN  /\ pc[c] = "commit" /\ req[c].op \in {"record", "flush"}
      /\ snapshots' = snapshots \cup {Row(t) : t \in inserted[c]}
      /\ latest' = [o \in Outcomes |->
           IF \E t \in rolled[c] : Row(t).outcome = o
             THEN Row(CHOOSE t \in rolled[c] : Row(t).outcome = o) ELSE latest[o]]
      /\ UNCHANGED <<settled, redis, batch>>
      /\ Answer(c, report) \/ End(c, "crashed")

-----------------------------------------------------------------------------
\* settle_outcome and cancel_event, as far as the feed meets them.

CloseLock(c) ==
  /\ At(c, "close", "lock") /\ Granted(c)
  /\ Take(c)
  /\ IF Unlocked(c) \subseteq First(Unlocked(c)) THEN Go(c, "commit") ELSE UNCHANGED pc
  /\ UNCHANGED <<postgres, redis, now, req, inserted, rolled, batch, todo, found, reply>>

CloseCommit(c) ==
  /\ At(c, "close", "commit")
  /\ settled' = IF req[c].settles THEN settled \cup req[c].outcomes ELSE settled
  /\ End(c, "closed")
  /\ UNCHANGED <<snapshots, latest, redis, batch>>

-----------------------------------------------------------------------------
Active(c) == pc[c] \notin {"idle", "done"}

\* The process dies, or loses a connection.
Crash(c) == Active(c) /\ Return(c, "crashed")

\* The victim of a deadlock is rolled back; retry_on_conflict runs it again
\* until its attempts are used up, which flush_odds_queue does not have.
Deadlocked(c) ==
  /\ OnCycle(c, WaitsFor)
  /\ \/ /\ req[c].op # "flush"
        /\ Go(c, FirstLabel(req[c]))
        /\ held' = [held EXCEPT ![c] = {}]
        /\ inserted' = [inserted EXCEPT ![c] = {}]
        /\ rolled' = [rolled EXCEPT ![c] = {}]
        /\ todo' = [todo EXCEPT ![c] = {}]
        /\ UNCHANGED <<postgres, redis, now, req, batch, found, reply>>
     \/ Return(c, "failed")

\* Time passes, cached statuses expire.
ClockTick ==
  /\ now < MaxClock
  /\ now' = now + 1
  /\ cache' = [i \in OutcomeIds |->
       IF cache[i] # None /\ cache[i].until <= now + 1 THEN None ELSE cache[i]]
  /\ UNCHANGED <<postgres, queue, accepted, req, pc, work, reply>>

Finished == (\A c \in Calls : pc[c] = "done") /\ UNCHANGED vars

Record(c) == RecordValidate(c)
Queue(c)  == QueueReadCache(c) \/ QueueReadStatus(c) \/ QueueFillCache(c) \/ QueuePush(c)
Write(c)  == InsertRow(c) \/ ReferRow(c) \/ ApplyLatest(c) \/ CommitTicks(c)

Next ==
  \/ \E c \in Calls : \/ \E r \in Requests : Start(c, r)
                      \/ Record(c) \/ Queue(c) \/ FlushPop(c) \/ Write(c)
                      \/ CloseLock(c) \/ CloseCommit(c)
                      \/ Crash(c) \/ Deadlocked(c)
  \/ ClockTick
  \/ Finished

Spec == Init /\ [][Next]_vars

-----------------------------------------------------------------------------
(* Properties *)

TypeOK ==
  /\ snapshots \subseteq Snapshot
  /\ latest \in [Outcomes -> Snapshot \cup {None}]
  /\ settled \subseteq Outcomes
  /\ \A i \in OutcomeIds : cache[i] = None \/
       (cache[i].status \in {"open", "closed", "missing"} /\ cache[i].until \in now + 1 .. now + TTL)
  /\ queue \in Seq(Calls) /\ accepted \in 0 .. Cardinality(Calls)
  /\ now \in 0 .. MaxClock
  /\ \A c \in Calls :
       /\ req[c] \in Requests \cup {None} /\ pc[c] \in Labels
       /\ held[c] \subseteq [row : {"outcome"} \X Outcomes, mode : Modes]
       /\ inserted[c] \subseteq Calls /\ rolled[c] \subseteq Calls
       /\ batch[c] \in Seq(Calls) /\ Len(batch[c]) <= BatchSize
       /\ todo[c] \subseteq DOMAIN batch[c]
       /\ pc[c] \in {"insert", "refer", "apply"} => todo[c] # {}

Flushes == {c \in Calls : req[c] # None /\ req[c].op = "flush"}

\* The places of the queue and those of the batches of flushes, as
\* <<flush, position>>.
Popped    == {p \in Flushes \X (1 .. BatchSize) : p[2] \in DOMAIN batch[p[1]]}
Places    == ({None} \X DOMAIN queue) \cup Popped
TickAt(p) == IF p[1] = None THEN queue[p[2]] ELSE batch[p[1]][p[2]]

\* A tick is in the queue or in the batch of one flush, once, whatever becomes of
\* the flush, and the counter counts just those: "the queue and the accepted
\* counter can't drift" (record_odds_update_redis).
TicksConserved ==
  /\ \A p, q \in Places : TickAt(p) = TickAt(q) => p = q
  /\ \A t \in Calls : reply[t].kind = "accepted" => \E p \in Places : TickAt(p) = t
  /\ accepted = Cardinality(Places)

\* What flushes report adds up: accepted = landed + conflicts + still buffered +
\* lost (flush_odds_queue), and what they say has landed, with what
\* record_odds_update has recorded, is what odds_snapshots has gained.
Landed    == {p \in Flushes \X (1 .. BatchSize) : p[2] <= reply[p[1]].landed}
Conflicts == {p \in Flushes \X (1 .. BatchSize) : p[2] <= reply[p[1]].conflicts}
Lost      == {p \in Flushes \X (1 .. BatchSize) : p[2] <= reply[p[1]].lost}
Accounted ==
  (\A c \in Calls : req[c] # None /\ pc[c] # "idle" =>
     CASE req[c].op = "flush"  -> reply[c].kind \in {"flushed", "skipped"}
       [] req[c].op = "record" -> reply[c].kind # "crashed"
       [] OTHER -> TRUE)
  => /\ accepted = Len(queue)
          + Cardinality(Landed) + Cardinality(Conflicts) + Cardinality(Lost)
     /\ Cardinality(snapshots) = Cardinality(SeedSnapshots)
          + Cardinality(Landed) + Cardinality({c \in Calls : reply[c].kind = "recorded"})

\* The cached price is the newest row's, whatever the order in which records and
\* flushes of the same outcome insert, update and commit, and there is one once
\* there is a row (Outcome.latest_price).  Of outcomes without seeded rows.
LatestInStep ==
  \A o \in Outcomes \ {s.outcome : s \in SeedSnapshots} :
    LET rows == {s \in snapshots : s.outcome = o}
    IN  IF rows = {} THEN latest[o] = None
                     ELSE latest[o] \in rows /\ \A s \in rows : s.at <= latest[o].at

\* The round trips that interleave here, over both paths and with several flushers,
\* accept, land and lose ticks as the indivisible steps of Ticker do, and the
\* cached price moves with the rows and only forward ("an out-of-order write can
\* never roll the cached price backwards", _apply_latest_price), also where rows
\* were seeded and the columns start as NULL.
TicksOf(P) == {[id |-> TickAt(p), row |-> Row(TickAt(p))] : p \in P}
Over       == {p \in Popped : pc[p[1]] = "done"}

Feed == INSTANCE Ticker WITH
  pending <- TicksOf(Places \ Over),
  gone <- TicksOf(Over)
TicksAtomically == Feed!Spec

\* The queue holds no tick whose INSERT would fail for want of the outcome, and
\* take the ticks popped with it along: unknown ids are turned away also while
\* the cache knows them (_validate_open_outcome_cached).
QueuedOutcomesExist == \A i \in DOMAIN queue : Row(queue[i]).outcome \in Outcomes

\* Violated.  "Kept in step with the newest OddsSnapshot row" (models.py,
\* Outcome) where rows were seeded: the first tick sets the cached price though
\* newer rows are there.
LatestIsNewest ==
  \A o \in Outcomes : latest[o] # None =>
    \A s \in snapshots : s.outcome = o => s.at <= latest[o].at

\* Violated.  Lost writes are "only nonzero when a crash is deliberately injected"
\* (CONTEXT.md): a popped batch also goes when its transaction is rolled back.
LostOnlyByCrash ==
  (\A c \in Calls : reply[c].kind \notin {"crashed", "skipped"}) =>
    \A c \in Flushes : pc[c] = "done" =>
      \A i \in DOMAIN batch[c] : \E s \in snapshots : SameKey(s, Row(batch[c][i]))
=============================================================================
