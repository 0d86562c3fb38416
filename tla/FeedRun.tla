------------------------------ MODULE FeedRun ------------------------------
(***************************************************************************)
(* run_path_redis of benchmarks/redis_oddsnapshot_boost.py: worker threads *)
(* queue ticks of one hot outcome until a deadline, a flusher thread lands *)
(* them meanwhile, and the main thread stops both, drains what is left of  *)
(* the queue and asserts that the numbers reconcile.                       *)
(*                                                                         *)
(* The operations are those of OddsFeed, coarser: the outcome stays open,  *)
(* and nobody but flushes writes its rows, so that a flush is its pop and  *)
(* its transaction.  A tick is its captured_at.                            *)
(***************************************************************************)
EXTENDS Integers, FiniteSets, Sequences, Functions

CONSTANTS
  Workers,     \* the threads that call record_odds_update_redis
  BatchSize,   \* FLUSH_BATCH_SIZE
  MaxTicks,    \* how many ticks a worker comes to before the deadline
  MaxClock     \* the clock is followed up to here

ASSUME FeedRunAssumption ==
  BatchSize \in Nat \ {0} /\ MaxTicks \in Nat /\ MaxClock \in Nat

Times  == 0 .. MaxClock
Counts == [landed : Nat, conflicts : Nat]
Result == [popped : Nat, landed : Nat, conflicts : Nat]

VARIABLES
  queue, accepted,   \* the Redis list and counter of the run
  snapshots,         \* the rows of odds_snapshots the run has added
  now, late,         \* the clock; whether it has passed the deadline
  wpc, made, stamp,  \* per worker: what it does next, ticks so far, its captured_at
  stopping,          \* stop_flushing
  pc,                \* what the flusher and the main thread do next
  batch, result,     \* of the flush_odds_queue they are in
  seen, total        \* what they have read of landed and conflicts; these two

feed    == <<queue, accepted, snapshots>>
clock   == <<now, late>>
workers == <<wpc, made, stamp>>
counts  == <<seen, total>>
flush   == <<batch, result, counts>>
vars    == <<feed, clock, workers, stopping, pc, flush>>

Threads == {"flusher", "main"}
Nothing == [popped |-> 0, landed |-> 0, conflicts |-> 0]
Zero    == [landed |-> 0, conflicts |-> 0]

Init ==
  /\ queue = <<>> /\ accepted = 0 /\ snapshots = {}
  /\ now = 0 /\ late = FALSE
  /\ wpc = [w \in Workers |-> "check"]
  /\ made = [w \in Workers |-> 0]
  /\ stamp = [w \in Workers |-> 0]
  /\ stopping = FALSE
  /\ pc = [t \in Threads |-> IF t = "main" THEN "workers" ELSE "check"]
  /\ batch = [t \in Threads |-> <<>>]
  /\ result = [t \in Threads |-> Nothing]
  /\ seen = [t \in Threads |-> Zero]
  /\ total = Zero

Go(t, label) == pc' = [pc EXCEPT ![t] = label]

-----------------------------------------------------------------------------
\* worker

\* captured_at is taken before the call.
WorkerCheck(w) ==
  /\ wpc[w] = "check"
  /\ \/ /\ ~ late /\ made[w] < MaxTicks
        /\ wpc' = [wpc EXCEPT ![w] = "push"]
        /\ made' = [made EXCEPT ![w] = @ + 1]
        /\ stamp' = [stamp EXCEPT ![w] = now]
     \/ late /\ wpc' = [wpc EXCEPT ![w] = "left"] /\ UNCHANGED <<made, stamp>>
  /\ UNCHANGED <<feed, clock, stopping, pc, flush>>

\* RPUSH and INCR in one MULTI.  The thread dies when the answer is lost.
WorkerPush(w) ==
  /\ wpc[w] = "push"
  /\ queue' = Append(queue, stamp[w])
  /\ accepted' = accepted + 1
  /\ wpc' = [wpc EXCEPT ![w] = "check"] \/ wpc' = [wpc EXCEPT ![w] = "left"]
  /\ UNCHANGED <<snapshots, clock, made, stamp, stopping, pc, flush>>

WorkerDies(w) ==
  /\ wpc[w] = "push"
  /\ wpc' = [wpc EXCEPT ![w] = "left"]
  /\ UNCHANGED <<feed, clock, made, stamp, stopping, pc, flush>>

-----------------------------------------------------------------------------
\* flush_odds_queue, in the flusher and in the main thread

\* Mutant: LPOP without the batch size.
FlushPopAll(t) ==
  /\ pc[t] = "pop" /\ queue # <<>>
  /\ batch' = [batch EXCEPT ![t] = queue]
  /\ queue' = <<>>
  /\ Go(t, "write")
  /\ UNCHANGED <<accepted, snapshots, clock, workers, stopping, result, counts>>

FlushPop(t) ==
  LET n == IF Len(queue) < BatchSize THEN Len(queue) ELSE BatchSize
  IN  /\ pc[t] = "pop"
      /\ queue' = SubSeq(queue, n + 1, Len(queue))
      /\ \/ /\ n > 0
            /\ batch' = [batch EXCEPT ![t] = SubSeq(queue, 1, n)]
            /\ Go(t, "write")
            /\ UNCHANGED result
         \/ /\ n = 0
            /\ result' = [result EXCEPT ![t] = Nothing]
            /\ Go(t, "load")
            /\ UNCHANGED batch
      /\ UNCHANGED <<accepted, snapshots, clock, workers, stopping, counts>>

\* Mutant: the rows of the batch counted instead of the rows RETURNING names.
FlushWriteCountingBatch(t) ==
  LET n == Len(batch[t])
  IN  /\ pc[t] = "write"
      /\ snapshots' = snapshots \cup Range(batch[t])
      /\ result' = [result EXCEPT ![t] = [popped |-> n, landed |-> n, conflicts |-> 0]]
      /\ batch' = [batch EXCEPT ![t] = <<>>]
      /\ Go(t, "load")
      /\ UNCHANGED <<queue, accepted, clock, workers, stopping, counts>>

\* INSERT ... ON CONFLICT DO NOTHING: the first tick of each moment lands.
FlushWrite(t) ==
  LET landed == Cardinality(Range(batch[t]) \ snapshots)
      n == Len(batch[t])
  IN  /\ pc[t] = "write"
      /\ snapshots' = snapshots \cup Range(batch[t])
      /\ result' = [result EXCEPT ![t] = [popped |-> n, landed |-> landed, conflicts |-> n - landed]]
      /\ batch' = [batch EXCEPT ![t] = <<>>]
      /\ Go(t, "load")
      /\ UNCHANGED <<queue, accepted, clock, workers, stopping, counts>>

\* landed += result["landed"], and conflicts: read, then written.  What is lost
\* (p = 0) stays zero.
LoadTotal(t) ==
  /\ pc[t] = "load"
  /\ seen' = [seen EXCEPT ![t] = total]
  /\ Go(t, "store")
  /\ UNCHANGED <<feed, clock, workers, stopping, batch, result, total>>

\* The flusher waits unless it is behind, the main thread drains until a flush
\* pops nothing.
StoreTotal(t) ==
  /\ pc[t] = "store"
  /\ total' = [landed    |-> seen[t].landed + result[t].landed,
               conflicts |-> seen[t].conflicts + result[t].conflicts]
  /\ \/ t = "flusher" /\ result[t].popped < BatchSize /\ Go(t, "wait")
     \/ t = "flusher" /\ result[t].popped >= BatchSize /\ Go(t, "check")
     \/ t = "main" /\ result[t].popped = 0 /\ Go(t, "report")
     \/ t = "main" /\ result[t].popped # 0 /\ Go(t, "pop")
  /\ UNCHANGED <<feed, clock, workers, stopping, batch, result, seen>>

\* An error of Redis or of the database leaves the thread; what it has popped
\* is nowhere.
FlushFails(t) ==
  /\ pc[t] \in {"pop", "write"}
  /\ Go(t, "failed")
  /\ \/ UNCHANGED queue
     \/ pc[t] = "pop" /\ queue' = SubSeq(queue, BatchSize + 1, Len(queue))
  /\ \/ UNCHANGED snapshots
     \/ pc[t] = "write" /\ snapshots' = snapshots \cup Range(batch[t])
  /\ UNCHANGED <<accepted, clock, workers, stopping, flush>>

FlusherCheck ==
  /\ pc["flusher"] = "check"
  /\ Go("flusher", IF stopping THEN "left" ELSE "pop")
  /\ UNCHANGED <<feed, clock, workers, stopping, flush>>

\* stop_flushing.wait(FLUSH_INTERVAL_SECONDS)
FlusherWait ==
  /\ pc["flusher"] = "wait"
  /\ Go("flusher", "check")
  /\ UNCHANGED <<feed, clock, workers, stopping, flush>>

-----------------------------------------------------------------------------
\* The main thread

MainJoinWorkers ==
  /\ pc["main"] = "workers" /\ \A w \in Workers : wpc[w] = "left"
  /\ Go("main", "stop")
  /\ UNCHANGED <<feed, clock, workers, stopping, flush>>

\* Mutant: the flusher is joined without having been told to stop.
MainStopNobody ==
  /\ pc["main"] = "stop"
  /\ Go("main", "join")
  /\ UNCHANGED <<feed, clock, workers, stopping, flush>>

MainStop ==
  /\ pc["main"] = "stop"
  /\ stopping' = TRUE
  /\ Go("main", "join")
  /\ UNCHANGED <<feed, clock, workers, flush>>

\* LLEN fails, before anybody has told the flusher to stop: it goes on for ever.
MainFails ==
  /\ pc["main"] = "stop"
  /\ Go("main", "failed")
  /\ UNCHANGED <<feed, clock, workers, stopping, flush>>

\* Mutant: the drain begins while the flusher may be at work.
MainDrainAtOnce ==
  /\ pc["main"] = "join"
  /\ Go("main", "pop")
  /\ UNCHANGED <<feed, clock, workers, stopping, flush>>

MainJoinFlusher ==
  /\ pc["main"] = "join" /\ pc["flusher"] \in {"left", "failed"}
  /\ Go("main", "pop")
  /\ UNCHANGED <<feed, clock, workers, stopping, flush>>

-----------------------------------------------------------------------------
ClockTick ==
  /\ now < MaxClock
  /\ now' = now + 1
  /\ UNCHANGED <<feed, late, workers, stopping, pc, flush>>

Deadline ==
  /\ ~ late
  /\ late' = TRUE
  /\ UNCHANGED <<feed, now, workers, stopping, pc, flush>>

Ended == pc["main"] \in {"report", "failed"}

Work(w)  == WorkerCheck(w) \/ WorkerPush(w)
Flush(t) == FlushPop(t) \/ FlushWrite(t) \/ LoadTotal(t) \/ StoreTotal(t)
Flusher  == Flush("flusher") \/ FlusherCheck \/ FlusherWait
Main     == Flush("main") \/ MainJoinWorkers \/ MainStop \/ MainJoinFlusher

Next ==
  \/ \E w \in Workers : Work(w) \/ WorkerDies(w)
  \/ Flusher \/ Main
  \/ (\E t \in Threads : FlushFails(t)) \/ MainFails
  \/ ClockTick \/ Deadline
  \/ Ended /\ UNCHANGED vars

Spec == Init /\ [][Next]_vars

\* The operating system runs every thread, and time passes.
FairSpec ==
  /\ Spec
  /\ \A w \in Workers : WF_vars(Work(w))
  /\ WF_vars(Flusher) /\ WF_vars(Main) /\ WF_vars(Deadline)

-----------------------------------------------------------------------------
(* Properties *)

TypeOK ==
  /\ queue \in Seq(Times) /\ accepted \in Nat /\ snapshots \subseteq Times
  /\ now \in Times /\ late \in BOOLEAN
  /\ wpc \in [Workers -> {"check", "push", "left"}]
  /\ made \in [Workers -> 0 .. MaxTicks]
  /\ stamp \in [Workers -> Times]
  /\ stopping \in BOOLEAN
  /\ pc \in [Threads -> {"check", "pop", "write", "load", "store", "wait", "left", "failed",
                         "workers", "stop", "join", "report"}]
  /\ batch \in [Threads -> Seq(Times)] /\ \A t \in Threads : Len(batch[t]) <= BatchSize
  /\ result \in [Threads -> Result]
  /\ seen \in [Threads -> Counts] /\ total \in Counts

\* What thread t has popped and not yet added to the totals, by where it goes.
Waiting(t, field) == IF pc[t] \in {"load", "store"} THEN result[t][field] ELSE 0
InHand(t) == Len(batch[t]) + Waiting(t, "landed") + Waiting(t, "conflicts")

\* The drain begins when nobody else pushes or flushes any more.
InOrder ==
  /\ pc["flusher"] \in {"check", "pop", "write", "load", "store", "wait", "left", "failed"}
  /\ pc["main"] \in {"workers", "stop", "join", "pop", "write", "load", "store", "report", "failed"}
  /\ pc["main"] # "workers" => \A w \in Workers : wpc[w] = "left"
  /\ pc["main"] \notin {"workers", "stop", "join", "failed"} => pc["flusher"] \in {"left", "failed"}

\* A batch is held until it is written, and totals are stored as they were loaded.
HandsClear ==
  \A t \in Threads :
    /\ pc[t] = "write" => batch[t] # <<>>
    /\ pc[t] \notin {"write", "failed"} => batch[t] = <<>>
    /\ pc[t] = "store" => seen[t] = total

\* A drain that pops nothing leaves nothing behind.
Drained ==
  /\ pc["main"] = "report" => queue = <<>>
  /\ pc["main"] \in {"load", "store"} /\ result["main"].popped = 0 => queue = <<>>

\* Each accepted tick is counted, buffered or in the hands of one thread; each new
\* row is counted or about to be.
Balanced ==
  (\A t \in Threads : pc[t] # "failed") =>
    /\ accepted = total.landed + total.conflicts + Len(queue) + InHand("flusher") + InHand("main")
    /\ Cardinality(snapshots)
         = total.landed + Waiting("flusher", "landed") + Waiting("main", "landed")

\* At every moment of the run the books are in order, though the threads add to
\* them without a lock: the inductive invariant of Reconciles.
Tallied == InOrder /\ HandsClear /\ Drained /\ Balanced

\* What run_path_redis asserts of the run: every tick the workers were told was
\* accepted has landed or met a conflict, none is buffered any more, and what the
\* flushes say has landed is what odds_snapshots has gained.  It holds unless a
\* flush fails: when the flusher dies, what it had popped is missing.
Reconciles ==
  pc["main"] = "report" /\ pc["flusher"] # "failed" =>
    /\ accepted = total.landed + total.conflicts + Len(queue)
    /\ Cardinality(snapshots) = total.landed
    /\ queue = <<>>

\* The main thread ends, with a report or an error: the drain comes to an empty queue and
\* every join comes back, also when worker threads or the flusher have died.
RunEnds == <>Ended
=============================================================================
