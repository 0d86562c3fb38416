---------------------------- MODULE FeedAndBets ----------------------------
(***************************************************************************)
(* Betting, with the prices that reach it by path B of the odds feed: they *)
(* wait in the queue of Redis until flush_odds_queue pops a batch of them, *)
(* and writes it in a transaction of its own that meets the bets,          *)
(* settlements and cancellations at the outcomes.  It takes their rows one *)
(* after the other, and keeps those it has while it waits for the next, so *)
(* that it may be on a cycle of waiting transactions: a call there is      *)
(* rolled back by DeadlockedOutside of Betting, a flush by FlushFails.     *)
(* Path A stays what it is in Betting, FeedSnapshots of a single row.      *)
(*                                                                         *)
(* outcomes.latest_price, which no bet reads, is left out: the guard of    *)
(* _apply_latest_price may match or not.                                   *)
(***************************************************************************)
EXTENDS Betting, Sequences

CONSTANTS
  Flushers,  \* threads that call flush_odds_queue
  BatchSize, \* flush_odds_queue(batch_size)
  Ticks      \* what record_odds_update_redis is called with, each once

ASSUME FlushersAssumption ==
  /\ Ticks \subseteq Snapshot
  /\ BatchSize \in Nat \ {0}

VARIABLES
  queue,     \* the list at odds_queue_key
  accepted,  \* all that have been pushed to it
  raw,       \* the batch each flusher has popped and is not done with
  stage,     \* the statement it is at
  todo,      \* the positions of the batch that statement has left
  landing,   \* the ticks its transaction has inserted
  locks,     \* the row locks it has
  lost       \* the ticks popped for nothing

flushes == <<raw, stage, todo, landing, locks>>
feed    == <<queue, accepted, flushes, lost>>

FeedInit ==
  /\ Init
  /\ queue = <<>> /\ accepted = {} /\ lost = {}
  /\ raw = [f \in Flushers |-> <<>>]
  /\ stage = [f \in Flushers |-> "pop"]
  /\ todo = [f \in Flushers |-> {}]
  /\ landing = [f \in Flushers |-> {}]
  /\ locks = [f \in Flushers |-> {}]

-----------------------------------------------------------------------------
SameKey(s, t)  == s.outcome = t.outcome /\ s.at = t.at
Elements(seq)  == {seq[i] : i \in DOMAIN seq}

\* A flush has inserted the key and has not ended.
Uncommitted(F, s) == \E f \in F : \E t \in landing[f] : SameKey(t, s)

\* No flusher of F holds what is in the way of a lock.
FlushersLeave(F, wanted) == \A f \in F : \A l \in wanted, m \in locks[f] : ~ Conflict(l, m)

\* record_odds_update_redis; the cached status may be out of date.
QueuePush(t) ==
  /\ t \notin accepted /\ t.at <= now
  /\ queue' = Append(queue, t)
  /\ accepted' = accepted \cup {t}
  /\ UNCHANGED <<flushes, lost>>

\* LPOP takes a batch at once; its answer may be lost, or the crash of p come next.
FlushPop(f) ==
  LET n     == IF BatchSize <= Len(queue) THEN BatchSize ELSE Len(queue)
      batch == SubSeq(queue, 1, n)
  IN  /\ stage[f] = "pop" /\ queue # <<>>
      /\ queue' = SubSeq(queue, n + 1, Len(queue))
      /\ \/ /\ raw' = [raw EXCEPT ![f] = batch]
            /\ stage' = [stage EXCEPT ![f] = "insert"]
            /\ todo' = [todo EXCEPT ![f] = DOMAIN batch]
            /\ UNCHANGED lost
         \/ lost' = lost \cup Elements(batch) /\ UNCHANGED <<raw, stage, todo>>
      /\ UNCHANGED <<accepted, landing, locks>>

\* The statement comes to position i of the batch, of which the tick is t.
Reaches(f, label, i, t) ==
  /\ stage[f] = label
  /\ i \in todo[f] /\ \A j \in todo[f] : i <= j
  /\ t = raw[f][i]
  /\ todo' = [todo EXCEPT ![f] = @ \ {i}]
  /\ UNCHANGED <<queue, accepted, raw, stage, lost>>

\* The row waits for an uncommitted one with its key; ON CONFLICT DO NOTHING, also
\* on a row of the same batch.
FlushInsert(f) ==
  \E i \in todo[f], t \in Elements(raw[f]) :
    LET taken == \E s \in snapshots \cup landing[f] : SameKey(s, t)
    IN  /\ Reaches(f, "insert", i, t)
        /\ ~ Uncommitted(Flushers \ {f}, t)
        /\ landing' = [landing EXCEPT ![f] = IF taken THEN @ ELSE @ \cup {t}]
        /\ UNCHANGED locks

\* The flush gets a lock that no call and no other flush is in the way of.
Acquires(f, wanted) ==
  /\ Unheld(wanted) /\ FlushersLeave(Flushers \ {f}, wanted)
  /\ locks' = [locks EXCEPT ![f] = @ \cup wanted]
  /\ UNCHANGED landing

\* Mutant: odds_snapshots.outcome_id without its foreign key.
FlushReferNothing(f) ==
  \E i \in todo[f], t \in Elements(raw[f]) :
    Reaches(f, "refer", i, t) /\ UNCHANGED <<landing, locks>>

\* At the end of the INSERT the foreign keys of its rows lock their outcomes.
FlushRefer(f) ==
  \E i \in todo[f], t \in Elements(raw[f]) :
    Reaches(f, "refer", i, t) /\ Acquires(f, KeyShare("outcome", {t.outcome}))

\* _apply_latest_price, once per outcome; the row is locked if the guard matches.
FlushApply(f) ==
  \E i \in todo[f], t \in Elements(raw[f]) :
    /\ Reaches(f, "apply", i, t)
    /\ \/ Acquires(f, NoKeyUpdate("outcome", {t.outcome}))
       \/ UNCHANGED <<landing, locks>>

\* latest_per_outcome.items(): a dict has its keys in the order they came in.
FirstOnes(batch) ==
  {i \in DOMAIN batch : \A j \in DOMAIN batch : batch[j].outcome = batch[i].outcome => i <= j}

\* The rows are through, and the transaction goes on to the next statement.
FlushGoesOn(f) ==
  /\ todo[f] = {}
  /\ \/ /\ stage[f] = "insert"
        /\ stage' = [stage EXCEPT ![f] = "refer"]
        /\ todo' = [todo EXCEPT ![f] = {i \in DOMAIN raw[f] : raw[f][i] \in landing[f]}]
     \/ /\ stage[f] = "refer"
        /\ stage' = [stage EXCEPT ![f] = "apply"]
        /\ todo' = [todo EXCEPT ![f] = FirstOnes(raw[f])]
  /\ UNCHANGED <<queue, accepted, raw, landing, locks, lost>>

\* The transaction of a flush is over, and the flusher calls again.
FlushEnds(f) ==
  /\ raw' = [raw EXCEPT ![f] = <<>>]
  /\ stage' = [stage EXCEPT ![f] = "pop"]
  /\ todo' = [todo EXCEPT ![f] = {}]
  /\ landing' = [landing EXCEPT ![f] = {}]
  /\ locks' = [locks EXCEPT ![f] = {}]
  /\ UNCHANGED <<queue, accepted>>

\* All rows of the batch become visible at once.
FlushCommit(f) ==
  /\ stage[f] = "apply" /\ todo[f] = {}
  /\ FlushEnds(f)
  /\ snapshots' = snapshots \cup landing[f]
  /\ UNCHANGED <<eventStatus, outcomeStatus, bets, payments, endedSessions, now, calls, lost>>

\* Rolled back, for a deadlock or otherwise, or dead: what was popped is gone.
FlushFails(f) ==
  /\ stage[f] # "pop"
  /\ FlushEnds(f)
  /\ lost' = lost \cup Elements(raw[f])

-----------------------------------------------------------------------------
\* record_odds_update waits for a flush that has inserted its key.
RecordSnapshot(s) == ~ Uncommitted(Flushers, s) /\ FeedSnapshots({s}) /\ UNCHANGED feed

\* The statements of Betting also wait for the locks of flushes.
BettingNext ==
  /\ \/ \E c \in Calls : \/ \E r \in Requests : Start(c, r)
                         \/ Step(c) /\ FlushersLeave(Flushers, Wanted(c))
                         \/ Fail(c) \/ Deadlocked(c) \/ DeadlockedOutside(c)
     \/ Around
     \/ Finished
  /\ UNCHANGED feed

FeedStep(f) ==
  \/ /\ \/ FlushPop(f) \/ FlushInsert(f) \/ FlushRefer(f) \/ FlushApply(f)
        \/ FlushGoesOn(f) \/ FlushFails(f)
     /\ UNCHANGED vars
  \/ FlushCommit(f)

FeedNext ==
  \/ BettingNext
  \/ \E s \in Snapshot : RecordSnapshot(s)
  \/ (\E t \in Ticks : QueuePush(t)) /\ UNCHANGED vars
  \/ \E f \in Flushers : FeedStep(f)

FeedSpec == FeedInit /\ [][FeedNext]_<<vars, feed>>

-----------------------------------------------------------------------------
(* Properties *)

\* A tick that was accepted is waiting, in the hands of one flusher, landed, lost,
\* or was passed over for the price that came first.
Waiting == Elements(queue) \cup UNION {Elements(raw[f]) : f \in Flushers}

\* "No betting on an odds value the pricing feed has already replaced" (place_bet):
\* when a bet commits, whatever newer tick of its outcome was accepted by then is
\* still on its way, or was lost, and no newer row has been recorded.
BetsOnNewest ==
  [][\A c \in Calls : bets[c] = None /\ bets'[c] # None =>
       LET newer(t) == t.outcome = bets'[c].snap.outcome /\ t.at > bets'[c].snap.at
       IN  /\ \A t \in accepted : newer(t) => t \in Waiting \cup lost
           /\ \A t \in snapshots : ~ newer(t)]_bets

\* However a flush takes the rows of its batch and their locks, what lands is to bets,
\* settlements and cancellations one FeedSnapshots: all its rows at once, under keys
\* that nobody has used, while none of them has one of their outcomes locked.
LandsAsFeed ==
  [][snapshots' # snapshots =>
       \E arrived \in SUBSET Snapshot : FeedSnapshots(arrived)]_snapshots
=============================================================================
