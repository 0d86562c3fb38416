------------------------- MODULE FeedAndBetsProofs -------------------------
(***************************************************************************)
(* Betting with the queue of prices and its flushers is still Betting: a   *)
(* flush that commits its batch is one FeedSnapshots, and all its other    *)
(* statements change nothing Betting has.  So whatever is proved of        *)
(* Betting holds with any number of flushers, of ticks, and of rows in a   *)
(* batch.                                                                  *)
(*                                                                         *)
(* The inductive invariant adds to that of Betting what a flusher relies   *)
(* on: the keys it has inserted are free until it commits, no call has a   *)
(* lock that conflicts with one of its own, it has locked the outcomes of  *)
(* all it has inserted when it gets to its updates, and no tick it has     *)
(* passed over is without a row.                                           *)
(***************************************************************************)
EXTENDS FeedAndBets, BettingProofs, SequenceTheorems

-----------------------------------------------------------------------------
(* The invariant. *)

Stages == {"pop", "insert", "refer", "apply"}

\* Somebody has recorded a price of the outcome at that time, or f will have.
Recorded(t)   == \E s \in snapshots : SameKey(s, t)
Covered(f, t) == Recorded(t) \/ \E s \in landing[f] : SameKey(s, t)

FlushTypes ==
  /\ queue \in Seq(Ticks)
  /\ \A t \in Elements(queue) : t.at <= now
  /\ raw \in [Flushers -> Seq(Ticks)]
  /\ stage \in [Flushers -> Stages]
  /\ landing \in [Flushers -> SUBSET Ticks]
  /\ DOMAIN todo = Flushers /\ DOMAIN locks = Flushers

\* No call stands in the way of the locks f has.
Apart(f) == \A c \in Calls : \A l \in locks[f], m \in held[c] : ~ Conflict(l, m)

\* The foreign key of the row f inserts for t.
Reference(t) == KeyShare("outcome", {t.outcome})

\* The positions of the batch the statement at a label has been through.
Through(f, label) == {i \in DOMAIN raw[f] : stage[f] = label => i \notin todo[f]}

Flushing(f) ==
  /\ stage[f] = "pop" => raw[f] = <<>> /\ landing[f] = {} /\ locks[f] = {}
  /\ stage[f] = "insert" => locks[f] = {}
  /\ \A t \in Elements(raw[f]) : t.at <= now
  /\ \A t \in landing[f] : t \in Elements(raw[f]) /\ ~ Recorded(t)
  /\ \A s, t \in landing[f] : SameKey(s, t) => s = t
  /\ \A i \in Through(f, "insert") : Covered(f, raw[f][i])
  /\ stage[f] \in {"refer", "apply"} =>
       \A i \in Through(f, "refer") : raw[f][i] \in landing[f] => Reference(raw[f][i]) \subseteq locks[f]
  /\ Apart(f)

OneInsert == \A f, g \in Flushers :
  f # g => \A s \in landing[f], t \in landing[g] : ~ SameKey(s, t)

NoneForgotten == \A t \in accepted : t \in Waiting \cup lost \/ Recorded(t)

FlushInv == FlushTypes /\ (\A f \in Flushers : Flushing(f)) /\ OneInsert

FeedInv == Inv /\ FlushInv /\ NoneForgotten

-----------------------------------------------------------------------------
(* Locks and ticks. *)

LEMMA ConflictSymmetric == \A l, m : Conflict(l, m) <=> Conflict(m, l)
BY DEF Conflict

LEMMA TickTimes == \A t \in Ticks : t \in Snapshot /\ t.at \in Nat
<1>1. \A t \in Snapshot : t.at \in Times
  BY DEF Snapshot
<1> QED
  BY <1>1, FlushersAssumption, TablesAssumption

\* The elements of a batch or of the queue are ticks.
LEMMA ElementTypes ==
  ASSUME NEW seq \in Seq(Ticks)
  PROVE  Elements(seq) \subseteq Ticks
BY DEF Elements

\* What a step of a call does to the flushers' surroundings.
LEMMA CallStep ==
  ASSUME Inv, NEW d \in Calls,
         \/ \E r \in Requests : Start(d, r)
         \/ Step(d)
         \/ Fail(d) \/ Deadlocked(d) \/ DeadlockedOutside(d)
  PROVE  /\ \A c \in Calls \ {d} : held'[c] = held[c]
         /\ held'[d] \subseteq held[d] \/ (Step(d) /\ held'[d] = held[d] \cup Wanted(d))
         /\ snapshots' = snapshots /\ now' = now
         /\ \A b \in Calls : bets[b] = None /\ bets'[b] # None
              => b = d /\ At(d, "place", "commit") /\ bets'[b].snap = snap[d]
<1>0. TypeOK /\ \A c \in Calls : Current(c)
  BY InvParts
<1>1. CASE (\E r \in Requests : Start(d, r)) \/ Fail(d) \/ Deadlocked(d) \/ DeadlockedOutside(d)
  <2>1. Quiet(d)
    BY <1>1, StartIsQuiet, FailIsQuiet, RetryIsQuiet
  <2>2. held'[d] \subseteq held[d] /\ now' = now
    <3>1. DOMAIN held = Calls
      BY <1>0 DEF TypeOK
    <3>2. CASE \E r \in Requests : Start(d, r)
      BY <3>1, <3>2 DEF Start, database
    <3>3. CASE Return(d, "error")
      BY <3>1, <3>3 DEF Return, Answer, database
    <3>4. CASE RunAgain(d) /\ ~ Return(d, "error")
      BY <3>1, <3>4 DEF RunAgain, database
    <3> QED
      BY <1>1, <3>2, <3>3, <3>4 DEF Fail, Deadlocked, DeadlockedOutside
  <2> QED
    BY <2>1, <2>2 DEF Quiet, OnlyCall, tables
<1>2. ASSUME Quiet(d), Step(d), now' = now
      PROVE  /\ \A c \in Calls \ {d} : held'[c] = held[c]
             /\ held'[d] \subseteq held[d] \/ (Step(d) /\ held'[d] = held[d] \cup Wanted(d))
             /\ snapshots' = snapshots /\ bets' = bets
  BY <1>2 DEF Quiet, OnlyCall, Locking, tables
<1>3. ASSUME Ends(d), snapshots' = snapshots
      PROVE  /\ \A c \in Calls \ {d} : held'[c] = held[c]
             /\ held'[d] \subseteq held[d]
  BY <1>3 DEF Ends, OnlyCall
<1>4. CASE Step(d)
  <2>1. now' = now
    BY <1>4 DEF Step, Place, PlaceLockUser, PlaceCheckKey, PlaceLockOutcome, PlaceLockEvent,
       PlaceReadPrice, PlaceCheckSession, PlaceInsertBet, PlaceInsertPayment, PlaceCommit,
       Settle, SettleLockOutcome, SettleLockEvent, SettleLockBets, SettleInsertPayouts,
       SettleReferPayouts, SettleCommit, Cancel, CancelLockOutcome, CancelLockEvent,
       CancelLockBets, CancelInsertRefunds, CancelReferRefunds, CancelCommit,
       InsertPayments, Proceed, Statement, Reject, Return, database
  <2>2. CASE PlaceCommit(d)
    <3>1. Ends(d) /\ snapshots' = snapshots
      BY <1>0, <2>2, CommittedEnds DEF PlaceCommit
    <3>2. bets' = [bets EXCEPT ![d] = NewBet(d)] /\ NewBet(d).snap = snap[d]
          /\ At(d, "place", "commit") /\ bets \in [Calls -> Bet \cup {None}]
      BY <1>0, <2>2, TableTypes DEF PlaceCommit, NewBet
    <3> QED
      BY <1>3, <2>1, <3>1, <3>2
  <2>3. CASE SettleCommit(d) \/ CancelCommit(d)
    <3>1. Ends(d) /\ snapshots' = snapshots
      BY <1>0, <2>3, CommittedEnds DEF SettleCommit, CancelCommit
    <3>2. \E bs, os, status :
            /\ bs = PendingOn(bets, os)
            /\ status \in BetStatus /\ bets' = WithStatus(bs, status)
      <4>1. CASE SettleCommit(d)
        <5>1. rows[d] = PendingOn(bets, {req[d].outcome})
          BY <1>0, <4>1 DEF SettleCommit, At, Current, SettleCurrent
        <5> QED
          BY <4>1, <5>1 DEF SettleCommit, BetStatus
      <4>2. CASE CancelCommit(d)
        <5>1. rows[d] = PendingOn(bets, OutcomesOf(req[d].event))
          BY <1>0, <4>2 DEF CancelCommit, At, Current, CancelCurrent
        <5> QED
          BY <4>2, <5>1 DEF CancelCommit, BetStatus
      <4> QED
        BY <2>3, <4>1, <4>2
    <3>3. \A b \in Calls : bets[b] = None => bets'[b] = None
      BY <1>0, <3>2, ResolvedShape
    <3> QED
      BY <1>3, <2>1, <3>1, <3>3
  <2>4. CASE ~ (PlaceCommit(d) \/ SettleCommit(d) \/ CancelCommit(d))
    <3>1. Quiet(d)
      BY <1>4, <2>4, PlaceIsQuiet, SettleIsQuiet, CancelIsQuiet DEF Step, Place, Settle, Cancel
    <3> QED
      BY <1>2, <1>4, <2>1, <3>1
  <2> QED
    BY <2>2, <2>3, <2>4
<1> QED
  BY <1>1, <1>4

\* While the feed rests, nobody records a key that is in flight and no call takes
\* a lock in its way, its invariant stays.
LEMMA FeedRests ==
  ASSUME FeedInv, UNCHANGED feed, now \in Nat, now' \in Nat, now <= now',
         snapshots \subseteq snapshots',
         \A s \in snapshots' \ snapshots : ~ Uncommitted(Flushers, s),
         \A f \in Flushers : Apart(f)'
  PROVE  FlushInv' /\ NoneForgotten'
<1>0. ASSUME NEW t \in Ticks, t.at <= now
      PROVE  t.at <= now'
  <2>1. t.at \in Nat
    BY TickTimes
  <2> QED
    BY <1>0, <2>1
<1>1. /\ queue' = queue /\ raw' = raw /\ stage' = stage /\ todo' = todo
      /\ landing' = landing /\ locks' = locks /\ lost' = lost /\ accepted' = accepted
  BY DEF feed, flushes
<1>2. FlushTypes /\ \A f \in Flushers : Flushing(f)
  BY DEF FeedInv, FlushInv
<1>3. \A t : Recorded(t) => Recorded(t)'
  BY DEF Recorded
<1>4. FlushTypes'
  <2>1. \A t \in Elements(queue) : t \in Ticks /\ t.at <= now
    BY <1>2, ElementTypes DEF FlushTypes
  <2> QED
    BY <1>0, <1>1, <1>2, <2>1 DEF FlushTypes
<1>5. ASSUME NEW f \in Flushers
      PROVE  Flushing(f)'
  <2>1. \A t \in Elements(raw[f]) : t.at <= now'
    <3>1. \A t \in Elements(raw[f]) : t \in Ticks /\ t.at <= now
      BY <1>2, ElementTypes DEF FlushTypes, Flushing
    <3> QED
      BY <1>0, <3>1
  <2>2. \A t \in landing[f] : t \in Elements(raw[f]) /\ ~ Recorded(t)'
    <3> SUFFICES ASSUME NEW t \in landing[f], NEW s \in snapshots', SameKey(s, t)
                 PROVE  FALSE
      BY <1>2 DEF Flushing, Recorded
    <3>1. s \notin snapshots
      BY <1>2 DEF Flushing, Recorded
    <3>2. \E g \in Flushers : \E u \in landing[g] : SameKey(u, s)
      BY DEF SameKey
    <3> QED
      BY <3>1, <3>2 DEF Uncommitted
  <2>3. \A i \in Through(f, "insert") : Covered(f, raw[f][i])'
    BY <1>1, <1>2, <1>3 DEF Flushing, Covered
  <2>4. Through(f, "insert")' = Through(f, "insert") /\ Through(f, "refer")' = Through(f, "refer")
    BY <1>1 DEF Through
  <2> QED
    BY <1>1, <1>2, <2>1, <2>2, <2>3, <2>4 DEF Flushing, Covered
<1>6. OneInsert'
  BY <1>1 DEF FeedInv, FlushInv, OneInsert
<1>7. NoneForgotten'
  BY <1>1, <1>3 DEF FeedInv, NoneForgotten, Waiting
<1> QED
  BY <1>4, <1>5, <1>6, <1>7 DEF FlushInv

-----------------------------------------------------------------------------
(* The statements of a flush. *)

\* Only f has gone on; what the calls do stands still, but for what f has inserted.
OnlyFlusher(f) ==
  /\ \A g \in Flushers \ {f} : /\ raw'[g] = raw[g] /\ stage'[g] = stage[g]
                               /\ todo'[g] = todo[g] /\ landing'[g] = landing[g]
                               /\ locks'[g] = locks[g]
  /\ held' = held /\ now' = now
  /\ snapshots' = snapshots \/ snapshots' = snapshots \cup landing[f]

LEMMA OtherFlushers ==
  ASSUME FeedInv, NEW f \in Flushers, OnlyFlusher(f), Flushing(f)',
         \A t \in landing'[f] : t \in landing[f] \/ ~ Uncommitted(Flushers \ {f}, t)
  PROVE  (\A g \in Flushers : Flushing(g)') /\ OneInsert'
<1>1. OneInsert /\ \A g \in Flushers : Flushing(g)
  BY DEF FeedInv, FlushInv
<1>2. \A t : Recorded(t) => Recorded(t)'
  BY DEF OnlyFlusher, Recorded
<1>3. ASSUME NEW g \in Flushers \ {f}
      PROVE  Flushing(g)'
  <2>1. /\ raw'[g] = raw[g] /\ stage'[g] = stage[g] /\ todo'[g] = todo[g]
        /\ landing'[g] = landing[g] /\ locks'[g] = locks[g]
        /\ held' = held /\ now' = now
    BY DEF OnlyFlusher
  <2>2. \A t \in landing[g] : ~ Recorded(t)'
    <3> SUFFICES ASSUME NEW t \in landing[g], NEW s \in snapshots', SameKey(s, t)
                 PROVE  FALSE
      BY DEF Recorded
    <3>1. CASE s \in snapshots
      BY <1>1, <3>1 DEF Flushing, Recorded
    <3>2. CASE s \in landing[f]
      BY <1>1, <3>2 DEF OneInsert
    <3> QED
      BY <3>1, <3>2 DEF OnlyFlusher
  <2>3. Through(g, "insert")' = Through(g, "insert") /\ Through(g, "refer")' = Through(g, "refer")
    BY <2>1 DEF Through
  <2>4. \A i \in Through(g, "insert") : Covered(g, raw[g][i])'
    BY <1>1, <1>2, <2>1 DEF Flushing, Covered
  <2>5. Apart(g)'
    BY <1>1, <2>1 DEF Flushing, Apart
  <2> QED
    BY <1>1, <2>1, <2>2, <2>3, <2>4, <2>5 DEF Flushing
<1>4. OneInsert'
  <2> SUFFICES ASSUME NEW g \in Flushers, NEW h \in Flushers, g # h,
                      NEW s \in landing'[g], NEW t \in landing'[h], SameKey(s, t)
               PROVE  FALSE
    BY DEF OneInsert
  <2>1. CASE g # f /\ h # f
    BY <1>1, <2>1 DEF OneInsert, OnlyFlusher
  <2>2. CASE g = f
    <3>1. t \in landing[h] /\ h \in Flushers \ {f}
      BY <2>2 DEF OnlyFlusher
    <3>2. s \in landing[f] \/ ~ Uncommitted(Flushers \ {f}, s)
      BY <2>2
    <3> QED
      BY <1>1, <2>2, <3>1, <3>2 DEF OneInsert, Uncommitted, SameKey
  <2>3. CASE h = f
    <3>1. s \in landing[g] /\ g \in Flushers \ {f}
      BY <2>3 DEF OnlyFlusher
    <3>2. t \in landing[f] \/ ~ Uncommitted(Flushers \ {f}, t)
      BY <2>3
    <3> QED
      BY <1>1, <2>3, <3>1, <3>2 DEF OneInsert, Uncommitted, SameKey
  <2> QED
    BY <2>1, <2>2, <2>3
<1> QED
  BY <1>3, <1>4

\* What a flush pops, and what it leaves.
PopSize == IF BatchSize <= Len(queue) THEN BatchSize ELSE Len(queue)
Batch   == SubSeq(queue, 1, PopSize)
Rest    == SubSeq(queue, PopSize + 1, Len(queue))

LEMMA PopFacts ==
  ASSUME queue \in Seq(Ticks)
  PROVE  /\ Batch \in Seq(Ticks) /\ DOMAIN Batch = 1 .. PopSize
         /\ \A i \in 1 .. PopSize : i \in DOMAIN queue /\ Batch[i] = queue[i]
         /\ Rest \in Seq(Ticks) /\ DOMAIN Rest = 1 .. Len(queue) - PopSize
         /\ \A i \in 1 .. Len(queue) - PopSize :
              PopSize + i \in DOMAIN queue /\ Rest[i] = queue[PopSize + i]
         /\ PopSize \in Nat /\ Len(queue) \in Nat /\ DOMAIN queue = 1 .. Len(queue)
<1>1. BatchSize \in Nat \ {0} /\ Len(queue) \in Nat
  BY FlushersAssumption
<1>2. PopSize \in {BatchSize, Len(queue)} /\ PopSize <= Len(queue)
  BY <1>1 DEF PopSize
<1> HIDE DEF PopSize
<1>3. PopSize \in Nat
  BY <1>1, <1>2
<1>4. \A i \in 1 .. Len(queue) : i \in DOMAIN queue /\ queue[i] \in Ticks
  OBVIOUS
<1>5. /\ Batch \in Seq(Ticks) /\ Len(Batch) = IF 1 <= PopSize THEN PopSize - 1 + 1 ELSE 0
      /\ \A i \in 1 .. PopSize - 1 + 1 : Batch[i] = queue[1 + i - 1]
  <2>1. \A i \in 1 .. PopSize : queue[i] \in Ticks
    BY <1>1, <1>2, <1>3, <1>4
  <2> QED
    BY <1>3, <2>1, SubSeqProperties DEF Batch
<1>6. /\ Rest \in Seq(Ticks)
      /\ Len(Rest) = IF PopSize + 1 <= Len(queue) THEN Len(queue) - (PopSize + 1) + 1 ELSE 0
      /\ \A i \in 1 .. Len(queue) - (PopSize + 1) + 1 : Rest[i] = queue[(PopSize + 1) + i - 1]
  <2>1. \A i \in PopSize + 1 .. Len(queue) : queue[i] \in Ticks
    BY <1>1, <1>3, <1>4
  <2>2. PopSize + 1 \in Int /\ Len(queue) \in Int
    BY <1>1, <1>3
  <2> QED
    BY <2>1, <2>2, SubSeqProperties DEF Rest
<1>7. /\ Len(Batch) = PopSize /\ DOMAIN Batch = 1 .. PopSize
      /\ \A i \in 1 .. PopSize : Batch[i] = queue[i]
  BY <1>3, <1>5
<1>8. /\ Len(Rest) = Len(queue) - PopSize /\ DOMAIN Rest = 1 .. Len(queue) - PopSize
      /\ \A i \in 1 .. Len(queue) - PopSize : Rest[i] = queue[PopSize + i]
  <2>1. Len(Rest) = Len(queue) - PopSize
    BY <1>1, <1>2, <1>3, <1>6
  <2>2. \A i \in 1 .. Len(queue) - PopSize : (PopSize + 1) + i - 1 = PopSize + i
    BY <1>1, <1>3
  <2>3. Len(queue) - (PopSize + 1) + 1 = Len(queue) - PopSize
    BY <1>1, <1>3
  <2> QED
    BY <1>6, <2>1, <2>2, <2>3
<1>9. /\ \A i \in 1 .. Len(queue) - PopSize : PopSize + i \in DOMAIN queue
      /\ \A i \in 1 .. PopSize : i \in DOMAIN queue
  BY <1>1, <1>2, <1>3
<1>10. DOMAIN queue = 1 .. Len(queue)
  OBVIOUS
<1> QED
  BY <1>1, <1>3, <1>10, <1>5, <1>6, <1>7, <1>8, <1>9

\* The two together are what there was.
LEMMA PopShape ==
  ASSUME FlushTypes
  PROVE  Batch \in Seq(Ticks) /\ Rest \in Seq(Ticks) /\ Elements(queue) = Elements(Batch) \cup Elements(Rest)
<1>1. /\ Batch \in Seq(Ticks) /\ DOMAIN Batch = 1 .. PopSize
      /\ \A i \in 1 .. PopSize : i \in DOMAIN queue /\ Batch[i] = queue[i]
      /\ Rest \in Seq(Ticks) /\ DOMAIN Rest = 1 .. Len(queue) - PopSize
      /\ \A i \in 1 .. Len(queue) - PopSize :
           PopSize + i \in DOMAIN queue /\ Rest[i] = queue[PopSize + i]
      /\ PopSize \in Nat /\ Len(queue) \in Nat /\ DOMAIN queue = 1 .. Len(queue)
  <2>1. queue \in Seq(Ticks)
    BY DEF FlushTypes
  <2> QED
    BY <2>1, PopFacts
<1> HIDE DEF Batch, Rest, PopSize
<1>2. ASSUME NEW i \in DOMAIN queue
      PROVE  queue[i] \in Elements(Batch) \cup Elements(Rest)
  <2>1. CASE i \in 1 .. PopSize
    BY <1>1, <2>1 DEF Elements
  <2>2. CASE i \notin 1 .. PopSize
    <3>1. i - PopSize \in 1 .. Len(queue) - PopSize /\ PopSize + (i - PopSize) = i
      BY <1>1, <2>2
    <3>2. i - PopSize \in DOMAIN Rest /\ Rest[i - PopSize] = queue[i]
      BY <1>1, <3>1
    <3> QED
      BY <3>2 DEF Elements
  <2> QED
    BY <2>1, <2>2
<1>3. Elements(Batch) \subseteq Elements(queue) /\ Elements(Rest) \subseteq Elements(queue)
  BY <1>1 DEF Elements
<1>4. Elements(queue) \subseteq Elements(Batch) \cup Elements(Rest)
  BY <1>2 DEF Elements
<1> QED
  BY <1>1, <1>3, <1>4

LEMMA NothingInNothing == Elements(<<>>) = {}
BY DEF Elements

LEMMA PopKeeps ==
  ASSUME FeedInv, NEW f \in Flushers, FlushPop(f), UNCHANGED vars
  PROVE  FlushInv' /\ NoneForgotten'
<1>0. FlushTypes /\ Flushing(f) /\ stage[f] = "pop" /\ queue # <<>>
  BY DEF FeedInv, FlushInv, FlushPop
<1>1. /\ queue' = Rest /\ landing' = landing /\ locks' = locks /\ accepted' = accepted
      /\ snapshots' = snapshots /\ held' = held /\ now' = now
  BY DEF FlushPop, Rest, PopSize, vars, database, calls
<1>2. \/ /\ raw' = [raw EXCEPT ![f] = Batch]
         /\ stage' = [stage EXCEPT ![f] = "insert"]
         /\ todo' = [todo EXCEPT ![f] = DOMAIN Batch]
         /\ lost' = lost
      \/ lost' = lost \cup Elements(Batch) /\ raw' = raw /\ stage' = stage /\ todo' = todo
  BY DEF FlushPop, Batch, PopSize
<1>3. /\ Batch \in Seq(Ticks) /\ Rest \in Seq(Ticks)
      /\ Elements(queue) = Elements(Batch) \cup Elements(Rest)
  BY <1>0, PopShape
<1> HIDE DEF PopSize, Batch, Rest
<1>4. \A t \in Elements(Batch) \cup Elements(Rest) : t.at <= now
  BY <1>0, <1>3 DEF FlushTypes
<1>5. FlushTypes'
  <2>1. raw' \in [Flushers -> Seq(Ticks)] /\ stage' \in [Flushers -> Stages] /\ DOMAIN todo' = Flushers
    BY <1>0, <1>2, <1>3 DEF FlushTypes, Stages
  <2> QED
    BY <1>0, <1>1, <1>3, <1>4, <2>1 DEF FlushTypes
<1>6. OnlyFlusher(f)
  BY <1>0, <1>1, <1>2 DEF OnlyFlusher, FlushTypes
<1>7. Flushing(f)'
  <2>1. /\ raw[f] = <<>> /\ landing[f] = {} /\ locks[f] = {}
        /\ landing'[f] = {} /\ locks'[f] = {}
    BY <1>0, <1>1 DEF Flushing
  <2>2. Apart(f)'
    BY <2>1 DEF Apart
  <2>3. CASE raw' = raw /\ stage' = stage /\ todo' = todo
    <3>1. stage'[f] = "pop" /\ raw'[f] = <<>> /\ Elements(raw'[f]) = {}
      BY <1>0, <2>1, <2>3, NothingInNothing
    <3>2. Through(f, "insert")' = {} /\ Through(f, "refer")' = {}
      BY <3>1 DEF Through
    <3> QED
      BY <2>1, <2>2, <3>1, <3>2 DEF Flushing
  <2>4. CASE /\ raw' = [raw EXCEPT ![f] = Batch] /\ stage' = [stage EXCEPT ![f] = "insert"]
             /\ todo' = [todo EXCEPT ![f] = DOMAIN Batch]
    <3>1. stage'[f] = "insert" /\ raw'[f] = Batch /\ todo'[f] = DOMAIN Batch
      BY <1>0, <2>4 DEF FlushTypes
    <3>2. Through(f, "insert")' = {}
      BY <3>1 DEF Through
    <3>3. \A t \in Elements(raw'[f]) : t.at <= now'
      BY <1>1, <1>4, <3>1
    <3> QED
      BY <2>1, <2>2, <3>1, <3>2, <3>3 DEF Flushing
  <2> QED
    BY <1>2, <2>3, <2>4
<1>8. NoneForgotten'
  <2>1. ASSUME NEW t \in Waiting
        PROVE  t \in Waiting' \cup lost'
    <3>1. CASE \E g \in Flushers : t \in Elements(raw[g])
      <4>1. PICK g \in Flushers : t \in Elements(raw[g])
        BY <3>1
      <4>2. g # f
        BY <1>0, <4>1, NothingInNothing DEF Flushing
      <4>3. raw'[g] = raw[g]
        BY <1>6, <4>2 DEF OnlyFlusher
      <4> QED
        BY <4>1, <4>3 DEF Waiting
    <3>2. CASE t \in Elements(Rest)
      BY <1>1, <3>2 DEF Waiting
    <3>3. CASE t \in Elements(Batch)
      <4>1. CASE raw' = [raw EXCEPT ![f] = Batch]
        <5>1. raw'[f] = Batch
          BY <1>0, <4>1 DEF FlushTypes
        <5> QED
          BY <3>3, <5>1 DEF Waiting
      <4> QED
        BY <1>2, <3>3, <4>1
    <3> QED
      BY <1>3, <2>1, <3>1, <3>2, <3>3 DEF Waiting
  <2>2. lost \subseteq lost'
    BY <1>2
  <2> QED
    BY <1>1, <2>1, <2>2 DEF FeedInv, NoneForgotten, Recorded
<1>9. \A t \in landing'[f] : t \in landing[f]
  BY <1>1
<1> QED
  BY <1>5, <1>6, <1>7, <1>8, <1>9, OtherFlushers DEF FlushInv

\* A statement that comes to a position of the batch.
LEMMA ReachesShape ==
  ASSUME FlushTypes, NEW f \in Flushers, NEW label, NEW i, NEW t, Reaches(f, label, i, t)
  PROVE  /\ queue' = queue /\ raw' = raw /\ stage' = stage /\ lost' = lost
         /\ accepted' = accepted
         /\ stage[f] = label /\ t = raw[f][i]
         /\ todo'[f] = todo[f] \ {i} /\ DOMAIN todo' = Flushers
         /\ \A g \in Flushers \ {f} : todo'[g] = todo[g]
BY DEF Reaches, FlushTypes

\* A statement inside a flush leaves what was forgotten and what was not.
LEMMA InsideForgetsNothing ==
  ASSUME FeedInv, queue' = queue, raw' = raw, lost' = lost, accepted' = accepted,
         snapshots' = snapshots
  PROVE  NoneForgotten'
BY DEF FeedInv, NoneForgotten, Waiting, Recorded

LEMMA InsertKeeps ==
  ASSUME FeedInv, NEW f \in Flushers, FlushInsert(f), UNCHANGED vars
  PROVE  FlushInv' /\ NoneForgotten'
<1>0. FlushTypes /\ Flushing(f)
  BY DEF FeedInv, FlushInv
<1>1. PICK i \in todo[f], t \in Elements(raw[f]) :
        /\ Reaches(f, "insert", i, t)
        /\ ~ Uncommitted(Flushers \ {f}, t)
        /\ landing' = [landing EXCEPT ![f] =
                         IF \E s \in snapshots \cup landing[f] : SameKey(s, t) THEN @ ELSE @ \cup {t}]
        /\ locks' = locks
  BY DEF FlushInsert
<1>2. /\ queue' = queue /\ raw' = raw /\ stage' = stage /\ lost' = lost /\ accepted' = accepted
      /\ stage[f] = "insert" /\ t = raw[f][i]
      /\ todo'[f] = todo[f] \ {i} /\ DOMAIN todo' = Flushers
      /\ \A g \in Flushers \ {f} : todo'[g] = todo[g]
  BY <1>0, <1>1, ReachesShape
<1>3. snapshots' = snapshots /\ held' = held /\ now' = now
  BY DEF vars, database, calls
<1>4. t \in Ticks
  BY <1>0, ElementTypes DEF FlushTypes
<1>5. \/ /\ landing' = landing /\ Covered(f, t)
      \/ /\ landing'[f] = landing[f] \cup {t} /\ ~ Covered(f, t)
         /\ \A g \in Flushers \ {f} : landing'[g] = landing[g]
         /\ landing' \in [Flushers -> SUBSET Ticks]
  BY <1>0, <1>1, <1>4 DEF FlushTypes, Covered, Recorded
<1>6. FlushTypes' /\ OnlyFlusher(f)
  BY <1>0, <1>1, <1>2, <1>3, <1>5 DEF FlushTypes, OnlyFlusher
<1>7. landing[f] \subseteq landing'[f] /\ landing'[f] \subseteq landing[f] \cup {t}
  BY <1>5
<1>8. Flushing(f)'
  <2>1. locks'[f] = {} /\ Apart(f)'
    BY <1>0, <1>1, <1>2 DEF Flushing, Apart
  <2>2. \A u \in landing'[f] : u \in Elements(raw[f]) /\ ~ Recorded(u)'
    BY <1>0, <1>3, <1>5 DEF Flushing, Covered, Recorded
  <2>3. \A s, u \in landing'[f] : SameKey(s, u) => s = u
    BY <1>0, <1>5 DEF Flushing, Covered, SameKey
  <2>4. ASSUME NEW j \in Through(f, "insert")'
        PROVE  Covered(f, raw[f][j])'
    <3>1. CASE j = i
      BY <1>2, <1>3, <1>5, <1>7, <3>1 DEF Covered, Recorded, SameKey
    <3>2. CASE j # i
      <4>1. j \in Through(f, "insert")
        BY <1>2, <2>4, <3>2 DEF Through
      <4> QED
        BY <1>0, <1>2, <1>3, <1>7, <4>1 DEF Flushing, Covered, Recorded
    <3> QED
      BY <3>1, <3>2
  <2> QED
    BY <1>0, <1>2, <1>3, <2>1, <2>2, <2>3, <2>4 DEF Flushing
<1>9. \A u \in landing'[f] : u \in landing[f] \/ ~ Uncommitted(Flushers \ {f}, u)
  BY <1>1, <1>7
<1> QED
  BY <1>2, <1>3, <1>6, <1>8, <1>9, OtherFlushers, InsideForgetsNothing DEF FlushInv

\* A lock that is taken keeps the flusher apart from the calls.
LEMMA AcquiresShape ==
  ASSUME FlushTypes, NEW f \in Flushers, NEW wanted, Acquires(f, wanted), Apart(f), held' = held
  PROVE  /\ landing' = landing /\ locks'[f] = locks[f] \cup wanted /\ DOMAIN locks' = Flushers
         /\ \A g \in Flushers \ {f} : locks'[g] = locks[g]
         /\ Apart(f)'
<1>1. /\ landing' = landing /\ locks'[f] = locks[f] \cup wanted /\ DOMAIN locks' = Flushers
      /\ \A g \in Flushers \ {f} : locks'[g] = locks[g]
  BY DEF Acquires, FlushTypes
<1>2. \A c \in Calls : \A l \in wanted, m \in held[c] : ~ Conflict(l, m)
  BY DEF Acquires, Unheld
<1> QED
  BY <1>1, <1>2 DEF Apart

LEMMA ReferKeeps ==
  ASSUME FeedInv, NEW f \in Flushers, FlushRefer(f), UNCHANGED vars
  PROVE  FlushInv' /\ NoneForgotten'
<1>0. FlushTypes /\ Flushing(f)
  BY DEF FeedInv, FlushInv
<1>1. PICK i \in todo[f], t \in Elements(raw[f]) :
        Reaches(f, "refer", i, t) /\ Acquires(f, Reference(t))
  BY DEF FlushRefer, Reference
<1>2. /\ queue' = queue /\ raw' = raw /\ stage' = stage /\ lost' = lost /\ accepted' = accepted
      /\ stage[f] = "refer" /\ t = raw[f][i]
      /\ todo'[f] = todo[f] \ {i} /\ DOMAIN todo' = Flushers
      /\ \A g \in Flushers \ {f} : todo'[g] = todo[g]
  BY <1>0, <1>1, ReachesShape
<1>3. snapshots' = snapshots /\ held' = held /\ now' = now
  BY DEF vars, database, calls
<1>4. /\ landing' = landing /\ locks'[f] = locks[f] \cup Reference(t) /\ DOMAIN locks' = Flushers
      /\ \A g \in Flushers \ {f} : locks'[g] = locks[g]
      /\ Apart(f)'
  BY <1>0, <1>1, <1>3, AcquiresShape DEF Flushing
<1>5. FlushTypes' /\ OnlyFlusher(f)
  BY <1>0, <1>2, <1>3, <1>4 DEF FlushTypes, OnlyFlusher
<1>6. Flushing(f)'
  <2>1. Through(f, "insert")' = Through(f, "insert")
    BY <1>2 DEF Through
  <2>2. ASSUME NEW j \in Through(f, "refer")', raw[f][j] \in landing[f]
        PROVE  Reference(raw[f][j]) \subseteq locks'[f]
    <3>1. CASE j = i
      BY <1>2, <1>4, <3>1
    <3>2. CASE j # i
      <4>1. j \in Through(f, "refer")
        BY <1>2, <2>2, <3>2 DEF Through
      <4> QED
        BY <1>0, <1>2, <1>4, <2>2, <4>1 DEF Flushing
    <3> QED
      BY <3>1, <3>2
  <2> QED
    BY <1>0, <1>2, <1>3, <1>4, <2>1, <2>2 DEF Flushing, Covered, Recorded
<1>7. \A u \in landing'[f] : u \in landing[f]
  BY <1>4
<1> QED
  BY <1>2, <1>3, <1>5, <1>6, <1>7, OtherFlushers, InsideForgetsNothing DEF FlushInv

LEMMA ApplyKeeps ==
  ASSUME FeedInv, NEW f \in Flushers, FlushApply(f), UNCHANGED vars
  PROVE  FlushInv' /\ NoneForgotten'
<1>0. FlushTypes /\ Flushing(f)
  BY DEF FeedInv, FlushInv
<1>1. PICK i \in todo[f], t \in Elements(raw[f]) :
        /\ Reaches(f, "apply", i, t)
        /\ \/ Acquires(f, NoKeyUpdate("outcome", {t.outcome}))
           \/ UNCHANGED <<landing, locks>>
  BY DEF FlushApply
<1>2. /\ queue' = queue /\ raw' = raw /\ stage' = stage /\ lost' = lost /\ accepted' = accepted
      /\ stage[f] = "apply"
      /\ todo'[f] = todo[f] \ {i} /\ DOMAIN todo' = Flushers
      /\ \A g \in Flushers \ {f} : todo'[g] = todo[g]
  BY <1>0, <1>1, ReachesShape
<1>3. snapshots' = snapshots /\ held' = held /\ now' = now
  BY DEF vars, database, calls
<1>4. /\ landing' = landing /\ locks[f] \subseteq locks'[f] /\ DOMAIN locks' = Flushers
      /\ \A g \in Flushers \ {f} : locks'[g] = locks[g]
      /\ Apart(f)'
  <2>1. CASE Acquires(f, NoKeyUpdate("outcome", {t.outcome}))
    BY <1>0, <1>3, <2>1, AcquiresShape DEF Flushing
  <2>2. CASE UNCHANGED <<landing, locks>>
    BY <1>0, <1>3, <2>2 DEF Flushing, FlushTypes, Apart
  <2> QED
    BY <1>1, <2>1, <2>2
<1>5. FlushTypes' /\ OnlyFlusher(f)
  BY <1>0, <1>2, <1>3, <1>4 DEF FlushTypes, OnlyFlusher
<1>6. Flushing(f)'
  <2>1. Through(f, "insert")' = Through(f, "insert") /\ Through(f, "refer")' = Through(f, "refer")
    BY <1>2 DEF Through
  <2> QED
    BY <1>0, <1>2, <1>3, <1>4, <2>1 DEF Flushing, Covered, Recorded
<1>7. \A u \in landing'[f] : u \in landing[f]
  BY <1>4
<1> QED
  BY <1>2, <1>3, <1>5, <1>6, <1>7, OtherFlushers, InsideForgetsNothing DEF FlushInv

LEMMA GoesOnKeeps ==
  ASSUME FeedInv, NEW f \in Flushers, FlushGoesOn(f), UNCHANGED vars
  PROVE  FlushInv' /\ NoneForgotten'
<1>0. FlushTypes /\ Flushing(f)
  BY DEF FeedInv, FlushInv
<1>1. /\ queue' = queue /\ raw' = raw /\ lost' = lost /\ accepted' = accepted
      /\ landing' = landing /\ locks' = locks /\ todo[f] = {}
      /\ snapshots' = snapshots /\ held' = held /\ now' = now
  BY DEF FlushGoesOn, vars, database, calls
<1>2. \/ /\ stage[f] = "insert" /\ stage' = [stage EXCEPT ![f] = "refer"]
         /\ todo' = [todo EXCEPT ![f] = {i \in DOMAIN raw[f] : raw[f][i] \in landing[f]}]
      \/ /\ stage[f] = "refer" /\ stage' = [stage EXCEPT ![f] = "apply"]
         /\ todo' = [todo EXCEPT ![f] = FirstOnes(raw[f])]
  BY DEF FlushGoesOn
<1>3. FlushTypes' /\ OnlyFlusher(f)
  BY <1>0, <1>1, <1>2 DEF FlushTypes, Stages, OnlyFlusher
<1>4. Through(f, "insert") = DOMAIN raw[f] /\ Through(f, "insert")' = DOMAIN raw[f]
  BY <1>0, <1>1, <1>2 DEF Through, FlushTypes
<1>5. Flushing(f)'
  <2>1. Apart(f)'
    BY <1>0, <1>1 DEF Flushing, Apart
  <2>2. CASE stage[f] = "insert"
    <3>1. /\ stage'[f] = "refer"
          /\ todo'[f] = {i \in DOMAIN raw[f] : raw[f][i] \in landing[f]}
      BY <1>0, <1>2, <2>2 DEF FlushTypes
    <3>2. \A i \in Through(f, "refer")' : raw[f][i] \notin landing[f]
      BY <1>1, <3>1 DEF Through
    <3> QED
      BY <1>0, <1>1, <1>4, <2>1, <3>1, <3>2 DEF Flushing, Covered, Recorded
  <2>3. CASE stage[f] = "refer"
    <3>1. stage'[f] = "apply"
      BY <1>0, <1>2, <2>3 DEF FlushTypes
    <3>2. Through(f, "refer") = DOMAIN raw[f] /\ Through(f, "refer")' = DOMAIN raw[f]
      BY <1>1, <2>3, <3>1 DEF Through
    <3> QED
      BY <1>0, <1>1, <1>4, <2>1, <2>3, <3>1, <3>2 DEF Flushing, Covered, Recorded
  <2> QED
    BY <1>2, <2>2, <2>3
<1>6. \A u \in landing'[f] : u \in landing[f]
  BY <1>1
<1> QED
  BY <1>1, <1>3, <1>5, <1>6, OtherFlushers, InsideForgetsNothing DEF FlushInv

\* The end of a flush, whichever way, forgets no tick.
LEMMA EndKeeps ==
  ASSUME FeedInv, NEW f \in Flushers, FlushCommit(f) \/ (FlushFails(f) /\ UNCHANGED vars)
  PROVE  FlushInv' /\ NoneForgotten'
<1>0. FlushTypes /\ Flushing(f) /\ stage[f] # "pop"
  BY DEF FeedInv, FlushInv, FlushCommit, FlushFails
<1>1. /\ raw' = [raw EXCEPT ![f] = <<>>]
      /\ stage' = [stage EXCEPT ![f] = "pop"]
      /\ todo' = [todo EXCEPT ![f] = {}]
      /\ landing' = [landing EXCEPT ![f] = {}]
      /\ locks' = [locks EXCEPT ![f] = {}]
      /\ queue' = queue /\ accepted' = accepted /\ held' = held /\ now' = now
  BY DEF FlushCommit, FlushFails, FlushEnds, vars, database, calls
<1>2. raw'[f] = <<>> /\ stage'[f] = "pop" /\ landing'[f] = {} /\ locks'[f] = {}
  BY <1>0, <1>1 DEF FlushTypes
<1>3. \/ lost' = lost \cup Elements(raw[f]) /\ snapshots' = snapshots
      \/ /\ lost' = lost /\ snapshots' = snapshots \cup landing[f]
         /\ stage[f] = "apply" /\ todo[f] = {}
  BY DEF FlushCommit, FlushFails, vars, database
<1>4. FlushTypes' /\ OnlyFlusher(f)
  <2>1. /\ raw' \in [Flushers -> Seq(Ticks)] /\ stage' \in [Flushers -> Stages]
        /\ landing' \in [Flushers -> SUBSET Ticks]
    BY <1>0, <1>1 DEF FlushTypes, Stages
  <2> QED
    BY <1>0, <1>1, <1>3, <2>1 DEF FlushTypes, OnlyFlusher
<1>5. Flushing(f)'
  <2>1. Through(f, "insert")' = {} /\ Through(f, "refer")' = {}
    BY <1>2 DEF Through
  <2> QED
    BY <1>2, <2>1, NothingInNothing DEF Flushing, Apart
<1>6. \A u \in landing'[f] : u \in landing[f]
  BY <1>2
<1>7. (\A g \in Flushers : Flushing(g)') /\ OneInsert'
  BY <1>4, <1>5, <1>6, OtherFlushers
<1>8. NoneForgotten'
  <2>1. snapshots \subseteq snapshots' /\ lost \subseteq lost'
    BY <1>3
  <2>2. \A t \in Elements(raw[f]) : t \in lost' \/ Recorded(t)'
    <3> SUFFICES ASSUME NEW t \in Elements(raw[f]), t \notin lost'
                 PROVE  Recorded(t)'
      OBVIOUS
    <3>1. stage[f] = "apply" /\ snapshots' = snapshots \cup landing[f]
      BY <1>3
    <3>2. PICK i \in DOMAIN raw[f] : t = raw[f][i]
      BY DEF Elements
    <3>3. Covered(f, t)
      BY <1>0, <3>1, <3>2 DEF Flushing, Through
    <3> QED
      BY <3>1, <3>3 DEF Covered, Recorded
  <2>3. ASSUME NEW t \in Waiting
        PROVE  t \in Waiting' \/ t \in Elements(raw[f])
    <3>1. CASE \E g \in Flushers : t \in Elements(raw[g])
      <4>1. PICK g \in Flushers : t \in Elements(raw[g])
        BY <3>1
      <4>2. CASE g # f
        <5>1. raw'[g] = raw[g]
          BY <1>4, <4>2 DEF OnlyFlusher
        <5> QED
          BY <4>1, <5>1 DEF Waiting
      <4> QED
        BY <4>1, <4>2
    <3>2. CASE t \in Elements(queue)
      BY <1>1, <3>2 DEF Waiting
    <3> QED
      BY <2>3, <3>1, <3>2 DEF Waiting
  <2>4. \A t : Recorded(t) => Recorded(t)'
    BY <2>1 DEF Recorded
  <2> QED
    BY <1>1, <2>1, <2>2, <2>3, <2>4 DEF FeedInv, NoneForgotten
<1> QED
  BY <1>4, <1>7, <1>8 DEF FlushInv

\* A flush that commits is the arrival of its rows in Betting.
LEMMA CommitIsFeedSnapshots ==
  ASSUME FeedInv, NEW f \in Flushers, FlushCommit(f)
  PROVE  \/ landing[f] \in SUBSET Snapshot /\ FeedSnapshots(landing[f])
         \/ UNCHANGED vars
<1>0. FlushTypes /\ Flushing(f) /\ stage[f] = "apply"
  BY DEF FeedInv, FlushInv, FlushCommit
<1>1. CASE landing[f] # {}
  <2>1. landing[f] \in SUBSET Snapshot /\ \A s \in landing[f] : s.at <= now
    BY <1>0, TickTimes DEF FlushTypes, Flushing
  <2>2. \A t \in landing[f] : Reference(t) \subseteq locks[f]
    <3> TAKE t \in landing[f]
    <3>1. PICK i \in DOMAIN raw[f] : t = raw[f][i]
      BY <1>0 DEF Flushing, Elements
    <3>2. i \in Through(f, "refer")
      BY <1>0 DEF Through
    <3> QED
      BY <1>0, <3>1, <3>2 DEF Flushing
  <2>3. Unheld(KeyShare("outcome", {s.outcome : s \in landing[f]}))
    <3> SUFFICES ASSUME NEW c \in Calls, NEW m \in held[c],
                        NEW l \in KeyShare("outcome", {s.outcome : s \in landing[f]})
                 PROVE  ~ Conflict(l, m)
      BY DEF Unheld
    <3>1. PICK t \in landing[f] : l \in Reference(t)
      BY DEF KeyShare, Reference
    <3> QED
      BY <1>0, <2>2, <3>1 DEF Flushing, Apart
  <2>4. W!Feed(landing[f])
    <3>1. \A s \in landing[f], t \in snapshots \cup landing[f] :
            t.outcome = s.outcome /\ t.at = s.at => t = s /\ t \notin snapshots
      BY <1>0 DEF Flushing, Recorded, SameKey
    <3> QED
      BY <3>1 DEF FlushCommit, W!Feed
  <2> QED
    BY <1>1, <2>1, <2>3, <2>4 DEF FeedSnapshots, FlushCommit
<1>2. CASE landing[f] = {}
  BY <1>2 DEF FlushCommit, vars, database, calls
<1> QED
  BY <1>1, <1>2

-----------------------------------------------------------------------------
(* The theorems. *)

LEMMA FeedInitKeeps == FeedInit => FeedInv /\ Init
<1> SUFFICES ASSUME FeedInit
             PROVE  FeedInv
  BY DEF FeedInit
<1>1. Inv
  BY InitKeeps DEF FeedInit
<1>2. FlushTypes
  BY NothingInNothing DEF FeedInit, FlushTypes, Stages
<1>3. ASSUME NEW f \in Flushers
      PROVE  Flushing(f) /\ landing[f] = {}
  <2>1. /\ raw[f] = <<>> /\ stage[f] = "pop" /\ todo[f] = {} /\ landing[f] = {} /\ locks[f] = {}
    BY DEF FeedInit
  <2>2. Through(f, "insert") = {} /\ Through(f, "refer") = {}
    BY <2>1 DEF Through
  <2> QED
    BY <2>1, <2>2, NothingInNothing DEF Flushing, Apart
<1> QED
  BY <1>1, <1>2, <1>3 DEF FeedInit, FeedInv, FlushInv, OneInsert, NoneForgotten

\* The price a commit puts on a bet is the newest, and nothing newer is forgotten.
NewBetsOnNewest ==
  \A c \in Calls : bets[c] = None /\ bets'[c] # None =>
    LET newer(t) == t.outcome = bets'[c].snap.outcome /\ t.at > bets'[c].snap.at
    IN  /\ \A t \in accepted : newer(t) => t \in Waiting \cup lost
        /\ \A t \in snapshots : ~ newer(t)

LEMMA CallKeeps ==
  ASSUME FeedInv, NEW d \in Calls, UNCHANGED feed,
         \/ \E r \in Requests : Start(d, r)
         \/ Step(d) /\ FlushersLeave(Flushers, Wanted(d))
         \/ Fail(d) \/ Deadlocked(d) \/ DeadlockedOutside(d)
  PROVE  FeedInv' /\ Next /\ snapshots' = snapshots /\ NewBetsOnNewest
<1>0. Inv
  BY DEF FeedInv
<1>1. Next
  BY DEF Next
<1>2. Inv'
  BY <1>0, <1>1, NextKeeps
<1>3. /\ \A c \in Calls \ {d} : held'[c] = held[c]
      /\ held'[d] \subseteq held[d] \/ (Step(d) /\ held'[d] = held[d] \cup Wanted(d))
      /\ snapshots' = snapshots /\ now' = now
      /\ \A b \in Calls : bets[b] = None /\ bets'[b] # None
           => b = d /\ At(d, "place", "commit") /\ bets'[b].snap = snap[d]
  BY <1>0, CallStep
<1>4. held'[d] \subseteq held[d]
      \/ (FlushersLeave(Flushers, Wanted(d)) /\ held'[d] = held[d] \cup Wanted(d))
  <2>0. DOMAIN held = Calls
    BY <1>0, InvParts DEF TypeOK
  <2>1. CASE \E r \in Requests : Start(d, r)
    BY <2>0, <2>1 DEF Start
  <2>2. CASE Step(d) /\ FlushersLeave(Flushers, Wanted(d))
    BY <1>3, <2>2
  <2>3. CASE Return(d, "error")
    BY <2>0, <2>3 DEF Return, Answer
  <2>4. CASE RunAgain(d) /\ ~ Return(d, "error")
    BY <2>0, <2>4 DEF RunAgain
  <2> QED
    BY <2>1, <2>2, <2>3, <2>4 DEF Fail, Deadlocked, DeadlockedOutside
<1>5. ASSUME NEW f \in Flushers
      PROVE  Apart(f)'
  <2>1. Apart(f) /\ locks' = locks
    BY DEF FeedInv, FlushInv, Flushing, feed, flushes
  <2>2. \A l \in locks[f], m \in held'[d] : ~ Conflict(l, m)
    BY <1>4, <2>1, ConflictSymmetric DEF Apart, FlushersLeave
  <2> QED
    BY <1>3, <2>1, <2>2 DEF Apart
<1>6. now \in Nat
  BY <1>0, InvParts, TablesAssumption DEF TypeOK
<1>7. FlushInv' /\ NoneForgotten'
  BY <1>3, <1>5, <1>6, FeedRests
<1>8. NewBetsOnNewest
  <2> SUFFICES ASSUME NEW c \in Calls, bets[c] = None, bets'[c] # None
               PROVE  LET newer(t) == t.outcome = bets'[c].snap.outcome /\ t.at > bets'[c].snap.at
                      IN  /\ \A t \in accepted : newer(t) => t \in Waiting \cup lost
                          /\ \A t \in snapshots : ~ newer(t)
    BY DEF NewBetsOnNewest
  <2>1. c = d /\ At(d, "place", "commit") /\ bets'[c].snap = snap[d]
    BY <1>3
  <2>2. IsNewest(snap[d], snapshots, req[d].outcome)
    BY <1>0, <2>1, InvParts DEF Current, PlaceCurrent, At
  <2>3. snap[d].outcome = req[d].outcome /\ snap[d] \in snapshots
        /\ \A t \in snapshots : t.outcome = req[d].outcome => t.at <= snap[d].at
    BY <2>2 DEF IsNewest
  <2>4. \A t \in snapshots : t.at \in Nat
    <3>1. snapshots \subseteq Snapshot
      BY <1>0, InvParts, TableTypes
    <3>2. \A t \in Snapshot : t.at \in Times
      BY DEF Snapshot
    <3> QED
      BY <3>1, <3>2, TablesAssumption
  <2>5. \A t \in snapshots : t.outcome = snap[d].outcome => ~ (t.at > snap[d].at)
    BY <2>3, <2>4
  <2>6. ASSUME NEW t \in accepted, t.outcome = snap[d].outcome, t.at > snap[d].at
        PROVE  t \in Waiting \cup lost
    BY <2>5, <2>6 DEF FeedInv, NoneForgotten, Recorded, SameKey
  <2> QED
    BY <2>1, <2>5, <2>6
<1> QED
  BY <1>1, <1>2, <1>3, <1>7, <1>8 DEF FeedInv

\* The calls rest, and so does what bets are made of.
LEMMA SurroundingsKeep ==
  ASSUME FeedInv, UNCHANGED feed, Outside \/ Finished,
         \A s \in snapshots' \ snapshots : ~ Uncommitted(Flushers, s)
  PROVE  FeedInv' /\ Next /\ bets' = bets
<1>0. Inv /\ TypeOK
  BY InvParts DEF FeedInv
<1>1. Next
  BY DEF Next, Outside
<1>2. Inv'
  BY <1>0, <1>1, NextKeeps
<1>3. held' = held /\ bets' = bets /\ snapshots \subseteq snapshots'
      /\ now \in Nat /\ now' \in Nat /\ now <= now'
  <2>1. now \in Nat
    BY <1>0, TablesAssumption DEF TypeOK
  <2>2. CASE Outside
    <3>1. CASE Tick
      BY <2>1, <3>1 DEF Tick, tables, calls
    <3>2. ASSUME NEW arrived, FeedSnapshots(arrived)
          PROVE  held' = held /\ bets' = bets /\ snapshots \subseteq snapshots'
                 /\ now' \in Nat /\ now <= now'
      BY <2>1, <3>2 DEF FeedSnapshots, W!Feed, calls
    <3>3. ASSUME NEW e \in Events, EventAdvances(e)
          PROVE  held' = held /\ bets' = bets /\ snapshots \subseteq snapshots'
                 /\ now' \in Nat /\ now <= now'
      BY <2>1, <3>3 DEF EventAdvances, W!Advance, calls
    <3>4. CASE (\E x \in Sessions : EndSession(x)) \/ (\E xs \in SUBSET Sessions : EndSessionsBulk(xs))
      <4>1. UNCHANGED <<tables, now, calls>>
        BY <3>4, Zenon DEF EndSession, EndSessionsBulk
      <4> QED
        BY <2>1, <4>1 DEF tables, calls
    <3>5. ASSUME NEW u, NEW k, PurchaseCommits(u, k)
          PROVE  held' = held /\ bets' = bets /\ snapshots \subseteq snapshots'
                 /\ now' \in Nat /\ now <= now'
      BY <2>1, <3>5 DEF PurchaseCommits, W!Buy, calls
    <3>6. \/ Tick
          \/ \E arrived : FeedSnapshots(arrived)
          \/ \E e \in Events : EventAdvances(e)
          \/ \E u, k : PurchaseCommits(u, k)
          \/ (\E x \in Sessions : EndSession(x)) \/ (\E xs \in SUBSET Sessions : EndSessionsBulk(xs))
      BY <2>2 DEF Outside, Around
    <3> QED
      BY <2>1, <3>1, <3>2, <3>3, <3>4, <3>5, <3>6
  <2>3. CASE Finished
    BY <2>1, <2>3 DEF Finished, vars, database, calls
  <2> QED
    BY <2>2, <2>3
<1>4. \A f \in Flushers : Apart(f)'
  BY <1>3 DEF FeedInv, FlushInv, Flushing, Apart, feed, flushes
<1>5. FlushInv' /\ NoneForgotten'
  BY <1>3, <1>4, FeedRests
<1> QED
  BY <1>1, <1>2, <1>3, <1>5 DEF FeedInv

LEMMA PushKeeps ==
  ASSUME FeedInv, NEW t \in Ticks, QueuePush(t), UNCHANGED vars
  PROVE  FlushInv' /\ NoneForgotten'
<1>0. FlushTypes
  BY DEF FeedInv, FlushInv
<1>1. /\ queue' = Append(queue, t) /\ t.at <= now /\ accepted' = accepted \cup {t}
      /\ raw' = raw /\ stage' = stage /\ todo' = todo /\ landing' = landing
      /\ locks' = locks /\ lost' = lost
      /\ snapshots' = snapshots /\ held' = held /\ now' = now
  BY DEF QueuePush, flushes, vars, database, calls
<1>2. /\ queue' \in Seq(Ticks) /\ Len(queue') = Len(queue) + 1 /\ queue'[Len(queue) + 1] = t
      /\ \A i \in 1 .. Len(queue) : queue'[i] = queue[i]
      /\ DOMAIN queue = 1 .. Len(queue) /\ DOMAIN queue' = 1 .. Len(queue) + 1
      /\ Len(queue) \in Nat
  BY <1>0, <1>1 DEF FlushTypes
<1>3. Elements(queue') = Elements(queue) \cup {t}
  <2>1. /\ \A i \in DOMAIN queue : i \in DOMAIN queue' /\ queue'[i] = queue[i]
        /\ Len(queue) + 1 \in DOMAIN queue'
        /\ \A i \in DOMAIN queue' : i \in DOMAIN queue \/ i = Len(queue) + 1
    BY <1>2
  <2> QED
    BY <1>2, <2>1 DEF Elements
<1>4. FlushTypes'
  BY <1>0, <1>1, <1>2, <1>3 DEF FlushTypes
<1>5. (\A f \in Flushers : Flushing(f)') /\ OneInsert'
  BY <1>1 DEF FeedInv, FlushInv, Flushing, Through, Covered, OneInsert, Recorded, Apart
<1>6. NoneForgotten'
  BY <1>1, <1>3 DEF FeedInv, NoneForgotten, Recorded, Waiting
<1> QED
  BY <1>4, <1>5, <1>6 DEF FlushInv

\* Every step keeps the invariant and is a step of Betting or leaves it alone.
LEMMA FeedNextKeeps ==
  ASSUME FeedInv, [FeedNext]_<<vars, feed>>
  PROVE  /\ FeedInv'
         /\ [Next]_vars
         /\ snapshots' # snapshots => \E arrived \in SUBSET Snapshot : FeedSnapshots(arrived)
         /\ NewBetsOnNewest
<1>0. Inv
  BY DEF FeedInv
<1>1. ASSUME UNCHANGED vars
      PROVE  Inv' /\ NewBetsOnNewest /\ snapshots' = snapshots
  <2>1. bets' = bets /\ snapshots' = snapshots
    BY <1>1 DEF vars, database
  <2> QED
    BY <1>0, <1>1, <2>1, NextKeeps DEF NewBetsOnNewest
<1>2. ASSUME NEW d \in Calls, UNCHANGED feed,
             \/ \E r \in Requests : Start(d, r)
             \/ Step(d) /\ FlushersLeave(Flushers, Wanted(d))
             \/ Fail(d) \/ Deadlocked(d) \/ DeadlockedOutside(d)
      PROVE  FeedInv' /\ Next /\ snapshots' = snapshots /\ NewBetsOnNewest
  BY <1>2, CallKeeps
<1>3. ASSUME UNCHANGED feed, Around \/ Finished
      PROVE  FeedInv' /\ Next /\ snapshots' = snapshots /\ NewBetsOnNewest
  <2>1. snapshots' = snapshots
    BY <1>3 DEF Around, PurchaseCommits, W!Buy, EndSession, EndSessionsBulk, EventAdvances,
       W!Advance, Tick, Finished, tables, vars, database
  <2>2. Outside \/ Finished
    BY <1>3 DEF Outside
  <2>3. FeedInv' /\ Next /\ bets' = bets
    BY <1>3, <2>1, <2>2, SurroundingsKeep
  <2> QED
    BY <2>1, <2>3 DEF NewBetsOnNewest
<1>4. CASE \E s \in Snapshot : RecordSnapshot(s)
  <2>1. PICK s \in Snapshot : RecordSnapshot(s)
    BY <1>4
  <2>2. /\ FeedSnapshots({s}) /\ UNCHANGED feed /\ ~ Uncommitted(Flushers, s)
        /\ snapshots' = snapshots \cup {s} /\ {s} \in SUBSET Snapshot
    BY <2>1 DEF RecordSnapshot, FeedSnapshots, W!Feed
  <2>3. Outside
    BY <2>2 DEF Outside
  <2>4. FeedInv' /\ Next /\ bets' = bets
    BY <2>2, <2>3, SurroundingsKeep
  <2> QED
    BY <2>2, <2>4 DEF NewBetsOnNewest
<1>5. CASE (\E t \in Ticks : QueuePush(t)) /\ UNCHANGED vars
  BY <1>1, <1>5, PushKeeps DEF FeedInv
<1>6. ASSUME NEW f \in Flushers, UNCHANGED vars,
             \/ FlushPop(f) \/ FlushInsert(f) \/ FlushRefer(f) \/ FlushApply(f)
             \/ FlushGoesOn(f) \/ FlushFails(f)
      PROVE  FlushInv' /\ NoneForgotten'
  BY <1>6, PopKeeps, InsertKeeps, ReferKeeps, ApplyKeeps, GoesOnKeeps, EndKeeps
<1>7. ASSUME NEW f \in Flushers, FlushCommit(f)
      PROVE  /\ FeedInv' /\ [Next]_vars /\ NewBetsOnNewest
             /\ UNCHANGED vars \/ \E arrived \in SUBSET Snapshot : FeedSnapshots(arrived)
  <2>1. UNCHANGED vars \/ \E arrived \in SUBSET Snapshot : FeedSnapshots(arrived)
    BY <1>7, CommitIsFeedSnapshots
  <2>2. [Next]_vars
    BY <2>1 DEF Next
  <2>3. bets' = bets
    BY <1>7 DEF FlushCommit
  <2> QED
    BY <1>0, <1>7, <2>1, <2>2, <2>3, NextKeeps, EndKeeps DEF FeedInv, NewBetsOnNewest
<1>8. CASE UNCHANGED <<vars, feed>>
  <2>1. now \in Nat /\ now' = now /\ held' = held
    BY <1>0, <1>8, InvParts, TablesAssumption DEF TypeOK, vars, database, calls
  <2>2. \A f \in Flushers : Apart(f)'
    BY <1>8, <2>1 DEF FeedInv, FlushInv, Flushing, Apart, feed, flushes
  <2>3. FlushInv' /\ NoneForgotten'
    BY <1>1, <1>8, <2>1, <2>2, FeedRests
  <2> QED
    BY <1>1, <1>8, <2>3 DEF FeedInv
<1>9. CASE BettingNext
  BY <1>2, <1>3, <1>9 DEF BettingNext
<1>10. CASE \E f \in Flushers : FeedStep(f)
  <2>1. PICK f \in Flushers : FeedStep(f)
    BY <1>10
  <2>2. CASE FlushCommit(f)
    <3>1. UNCHANGED vars => snapshots' = snapshots
      BY DEF vars, database
    <3> QED
      BY <1>7, <2>2, <3>1
  <2>3. CASE ~ FlushCommit(f)
    BY <1>1, <1>6, <2>1, <2>3 DEF FeedStep, FeedInv
  <2> QED
    BY <2>2, <2>3
<1> QED
  BY <1>4, <1>5, <1>8, <1>9, <1>10 DEF FeedNext

LEMMA FeedInvHolds == FeedSpec => []FeedInv
<1>1. FeedInit => FeedInv
  BY FeedInitKeeps
<1>2. FeedInv /\ [FeedNext]_<<vars, feed>> => FeedInv'
  BY FeedNextKeeps
<1> QED
  BY <1>1, <1>2, PTL DEF FeedSpec

\* Whatever waits in the queue, however many rows a flush takes at once and however
\* flushes interleave with bets, settlements and cancellations, what happens to the
\* database is what Betting allows: all that is proved of Betting holds with any
\* number of flushers.
THEOREM FeedImplementsBetting == FeedSpec => Spec
<1>1. FeedInit => Init
  BY FeedInitKeeps
<1>2. FeedInv /\ [FeedNext]_<<vars, feed>> => [Next]_vars
  BY FeedNextKeeps
<1> QED
  BY <1>1, <1>2, FeedInvHolds, PTL DEF FeedSpec, Spec

\* A flush that holds the rows of some outcomes while it waits for the next lands
\* its batch, of whatever size, as one arrival of prices all the same: under new
\* keys, with none of the outcomes locked by a call.
THEOREM FlushesLandAsFeed == FeedSpec => LandsAsFeed
<1>1. FeedInv /\ [FeedNext]_<<vars, feed>>
        => [snapshots' # snapshots =>
              \E arrived \in SUBSET Snapshot : FeedSnapshots(arrived)]_snapshots
  BY FeedNextKeeps
<1> QED
  BY <1>1, FeedInvHolds, PTL DEF FeedSpec, LandsAsFeed

\* A bet never locks in a price when a newer one of its outcome is recorded, nor
\* when a newer one was accepted, unless that one is still on its way or lost.
THEOREM BetsLockInNewest == FeedSpec => BetsOnNewest
<1>1. FeedInv /\ [FeedNext]_<<vars, feed>>
        => [\A c \in Calls : bets[c] = None /\ bets'[c] # None =>
              LET newer(t) == t.outcome = bets'[c].snap.outcome /\ t.at > bets'[c].snap.at
              IN  /\ \A t \in accepted : newer(t) => t \in Waiting \cup lost
                  /\ \A t \in snapshots : ~ newer(t)]_bets
  BY FeedNextKeeps DEF NewBetsOnNewest
<1> QED
  BY <1>1, FeedInvHolds, PTL DEF FeedSpec, BetsOnNewest

\* The types and the money of Betting, with the queue and its flushers.
THEOREM FeedKeepsBooks == FeedSpec => [](TypeOK /\ LedgerBalanced /\ BetsFollowMarket)
BY FeedImplementsBetting, BettingTypes, MoneyBalances, NoBetLeftBehind, PTL
=============================================================================
