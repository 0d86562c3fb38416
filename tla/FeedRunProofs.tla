--------------------------- MODULE FeedRunProofs ---------------------------
(***************************************************************************)
(* FeedRun reconciles with any number of workers, ticks and moments, and   *)
(* any size of batch.                                                      *)
(***************************************************************************)
EXTENDS FeedRun, SequenceTheorems, FiniteSetTheorems, TLAPS

Inv == TypeOK /\ Tallied

-----------------------------------------------------------------------------
(* Sequences and rows. *)

\* LPOP with a count, and what it leaves, are between them the list.
LEMMA Split ==
  ASSUME NEW S, NEW s \in Seq(S), NEW n \in 0 .. Len(s)
  PROVE  /\ SubSeq(s, 1, n) \in Seq(S) /\ Len(SubSeq(s, 1, n)) = n
         /\ SubSeq(s, n + 1, Len(s)) \in Seq(S) /\ Len(SubSeq(s, n + 1, Len(s))) = Len(s) - n
<1>1. Len(s) \in Nat /\ \A i \in 1 .. Len(s) : s[i] \in S
  BY LenProperties, ElementOfSeq
<1>2. SubSeq(s, 1, n) \in Seq(S) /\ Len(SubSeq(s, 1, n)) = IF 1 <= n THEN n - 1 + 1 ELSE 0
  <2>1. \A i \in 1 .. n : s[i] \in S
    BY <1>1
  <2> QED
    BY <1>1, <2>1, SubSeqProperties
<1>3. /\ SubSeq(s, n + 1, Len(s)) \in Seq(S)
      /\ Len(SubSeq(s, n + 1, Len(s))) = IF n + 1 <= Len(s) THEN Len(s) - (n + 1) + 1 ELSE 0
  <2>1. \A i \in n + 1 .. Len(s) : s[i] \in S
    BY <1>1
  <2> QED
    BY <1>1, <2>1, SubSeqProperties
<1> QED
  BY <1>1, <1>2, <1>3

\* What a popped batch adds to the rows is no more than its length, and the rest
\* of it are the conflicts.
LEMMA Landing ==
  ASSUME NEW S, IsFiniteSet(S), NEW rows, rows \subseteq S, NEW s \in Seq(S)
  PROVE  /\ Cardinality(rows) \in Nat
         /\ Cardinality(Range(s) \ rows) \in 0 .. Len(s)
         /\ Cardinality(rows \cup Range(s)) = Cardinality(rows) + Cardinality(Range(s) \ rows)
<1> DEFINE new == Range(s) \ rows
<1>1. Range(s) \subseteq S /\ Len(s) \in Nat /\ s \in [1 .. Len(s) -> S]
  BY RangeOfSeq, LenProperties
<1>2. IsFiniteSet(rows) /\ IsFiniteSet(Range(s)) /\ IsFiniteSet(new)
  BY <1>1, FS_Subset
<1>3. Cardinality(rows) \in Nat /\ Cardinality(new) \in Nat
  BY <1>2, FS_CardinalityType
<1>4. Cardinality(Range(s)) <= Len(s)
  <2>1. s \in Surjection(1 .. Len(s), Range(s))
    BY <1>1 DEF Surjection, Range
  <2> QED
    BY <1>1, <2>1, FS_SurjCardinalityBound DEF ExistsSurjection
<1>5. Cardinality(new) <= Cardinality(Range(s)) /\ Cardinality(Range(s)) \in Nat
  BY <1>2, FS_Subset, FS_CardinalityType
<1>6. Cardinality(rows \cup new) = Cardinality(rows) + Cardinality(new) - Cardinality(rows \cap new)
  BY <1>2, FS_Union
<1>7. rows \cup new = rows \cup Range(s) /\ rows \cap new = {}
  OBVIOUS
<1>8. Cardinality(rows \cup Range(s)) = Cardinality(rows) + Cardinality(new)
  <2>1. Cardinality(rows \cap new) = 0
    BY <1>7, FS_EmptySet
  <2>2. Cardinality(rows \cup Range(s)) = Cardinality(rows) + Cardinality(new) - 0
    BY <1>6, <1>7, <2>1
  <2> HIDE DEF new
  <2> QED
    BY <1>3, <2>2
<1>9. Cardinality(new) \in 0 .. Len(s)
  BY <1>1, <1>3, <1>4, <1>5
<1> QED
  BY <1>3, <1>8, <1>9

LEMMA TimesFinite == IsFiniteSet(Times)
BY FeedRunAssumption, FS_Interval DEF Times

-----------------------------------------------------------------------------
(* The steps. *)

LEMMA Begins == ASSUME Init PROVE Inv
<1>1. TypeOK
  <2>1. <<>> \in Seq(Times) /\ Len(<<>>) = 0 /\ 0 \in Times /\ 0 \in 0 .. MaxTicks /\ 0 <= BatchSize
    BY FeedRunAssumption, EmptySeq DEF Times
  <2>2. Nothing \in Result /\ Zero \in Counts
    BY DEF Nothing, Zero, Result, Counts
  <2>3. \A t \in Threads : pc[t] \in {"workers", "check"}
    BY DEF Init
  <2> QED
    BY <2>1, <2>2, <2>3 DEF Init, TypeOK
<1>2. Cardinality(snapshots) = 0
  BY FS_EmptySet DEF Init
<1>3. Tallied
  BY <1>2 DEF Init, Tallied, InOrder, HandsClear, Drained, Balanced, Threads, Nothing, Zero, InHand, Waiting
<1> QED
  BY <1>1, <1>3 DEF Inv

\* A thread that is flushing is the only one.
LEMMA OneAtWork ==
  ASSUME Tallied, NEW t \in Threads, pc[t] \in {"pop", "write", "load", "store"},
         NEW u \in Threads \ {t}
  PROVE  pc[u] \notin {"pop", "write", "load", "store", "report"}
BY DEF Tallied, InOrder, HandsClear, Drained, Balanced, Threads

LEMMA WorkerKeeps ==
  ASSUME Inv, NEW w \in Workers, WorkerCheck(w) \/ WorkerPush(w) \/ WorkerDies(w)
  PROVE  Inv'
<1> USE DEF Inv
<1>1. pc["main"] = "workers"
  BY DEF Tallied, InOrder, WorkerCheck, WorkerPush, WorkerDies
<1>2. CASE WorkerCheck(w)
  <2>1. TypeOK'
    <3>1. /\ wpc' \in [Workers -> {"check", "push", "left"}]
          /\ made' \in [Workers -> 0 .. MaxTicks]
          /\ stamp' \in [Workers -> Times]
      <4>1. CASE ~ late /\ made[w] < MaxTicks
        <5>1. made[w] + 1 \in 0 .. MaxTicks /\ now \in Times
          BY <4>1, FeedRunAssumption DEF TypeOK
        <5>2. /\ wpc' = [wpc EXCEPT ![w] = "push"] \/ wpc' = [wpc EXCEPT ![w] = "left"]
              /\ made' = made \/ made' = [made EXCEPT ![w] = made[w] + 1]
              /\ stamp' = stamp \/ stamp' = [stamp EXCEPT ![w] = now]
          BY <1>2 DEF WorkerCheck
        <5> QED
          BY <5>1, <5>2 DEF TypeOK
      <4>2. CASE ~ (~ late /\ made[w] < MaxTicks)
        BY <1>2, <4>2 DEF WorkerCheck, TypeOK
      <4> QED
        BY <4>1, <4>2
    <3> QED
      BY <1>2, <3>1 DEF WorkerCheck, TypeOK, feed, clock, flush, counts
  <2>2. Tallied'
    BY <1>1, <1>2 DEF WorkerCheck, Tallied, InOrder, HandsClear, Drained, Balanced, Threads, InHand, Waiting, feed, clock, flush, counts
  <2> QED
    BY <2>1, <2>2
<1>3. CASE WorkerPush(w)
  <2>1. queue' \in Seq(Times) /\ Len(queue') = Len(queue) + 1
    BY <1>3, AppendProperties DEF WorkerPush, TypeOK
  <2>2. TypeOK'
    <3>1. wpc' \in [Workers -> {"check", "push", "left"}] /\ accepted' \in Nat
      BY <1>3 DEF WorkerPush, TypeOK
    <3> QED
      BY <1>3, <2>1, <3>1 DEF WorkerPush, TypeOK, clock, flush, counts
  <2>3. \A t \in Threads : /\ InHand(t)' = InHand(t)
                           /\ \A f : Waiting(t, f)' = Waiting(t, f)
    BY <1>3 DEF WorkerPush, InHand, Waiting, flush, counts
  <2>4. \A t \in Threads : InHand(t) \in Int
    BY LenProperties DEF TypeOK, InHand, Waiting, Result
  <2>5. Tallied'
    <3>1. (\A t \in Threads : pc[t] # "failed") =>
            accepted' = total'.landed + total'.conflicts + Len(queue')
                          + InHand("flusher")' + InHand("main")'
      <4>1. /\ total' = total /\ accepted' = accepted + 1
            /\ InHand("flusher")' = InHand("flusher") /\ InHand("main")' = InHand("main")
        BY <1>3, <2>3 DEF WorkerPush, Threads, flush, counts
      <4>2. /\ Len(queue) \in Int /\ total.landed \in Int /\ total.conflicts \in Int
            /\ InHand("flusher") \in Int /\ InHand("main") \in Int
        BY <2>4, LenProperties DEF Threads, TypeOK, Counts
      <4> QED
        BY <2>1, <4>1, <4>2 DEF Tallied, Balanced
    <3> QED
      BY <1>1, <1>3, <2>3, <3>1 DEF WorkerPush, Tallied, InOrder, HandsClear, Drained, Balanced, Threads, flush, counts
  <2> QED
    BY <2>2, <2>5
<1>4. CASE WorkerDies(w)
  <2>1. TypeOK'
    BY <1>4 DEF WorkerDies, TypeOK, feed, clock, flush, counts
  <2>2. Tallied'
    BY <1>1, <1>4 DEF WorkerDies, Tallied, InOrder, HandsClear, Drained, Balanced, Threads, InHand, Waiting, feed, clock, flush, counts
  <2> QED
    BY <2>1, <2>2
<1> QED
  BY <1>2, <1>3, <1>4

\* What the threads hold is counted in numbers.
LEMMA HandTypes ==
  ASSUME TypeOK, NEW t \in Threads
  PROVE  /\ Len(batch[t]) \in Nat /\ InHand(t) \in Nat
         /\ Waiting(t, "landed") \in Nat /\ Waiting(t, "conflicts") \in Nat
         /\ InHand(t) = Len(batch[t]) + Waiting(t, "landed") + Waiting(t, "conflicts")
         /\ Len(queue) \in Nat /\ total.landed \in Nat /\ total.conflicts \in Nat
<1>1. batch[t] \in Seq(Times) /\ queue \in Seq(Times) /\ result[t] \in Result /\ total \in Counts
  BY DEF TypeOK
<1> QED
  BY <1>1, LenProperties DEF InHand, Waiting, Result, Counts

LEMMA HandTypesNext ==
  ASSUME TypeOK', NEW t \in Threads
  PROVE  /\ InHand(t)' \in Nat /\ Waiting(t, "landed")' \in Nat
         /\ Len(queue') \in Nat /\ total'.landed \in Nat /\ total'.conflicts \in Nat
<1>1. batch'[t] \in Seq(Times) /\ queue' \in Seq(Times) /\ result'[t] \in Result /\ total' \in Counts
  BY DEF TypeOK
<1> QED
  BY <1>1, LenProperties DEF InHand, Waiting, Result, Counts

\* A step of one thread that leaves the other alone, and the sums as they were,
\* leaves the books balanced.
LEMMA BooksBalance ==
  ASSUME Inv, TypeOK', NEW t \in Threads, pc[t] # "failed",
         \A u \in Threads \ {t} : /\ pc'[u] = pc[u] /\ batch'[u] = batch[u]
                                  /\ result'[u] = result[u],
         accepted' = accepted,
         /\ total'.landed + total'.conflicts + Len(queue') + InHand(t)'
              = total.landed + total.conflicts + Len(queue) + InHand(t)
         /\ Cardinality(snapshots') - total'.landed - Waiting(t, "landed")'
              = Cardinality(snapshots) - total.landed - Waiting(t, "landed")
  PROVE  Balanced'
<1> SUFFICES ASSUME \A u \in Threads : pc'[u] # "failed"
             PROVE  /\ accepted' = total'.landed + total'.conflicts + Len(queue')
                                     + InHand("flusher")' + InHand("main")'
                    /\ Cardinality(snapshots')
                         = total'.landed + Waiting("flusher", "landed")' + Waiting("main", "landed")'
  BY DEF Balanced
<1>1. \A u \in Threads : pc[u] # "failed"
  OBVIOUS
<1>2. /\ accepted = total.landed + total.conflicts + Len(queue) + InHand("flusher") + InHand("main")
      /\ Cardinality(snapshots)
           = total.landed + Waiting("flusher", "landed") + Waiting("main", "landed")
  BY <1>1 DEF Inv, Tallied, Balanced
<1>3. \A u \in Threads \ {t} : InHand(u)' = InHand(u) /\ Waiting(u, "landed")' = Waiting(u, "landed")
  BY DEF InHand, Waiting
<1>4. \A u \in Threads : /\ InHand(u) \in Int /\ InHand(u)' \in Int
                         /\ Waiting(u, "landed") \in Int /\ Waiting(u, "landed")' \in Int
  <2> TAKE u \in Threads
  <2>1. InHand(u) \in Nat /\ Waiting(u, "landed") \in Nat
    BY HandTypes DEF Inv
  <2>2. InHand(u)' \in Nat /\ Waiting(u, "landed")' \in Nat
    BY HandTypesNext
  <2> QED
    BY <2>1, <2>2
<1>5. /\ total.landed \in Int /\ total.conflicts \in Int /\ Len(queue) \in Int
      /\ total'.landed \in Int /\ total'.conflicts \in Int /\ Len(queue') \in Int
  <2>1. total.landed \in Nat /\ total.conflicts \in Nat /\ Len(queue) \in Nat
    BY HandTypes DEF Inv
  <2>2. total'.landed \in Nat /\ total'.conflicts \in Nat /\ Len(queue') \in Nat
    BY HandTypesNext
  <2> QED
    BY <2>1, <2>2
<1>6. Cardinality(snapshots) \in Int /\ Cardinality(snapshots') \in Int
  BY TimesFinite, FS_Subset, FS_CardinalityType DEF Inv, TypeOK
<1> DEFINE b  == total.landed + total.conflicts + Len(queue)
           b2 == total'.landed + total'.conflicts + Len(queue')
           k  == Cardinality(snapshots) - total.landed
           k2 == Cardinality(snapshots') - total'.landed
<1>7. /\ b2 + InHand(t)' = b + InHand(t)
      /\ k2 - Waiting(t, "landed")' = k - Waiting(t, "landed")
  OBVIOUS
<1>8. /\ accepted = b + InHand("flusher") + InHand("main")
      /\ k = Waiting("flusher", "landed") + Waiting("main", "landed")
  <2>1. Waiting("flusher", "landed") \in Int /\ Waiting("main", "landed") \in Int
    BY <1>4 DEF Threads
  <2> QED
    BY <1>2, <1>5, <1>6, <2>1
<1>9. b \in Int /\ b2 \in Int /\ k \in Int /\ k2 \in Int
  <2>1. b \in Int
    BY <1>5
  <2>2. b2 \in Int
    BY <1>5
  <2>3. k \in Int
    BY <1>5, <1>6
  <2>4. k2 \in Int
    BY <1>5, <1>6
  <2> QED
    BY <2>1, <2>2, <2>3, <2>4
<1>10. /\ InHand("flusher") \in Int /\ InHand("flusher")' \in Int
       /\ InHand("main") \in Int /\ InHand("main")' \in Int
       /\ Waiting("flusher", "landed") \in Int /\ Waiting("flusher", "landed")' \in Int
       /\ Waiting("main", "landed") \in Int /\ Waiting("main", "landed")' \in Int
  BY <1>4 DEF Threads
<1>11. SUFFICES /\ accepted = b2 + InHand("flusher")' + InHand("main")'
                /\ k2 = Waiting("flusher", "landed")' + Waiting("main", "landed")'
  <2>1. ASSUME k2 = Waiting("flusher", "landed")' + Waiting("main", "landed")'
        PROVE  Cardinality(snapshots')
                 = total'.landed + Waiting("flusher", "landed")' + Waiting("main", "landed")'
    <3> DEFINE f == Waiting("flusher", "landed")'
               m == Waiting("main", "landed")'
               c == Cardinality(snapshots')
               l == total'.landed
    <3>1. f \in Int /\ m \in Int /\ c \in Int /\ l \in Int /\ c - l = f + m
      BY <1>5, <1>6, <1>10, <2>1
    <3> HIDE DEF f, m, c, l
    <3>2. c = l + f + m
      BY <3>1
    <3> QED
      BY <3>2 DEF f, m, c, l
  <2> QED
    BY <2>1
<1> HIDE DEF b, b2, k, k2
<1>12. CASE t = "flusher"
  <2>1. InHand("main")' = InHand("main") /\ Waiting("main", "landed")' = Waiting("main", "landed")
    BY <1>3, <1>12 DEF Threads
  <2>2. b2 + InHand("flusher")' = b + InHand("flusher") /\ k2 - Waiting("flusher", "landed")' = k - Waiting("flusher", "landed")
    BY <1>7, <1>12
  <2>3. accepted = b2 + InHand("flusher")' + InHand("main")'
    BY <1>8, <1>9, <1>10, <2>1, <2>2
  <2>4. k2 = Waiting("flusher", "landed")' + Waiting("main", "landed")'
    BY <1>8, <1>9, <1>10, <2>1, <2>2
  <2> QED
    BY <2>3, <2>4
<1>13. CASE t = "main"
  <2>1. InHand("flusher")' = InHand("flusher") /\ Waiting("flusher", "landed")' = Waiting("flusher", "landed")
    BY <1>3, <1>13 DEF Threads
  <2>2. b2 + InHand("main")' = b + InHand("main") /\ k2 - Waiting("main", "landed")' = k - Waiting("main", "landed")
    BY <1>7, <1>13
  <2>3. accepted = b2 + InHand("flusher")' + InHand("main")'
    <3> DEFINE f == InHand("flusher")
               m == InHand("main")
               m2 == InHand("main")'
    <3>1. f \in Int /\ m \in Int /\ m2 \in Int /\ b2 + m2 = b + m /\ accepted = b + f + m
      BY <1>8, <1>10, <2>2
    <3> HIDE DEF f, m, m2
    <3>2. accepted = b2 + f + m2
      BY <1>9, <3>1
    <3> QED
      BY <2>1, <3>2 DEF f, m2
  <2>4. k2 = Waiting("flusher", "landed")' + Waiting("main", "landed")'
    BY <1>8, <1>9, <1>10, <2>1, <2>2
  <2> QED
    BY <2>3, <2>4
<1> QED
  BY <1>12, <1>13 DEF Threads

-----------------------------------------------------------------------------
(* flush_odds_queue. *)

LEMMA PopKeeps == ASSUME Inv, NEW t \in Threads, FlushPop(t) PROVE Inv'
<1> USE DEF Inv
<1> DEFINE n == IF Len(queue) < BatchSize THEN Len(queue) ELSE BatchSize
<1>1. /\ queue \in Seq(Times) /\ batch[t] = <<>> /\ pc[t] = "pop"
      /\ n \in 0 .. Len(queue) /\ Len(queue) \in Nat /\ n <= BatchSize /\ (n = 0 => queue = <<>>)
  <2>1. queue \in Seq(Times) /\ Len(queue) \in Nat /\ (queue # <<>> => Len(queue) # 0)
    BY LenProperties, EmptySeq DEF TypeOK
  <2> QED
    BY <2>1, FeedRunAssumption DEF FlushPop, Tallied, HandsClear
<1>2. /\ SubSeq(queue, 1, n) \in Seq(Times) /\ Len(SubSeq(queue, 1, n)) = n
      /\ SubSeq(queue, n + 1, Len(queue)) \in Seq(Times)
      /\ Len(SubSeq(queue, n + 1, Len(queue))) = Len(queue) - n
  BY <1>1, Split
<1>3. /\ queue' = SubSeq(queue, n + 1, Len(queue))
      /\ UNCHANGED <<accepted, snapshots, clock, workers, stopping, counts>>
  BY DEF FlushPop
<1>4. \/ /\ n > 0 /\ batch' = [batch EXCEPT ![t] = SubSeq(queue, 1, n)]
         /\ pc' = [pc EXCEPT ![t] = "write"] /\ result' = result
      \/ /\ n = 0 /\ result' = [result EXCEPT ![t] = Nothing]
         /\ pc' = [pc EXCEPT ![t] = "load"] /\ batch' = batch
  BY DEF FlushPop, Go
<1>5. Nothing \in Result
  BY DEF Nothing, Result
<1> HIDE DEF n
<1>6. TypeOK'
  <2>1. batch' \in [Threads -> Seq(Times)] /\ \A u \in Threads : Len(batch'[u]) <= BatchSize
    BY <1>1, <1>2, <1>4 DEF TypeOK
  <2>2. result' \in [Threads -> Result]
    BY <1>4, <1>5 DEF TypeOK
  <2> QED
    BY <1>2, <1>3, <1>4, <2>1, <2>2 DEF TypeOK, clock, workers, counts
<1>7. /\ total'.landed + total'.conflicts + Len(queue') + InHand(t)'
           = total.landed + total.conflicts + Len(queue) + InHand(t)
      /\ Waiting(t, "landed")' = 0 /\ Waiting(t, "landed") = 0
  <2>1. InHand(t) = 0 /\ Waiting(t, "landed") = 0
    BY <1>1, EmptySeq DEF InHand, Waiting
  <2>2. InHand(t)' = n /\ Waiting(t, "landed")' = 0
    <3>1. CASE n > 0
      <4>1. pc'[t] = "write" /\ Len(batch'[t]) = n
        BY <1>2, <1>4, <3>1 DEF TypeOK
      <4> QED
        BY <1>1, <4>1 DEF InHand, Waiting
    <3>2. CASE n = 0
      <4>1. pc'[t] = "load" /\ result'[t] = Nothing /\ Len(batch'[t]) = 0
        BY <1>1, <1>4, <3>2, EmptySeq DEF TypeOK
      <4> QED
        BY <3>2, <4>1 DEF InHand, Waiting, Nothing
    <3> QED
      BY <1>1, <3>1, <3>2
  <2> QED
    <3>1. total' = total /\ Len(queue') = Len(queue) - n /\ n \in Int
      BY <1>1, <1>2, <1>3 DEF counts
    <3> QED
      BY <2>1, <2>2, <3>1, HandTypes
<1>8. \A u \in Threads \ {t} : pc'[u] = pc[u] /\ batch'[u] = batch[u] /\ result'[u] = result[u]
  BY <1>4 DEF TypeOK
<1>9. Balanced'
  BY <1>1, <1>3, <1>6, <1>7, <1>8, BooksBalance DEF counts
<1>10. HandsClear'
  <2>1. pc'[t] = "write" => batch'[t] # <<>>
    BY <1>1, <1>2, <1>4, EmptySeq DEF TypeOK
  <2>2. pc'[t] # "write" => batch'[t] = <<>> /\ pc'[t] = "load"
    BY <1>1, <1>4 DEF TypeOK
  <2>3. pc'[t] # "store"
    BY <1>4 DEF TypeOK
  <2> QED
    BY <1>3, <1>8, <2>1, <2>2, <2>3 DEF Tallied, HandsClear, counts
<1>11. Drained'
  <2>1. CASE t = "main"
    <3>1. n = 0 => queue' = <<>>
      BY <1>1, <1>2, <1>3, EmptySeq
    <3> QED
      BY <1>1, <1>4, <2>1, <3>1 DEF TypeOK, Drained
  <2>2. CASE t = "flusher"
    BY <1>1, <1>8, <2>2 DEF Tallied, InOrder, Drained, Threads
  <2> QED
    BY <2>1, <2>2 DEF Threads
<1>12. InOrder'
  BY <1>1, <1>3, <1>4, <1>8 DEF Tallied, InOrder, Threads, TypeOK, workers
<1> QED
  BY <1>6, <1>9, <1>10, <1>11, <1>12 DEF Tallied

LEMMA WriteKeeps == ASSUME Inv, NEW t \in Threads, FlushWrite(t) PROVE Inv'
<1> USE DEF Inv
<1> DEFINE n == Len(batch[t])
           l == Cardinality(Range(batch[t]) \ snapshots)
<1>1. /\ batch[t] \in Seq(Times) /\ pc[t] = "write" /\ snapshots \subseteq Times
      /\ n \in Nat /\ IsFiniteSet(Times)
  BY LenProperties, TimesFinite DEF TypeOK, FlushWrite
<1>2. /\ Cardinality(snapshots) \in Nat /\ l \in 0 .. n
      /\ Cardinality(snapshots \cup Range(batch[t])) = Cardinality(snapshots) + l
  BY <1>1, Landing
<1>3. /\ snapshots' = snapshots \cup Range(batch[t])
      /\ result' = [result EXCEPT ![t] = [popped |-> n, landed |-> l, conflicts |-> n - l]]
      /\ batch' = [batch EXCEPT ![t] = <<>>]
      /\ pc' = [pc EXCEPT ![t] = "load"]
      /\ UNCHANGED <<queue, accepted, clock, workers, stopping, counts>>
  BY DEF FlushWrite, Go
<1>4. Range(batch[t]) \subseteq Times /\ <<>> \in Seq(Times) /\ Len(<<>>) = 0
  BY <1>1, RangeOfSeq, EmptySeq
<1> HIDE DEF n, l
<1>5. [popped |-> n, landed |-> l, conflicts |-> n - l] \in Result
  <2>1. l \in Nat /\ n - l \in Nat
    BY <1>1, <1>2
  <2> QED
    BY <1>1, <2>1 DEF Result
<1>6. TypeOK'
  <2>1. batch' \in [Threads -> Seq(Times)] /\ \A u \in Threads : Len(batch'[u]) <= BatchSize
    BY <1>3, <1>4, FeedRunAssumption DEF TypeOK
  <2>2. result' \in [Threads -> Result]
    BY <1>3, <1>5 DEF TypeOK
  <2>3. snapshots' \subseteq Times
    BY <1>1, <1>3, <1>4
  <2> QED
    BY <1>3, <2>1, <2>2, <2>3 DEF TypeOK, clock, workers, counts
<1>7. /\ InHand(t) = n /\ InHand(t)' = n
      /\ Waiting(t, "landed") = 0 /\ Waiting(t, "landed")' = l
  <2>1. InHand(t) = n /\ Waiting(t, "landed") = 0
    BY <1>1 DEF InHand, Waiting, n
  <2>2. /\ pc'[t] = "load" /\ Len(batch'[t]) = 0
        /\ result'[t] = [popped |-> n, landed |-> l, conflicts |-> n - l]
    BY <1>3, <1>4 DEF TypeOK
  <2>3. Waiting(t, "landed")' = l /\ Waiting(t, "conflicts")' = n - l
    BY <2>2 DEF Waiting
  <2>4. InHand(t)' = 0 + l + (n - l)
    BY <2>2, <2>3 DEF InHand
  <2> QED
    BY <1>1, <1>2, <2>1, <2>3, <2>4
<1>8. \A u \in Threads \ {t} : pc'[u] = pc[u] /\ batch'[u] = batch[u] /\ result'[u] = result[u]
  BY <1>3 DEF TypeOK
<1>9. Balanced'
  <2>1. total' = total /\ queue' = queue /\ accepted' = accepted
    BY <1>3 DEF counts
  <2>2. Cardinality(snapshots') = Cardinality(snapshots) + l
    BY <1>2, <1>3
  <2>3. total'.landed + total'.conflicts + Len(queue') + InHand(t)'
          = total.landed + total.conflicts + Len(queue) + InHand(t)
    BY <1>7, <2>1
  <2>4. Cardinality(snapshots') - total'.landed - Waiting(t, "landed")'
          = Cardinality(snapshots) - total.landed - Waiting(t, "landed")
    <3> DEFINE k == Cardinality(snapshots)
               s == total.landed
    <3>1. k \in Int /\ s \in Int /\ l \in Int
      BY <1>1, <1>2, HandTypes
    <3> HIDE DEF k, s
    <3>2. (k + l) - s - l = k - s - 0
      BY <3>1
    <3> QED
      BY <1>7, <2>1, <2>2, <3>2 DEF k, s
  <2> QED
    BY <1>1, <1>6, <1>8, <2>1, <2>3, <2>4, BooksBalance
<1>10. HandsClear'
  <2>1. pc'[t] = "load" /\ batch'[t] = <<>>
    BY <1>3 DEF TypeOK
  <2> QED
    BY <1>3, <1>8, <2>1 DEF Tallied, HandsClear, counts
<1>11. Drained'
  <2>1. CASE t = "main"
    <3>1. n # 0
      BY <1>1, EmptySeq DEF Tallied, HandsClear, n
    <3>2. pc'["main"] = "load" /\ result'["main"].popped = n
      BY <1>3, <2>1 DEF TypeOK
    <3> QED
      BY <3>1, <3>2 DEF Drained
  <2>2. CASE t = "flusher"
    BY <1>1, <1>8, <2>2 DEF Tallied, InOrder, Drained, Threads
  <2> QED
    BY <2>1, <2>2 DEF Threads
<1>12. InOrder'
  BY <1>1, <1>3, <1>8 DEF Tallied, InOrder, Threads, TypeOK, workers
<1> QED
  BY <1>6, <1>9, <1>10, <1>11, <1>12 DEF Tallied

\* The sums may be loaded, since the other thread is not about to store them.
LEMMA LoadKeeps == ASSUME Inv, NEW t \in Threads, LoadTotal(t) PROVE Inv'
<1> USE DEF Inv
<1>1. /\ pc[t] = "load" /\ seen' = [seen EXCEPT ![t] = total]
      /\ pc' = [pc EXCEPT ![t] = "store"]
      /\ UNCHANGED <<feed, clock, workers, stopping, batch, result, total>>
  BY DEF LoadTotal, Go
<1>2. TypeOK'
  BY <1>1 DEF TypeOK, feed, clock, workers
<1>3. \A u \in Threads \ {t} : pc'[u] = pc[u] /\ seen'[u] = seen[u] /\ batch'[u] = batch[u] /\ result'[u] = result[u]
  BY <1>1 DEF TypeOK
<1>4. pc'[t] = "store" /\ seen'[t] = total /\ batch'[t] = batch[t] /\ result'[t] = result[t]
  BY <1>1 DEF TypeOK
<1>5. InHand(t)' = InHand(t) /\ Waiting(t, "landed")' = Waiting(t, "landed")
  BY <1>1, <1>4 DEF InHand, Waiting
<1>6. Balanced'
  BY <1>1, <1>2, <1>3, <1>5, BooksBalance DEF feed
<1>7. HandsClear'
  BY <1>1, <1>3, <1>4 DEF Tallied, HandsClear
<1>8. Drained'
  BY <1>1, <1>3, <1>4 DEF Tallied, Drained, Threads, feed
<1>9. InOrder'
  BY <1>1, <1>3, <1>4 DEF Tallied, InOrder, Threads, workers
<1> QED
  BY <1>2, <1>6, <1>7, <1>8, <1>9 DEF Tallied

\* Nothing is lost between load and store: the other thread is not flushing.
LEMMA StoreKeeps == ASSUME Inv, NEW t \in Threads, StoreTotal(t) PROVE Inv'
<1> USE DEF Inv
<1>1. /\ pc[t] = "store" /\ seen[t] = total /\ batch[t] = <<>>
      /\ total' = [landed    |-> seen[t].landed + result[t].landed,
                   conflicts |-> seen[t].conflicts + result[t].conflicts]
      /\ UNCHANGED <<feed, clock, workers, stopping, batch, result, seen>>
  BY DEF StoreTotal, Tallied, HandsClear
<1>2. /\ pc' \in { [pc EXCEPT ![t] = label] : label \in {"wait", "check", "report", "pop"} }
      /\ t = "flusher" => pc' \in { [pc EXCEPT ![t] = label] : label \in {"wait", "check"} }
      /\ t = "main" => \/ pc' = [pc EXCEPT ![t] = "report"] /\ result[t].popped = 0
                       \/ pc' = [pc EXCEPT ![t] = "pop"]
  BY DEF StoreTotal, Go
<1>3. result[t] \in Result /\ total \in Counts
  BY DEF TypeOK
<1>4. /\ total'.landed = total.landed + result[t].landed
      /\ total'.conflicts = total.conflicts + result[t].conflicts
  BY <1>1
<1>5. TypeOK'
  <2>1. total' \in Counts
    BY <1>1, <1>3 DEF Counts, Result
  <2>2. pc' \in [Threads -> {"check", "pop", "write", "load", "store", "wait", "left", "failed",
                             "workers", "stop", "join", "report"}]
    BY <1>2 DEF TypeOK
  <2> QED
    BY <1>1, <2>1, <2>2 DEF TypeOK, feed, clock, workers
<1>6. \A u \in Threads \ {t} : /\ pc'[u] = pc[u] /\ batch'[u] = batch[u] /\ result'[u] = result[u]
                               /\ pc[u] # "store"
  <2>1. \A u \in Threads \ {t} : pc[u] # "store"
    BY <1>1, OneAtWork
  <2> QED
    BY <1>1, <1>2, <2>1 DEF TypeOK
<1>7. pc'[t] \in {"wait", "check", "report", "pop"} /\ batch'[t] = <<>>
  BY <1>1, <1>2 DEF TypeOK
<1>8. Balanced'
  <2>1. /\ InHand(t) = result[t].landed + result[t].conflicts
        /\ Waiting(t, "landed") = result[t].landed
    BY <1>1, <1>3, EmptySeq DEF InHand, Waiting, Result
  <2>2. InHand(t)' = 0 /\ Waiting(t, "landed")' = 0
    BY <1>7, EmptySeq DEF InHand, Waiting
  <2> DEFINE rl == result[t].landed
             rc == result[t].conflicts
             tl == total.landed
             tc == total.conflicts
             q  == Len(queue)
             k  == Cardinality(snapshots)
  <2>3. rl \in Int /\ rc \in Int /\ tl \in Int /\ tc \in Int /\ q \in Int
    BY <1>3, HandTypes DEF Result
  <2>4. k \in Int
    BY TimesFinite, FS_Subset, FS_CardinalityType DEF TypeOK
  <2>5. queue' = queue /\ snapshots' = snapshots /\ accepted' = accepted
    BY <1>1 DEF feed
  <2> HIDE DEF rl, rc, tl, tc, q, k
  <2>6. /\ (tl + rl) + (tc + rc) + q + 0 = tl + tc + q + (rl + rc)
        /\ k - (tl + rl) - 0 = k - tl - rl
    BY <2>3, <2>4
  <2>7. total'.landed + total'.conflicts + Len(queue') + InHand(t)'
          = total.landed + total.conflicts + Len(queue) + InHand(t)
    BY <1>4, <2>1, <2>2, <2>5, <2>6 DEF rl, rc, tl, tc, q
  <2>8. Cardinality(snapshots') - total'.landed - Waiting(t, "landed")'
          = Cardinality(snapshots) - total.landed - Waiting(t, "landed")
    BY <1>4, <2>1, <2>2, <2>5, <2>6 DEF rl, tl, k
  <2> QED
    BY <1>1, <1>5, <1>6, <2>5, <2>7, <2>8, BooksBalance
<1>9. HandsClear'
  BY <1>1, <1>6, <1>7 DEF Tallied, HandsClear
<1>10. Drained'
  <2>1. CASE t = "main"
    BY <1>1, <1>2, <2>1 DEF Tallied, Drained, TypeOK, feed
  <2>2. CASE t = "flusher"
    BY <1>1, <1>6, <2>2 DEF Tallied, InOrder, Drained, Threads, feed
  <2> QED
    BY <2>1, <2>2 DEF Threads
<1>11. InOrder'
  <2>1. CASE t = "main"
    BY <1>1, <1>2, <1>6, <2>1 DEF Tallied, InOrder, Threads, workers, TypeOK
  <2>2. CASE t = "flusher"
    BY <1>1, <1>2, <1>6, <2>2 DEF Tallied, InOrder, Threads, workers, TypeOK
  <2> QED
    BY <2>1, <2>2 DEF Threads
<1> QED
  BY <1>5, <1>8, <1>9, <1>10, <1>11 DEF Tallied

-----------------------------------------------------------------------------
(* Failures, and the steps that only move a thread on. *)

\* When a flush fails the books need not balance any more, but they stay in order.
LEMMA FailKeeps == ASSUME Inv, NEW t \in Threads, FlushFails(t) PROVE Inv'
<1> USE DEF Inv
<1>1. /\ pc[t] \in {"pop", "write"} /\ pc' = [pc EXCEPT ![t] = "failed"]
      /\ queue' = queue \/ queue' = SubSeq(queue, BatchSize + 1, Len(queue))
      /\ snapshots' = snapshots \/ snapshots' = snapshots \cup Range(batch[t])
      /\ UNCHANGED <<accepted, clock, workers, stopping, flush>>
  BY DEF FlushFails, Go
<1>2. queue' \in Seq(Times)
  <2>1. queue \in Seq(Times) /\ Len(queue) \in Nat /\ \A i \in 1 .. Len(queue) : queue[i] \in Times
    BY LenProperties, ElementOfSeq DEF TypeOK
  <2>2. \A i \in BatchSize + 1 .. Len(queue) : queue[i] \in Times
    BY <2>1, FeedRunAssumption
  <2>3. SubSeq(queue, BatchSize + 1, Len(queue)) \in Seq(Times)
    BY <2>1, <2>2, FeedRunAssumption, SubSeqProperties
  <2> QED
    BY <1>1, <2>1, <2>3
<1>3. snapshots' \subseteq Times
  <2>1. Range(batch[t]) \subseteq Times
    BY RangeOfSeq DEF TypeOK
  <2> QED
    BY <1>1, <2>1 DEF TypeOK
<1>4. TypeOK'
  BY <1>1, <1>2, <1>3 DEF TypeOK, clock, workers, flush, counts
<1>5. pc'[t] = "failed" /\ \A u \in Threads \ {t} : pc'[u] = pc[u]
  BY <1>1 DEF TypeOK
<1>6. Balanced'
  BY <1>5 DEF Balanced
<1>7. HandsClear'
  BY <1>1, <1>5 DEF Tallied, HandsClear, flush, counts
<1>8. Drained'
  <2>1. CASE t = "main"
    BY <1>5, <2>1 DEF Drained
  <2>2. CASE t = "flusher"
    BY <1>1, <1>5, <2>2 DEF Tallied, InOrder, Drained, Threads
  <2> QED
    BY <2>1, <2>2 DEF Threads
<1>9. InOrder'
  BY <1>1, <1>5 DEF Tallied, InOrder, Threads, workers
<1> QED
  BY <1>4, <1>6, <1>7, <1>8, <1>9 DEF Tallied

\* A thread that goes on with nothing in its hands.
LEMMA MoveKeeps ==
  ASSUME Inv,
         \/ FlusherCheck \/ FlusherWait
         \/ MainJoinWorkers \/ MainStop \/ MainFails \/ MainJoinFlusher
  PROVE  Inv'
<1> USE DEF Inv
<1>1. PICK t \in Threads, label \in {"left", "pop", "check", "stop", "join", "failed"} :
        /\ pc' = [pc EXCEPT ![t] = label]
        /\ pc[t] \in {"check", "wait", "workers", "stop", "join"}
        /\ t = "flusher" => label \in {"left", "pop", "check"} /\ pc[t] \in {"check", "wait"}
        /\ t = "main" => \/ pc[t] = "workers" /\ label = "stop" /\ \A w \in Workers : wpc[w] = "left"
                         \/ pc[t] = "stop" /\ label \in {"join", "failed"}
                         \/ pc[t] = "join" /\ label = "pop" /\ pc["flusher"] \in {"left", "failed"}
  <2>1. CASE FlusherCheck
    BY <2>1 DEF FlusherCheck, Go, Threads
  <2>2. CASE FlusherWait
    BY <2>2 DEF FlusherWait, Go, Threads
  <2>3. CASE MainJoinWorkers
    BY <2>3 DEF MainJoinWorkers, Go, Threads
  <2>4. CASE MainStop
    BY <2>4 DEF MainStop, Go, Threads
  <2>5. CASE MainFails
    BY <2>5 DEF MainFails, Go, Threads
  <2>6. CASE MainJoinFlusher
    BY <2>6 DEF MainJoinFlusher, Go, Threads
  <2> QED
    BY <2>1, <2>2, <2>3, <2>4, <2>5, <2>6
<1>2. stopping' \in BOOLEAN /\ UNCHANGED <<feed, clock, workers, flush>>
  BY DEF FlusherCheck, FlusherWait, MainJoinWorkers, MainStop, MainFails, MainJoinFlusher, TypeOK
<1>3. TypeOK'
  BY <1>1, <1>2 DEF TypeOK, feed, clock, workers, flush, counts
<1>4. pc'[t] = label /\ \A u \in Threads \ {t} : pc'[u] = pc[u]
  BY <1>1 DEF TypeOK
<1>5. /\ InHand(t)' = InHand(t)
      /\ Waiting(t, "landed")' = Waiting(t, "landed")
  BY <1>1, <1>2, <1>4 DEF InHand, Waiting, flush, counts
<1>6. Balanced'
  BY <1>1, <1>2, <1>3, <1>4, <1>5, BooksBalance DEF feed, flush, counts
<1>7. HandsClear'
  BY <1>1, <1>2, <1>4 DEF Tallied, HandsClear, flush, counts
<1>8. Drained'
  <2>1. CASE t = "main"
    BY <1>1, <1>4, <2>1 DEF Drained
  <2>2. CASE t = "flusher"
    BY <1>1, <1>2, <1>4, <2>2 DEF Tallied, Drained, Threads, feed, flush, counts
  <2> QED
    BY <2>1, <2>2 DEF Threads
<1>9. InOrder'
  <2>1. CASE t = "main"
    BY <1>1, <1>2, <1>4, <2>1 DEF Tallied, InOrder, Threads, workers
  <2>2. CASE t = "flusher"
    BY <1>1, <1>2, <1>4, <2>2 DEF Tallied, InOrder, Threads, workers
  <2> QED
    BY <2>1, <2>2 DEF Threads
<1> QED
  BY <1>3, <1>6, <1>7, <1>8, <1>9 DEF Tallied

\* Time passes, or nothing does.
LEMMA TimeKeeps == ASSUME Inv, ClockTick \/ Deadline \/ UNCHANGED vars PROVE Inv'
<1> USE DEF Inv
<1>1. UNCHANGED <<feed, workers, stopping, pc, flush>>
  BY DEF ClockTick, Deadline, vars
<1>2. now' \in Times /\ late' \in BOOLEAN
  <2>1. CASE ClockTick
    BY <2>1, FeedRunAssumption DEF ClockTick, TypeOK, Times
  <2>2. CASE Deadline \/ UNCHANGED vars
    BY <2>2 DEF Deadline, TypeOK, vars, clock
  <2> QED
    BY <2>1, <2>2
<1>3. TypeOK'
  BY <1>1, <1>2 DEF TypeOK, feed, workers, flush, counts
<1>4. Tallied'
  BY <1>1 DEF Tallied, InOrder, HandsClear, Drained, Balanced, InHand, Waiting, feed, workers, flush, counts
<1> QED
  BY <1>3, <1>4

-----------------------------------------------------------------------------
LEMMA NextKeeps == ASSUME Inv, [Next]_vars PROVE Inv'
<1>1. CASE \E w \in Workers : Work(w) \/ WorkerDies(w)
  BY <1>1, WorkerKeeps DEF Work
<1>2. CASE \E t \in Threads : Flush(t)
  BY <1>2, PopKeeps, WriteKeeps, LoadKeeps, StoreKeeps DEF Flush
<1>3. CASE \/ FlusherCheck \/ FlusherWait
           \/ MainJoinWorkers \/ MainStop \/ MainFails \/ MainJoinFlusher
  BY <1>3, MoveKeeps
<1>4. CASE \E t \in Threads : FlushFails(t)
  BY <1>4, FailKeeps
<1>5. CASE ClockTick \/ Deadline \/ UNCHANGED vars
  BY <1>5, TimeKeeps
<1> QED
  BY <1>1, <1>2, <1>3, <1>4, <1>5 DEF Next, Flusher, Main, Threads

LEMMA Always == Spec => []Inv
<1>1. Init => Inv
  BY Begins
<1>2. Inv /\ [Next]_vars => Inv'
  BY NextKeeps
<1> QED
  BY <1>1, <1>2, PTL DEF Spec

\* Every variable of the benchmark's run keeps its type; no batch is longer than
\* FLUSH_BATCH_SIZE, and no count of flush_odds_queue is negative.
THEOREM RunTypes == Spec => []TypeOK
<1>1. Inv => TypeOK
  BY DEF Inv
<1> QED
  BY <1>1, Always, PTL

\* At every moment, and although the sums are read and written without a lock,
\* each accepted tick is in one place, and each new row is counted or about to be.
THEOREM BooksInOrder == Spec => []Tallied
<1>1. Inv => Tallied
  BY DEF Inv
<1> QED
  BY <1>1, Always, PTL

\* The assertions at the end of run_path_redis hold in every run in which the
\* flusher thread did not fail.
THEOREM RunReconciles == Spec => []Reconciles
<1>1. Inv => Reconciles
  <2> SUFFICES ASSUME Inv, pc["main"] = "report", pc["flusher"] # "failed"
               PROVE  /\ accepted = total.landed + total.conflicts + Len(queue)
                      /\ Cardinality(snapshots) = total.landed
                      /\ queue = <<>>
    BY DEF Reconciles
  <2>1. queue = <<>> /\ pc["flusher"] = "left" /\ \A t \in Threads : pc[t] # "failed" /\ batch[t] = <<>>
    BY DEF Inv, Tallied, InOrder, HandsClear, Drained, Threads
  <2>2. \A t \in Threads : InHand(t) = 0 /\ Waiting(t, "landed") = 0
    BY <2>1, EmptySeq DEF InHand, Waiting, Threads
  <2>3. total.landed \in Int /\ total.conflicts \in Int /\ Len(queue) = 0
    BY <2>1, EmptySeq DEF Inv, TypeOK, Counts
  <2>4. /\ accepted = total.landed + total.conflicts + Len(queue) + 0 + 0
        /\ Cardinality(snapshots) = total.landed + 0 + 0
    BY <2>1, <2>2 DEF Inv, Tallied, Balanced, Threads
  <2> QED
    BY <2>1, <2>3, <2>4
<1> QED
  BY <1>1, Always, PTL
=============================================================================
